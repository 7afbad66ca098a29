---------------------------- MODULE JobQueueProofs ----------------------------
(***************************************************************************)
(* Proofs about JobQueue, for any set of jobs, any number of workers and   *)
(* any limit of the log.                                                   *)
(***************************************************************************)
EXTENDS JobQueue, SequenceTheorems, WellFoundedInduction, TLAPS

(* The work queue holds each job whose future is pending, once.            *)
QueueInv ==
  /\ \A i \in DOMAIN queue : future[queue[i]] = "pending"
  /\ \A i, k \in DOMAIN queue : queue[i] = queue[k] => i = k

(* How far the caller of a job, its future, its done-callback and its      *)
(* record can be apart.                                                    *)
CallerInv(j) ==
  /\ pc[j] \in {"new", "registered", "refused"} <=> future[j] = "none"
  /\ pc[j] \in {"new", "refused"} => state[j] = "absent"
  /\ pc[j] = "registered" => state[j] = "pending"
  /\ pc[j] = "queued" => settle[j] = "none"
  /\ pc[j] = "settling" => settle[j] \in {"due", "stored"}
  /\ settle[j] # "none" => future[j] \in Finished
  /\ settle[j] = "stored" => future[j] \in Succeeded

RecordInv(j) ==
  /\ future[j] \in {"pending", "taken"} => state[j] = "pending"
  /\ future[j] = "running" => state[j] = "running"
  /\ future[j] \in Succeeded \cup {"error"} /\ settle[j] # "over" => state[j] = "running"
  /\ future[j] = "cancelled" /\ settle[j] # "over" => state[j] = "pending"
  /\ settle[j] = "over" => state[j] \in Terminal \cup {"absent"}
  /\ state[j] = "done" => settle[j] = "over" /\ future[j] \in Succeeded

ResultInv(j) ==
  /\ settle[j] \in {"stored", "over"} /\ future[j] \in Succeeded => Operation[j] \in exercised
  /\ j \in raw \cup taken => future[j] = "binary" /\ settle[j] \in {"stored", "over"}
  /\ settle[j] \in {"stored", "over"} /\ future[j] = "binary" /\ state[j] # "absent"
       => j \in raw \cup taken
  /\ j \in raw => j \notin taken /\ state[j] # "absent"

(* The order lists the records and nothing else, each once.                *)
Listed(o) == {o[i] : i \in DOMAIN o}
Once(o) == \A i, k \in DOMAIN o : o[i] = o[k] => i = k

OrderInv ==
  /\ order \in Seq(Jobs)
  /\ Listed(order) = {j \in Jobs : state[j] # "absent"}
  /\ Once(order)

QueueSafe ==
  /\ ThreadsTypeOK
  /\ QueueInv
  /\ OrderInv
  /\ \A j \in Jobs : CallerInv(j) /\ RecordInv(j) /\ ResultInv(j)

JobInv(j) == CallerInv(j) /\ RecordInv(j) /\ ResultInv(j)

-------------------------------------------------------------------------------
(* The natural numbers are well-founded, so a nonempty set of them has a   *)
(* least element.                                                          *)
Less == {ss \in Nat \X Nat : ss[1] < ss[2]}

LEMMA LessIsWellFounded == IsWellFoundedOn(Less, Nat)
BY NatLessThanWellFounded DEF Less, OpToRel

LEMMA Least ==
  ASSUME NEW T, T \subseteq Nat, T # {}
  PROVE  \E m \in T : \A k \in T : m <= k
<1>1. PICK m \in T : \A k \in T : ~ (<<k, m>> \in Less)
  BY LessIsWellFounded, WFMin
<1>2. ASSUME NEW k \in T PROVE m <= k
  <2>1. <<k, m>> \in Nat \X Nat /\ <<k, m>> \notin Less
    BY <1>1
  <2>2. ~(k < m)
    BY <2>1 DEF Less
  <2> QED
    BY <2>2
<1> QED
  BY <1>2

(* Induction up to n: a set that holds 0, and the successor of each of its *)
(* members below n, holds every number up to n.                            *)
LEMMA Climb ==
  ASSUME NEW n \in Nat, NEW T, 0 \in T, \A k \in 0..n - 1 : k \in T => k + 1 \in T
  PROVE  \A k \in 0..n : k \in T
<1> SUFFICES ASSUME (0..n) \ T # {} PROVE FALSE
  OBVIOUS
<1>1. (0..n) \ T \subseteq Nat
  OBVIOUS
<1>2. PICK m \in (0..n) \ T : \A k \in (0..n) \ T : m <= k
  BY <1>1, Least
<1>3. m # 0 /\ m - 1 \in 0..n - 1 /\ m = (m - 1) + 1
  BY <1>2
<1>4. m - 1 \in (0..n) \ T
  BY <1>2, <1>3
<1> QED
  BY <1>2, <1>4

(* Recursion up to n: some function over 0..n starts at b and follows the  *)
(* steps.                                                                  *)
Steps(n, V) == [1..n -> [V -> V]]
Follows(f, n, b, step) == f[0] = b /\ \A i \in 1..n : f[i] = step[i][f[i - 1]]

LEMMA Recursion ==
  ASSUME NEW n \in Nat, NEW V, NEW b \in V, NEW step \in Steps(n, V)
  PROVE  \E f \in [0..n -> V] : Follows(f, n, b, step)
<1> USE DEF Follows
<1> DEFINE Up(m) == \E f \in [0..m -> V] : f[0] = b /\ \A i \in 1..m : f[i] = step[i][f[i - 1]]
           T == {m \in 0..n : Up(m)}
<1>1. 0 \in T
  <2> DEFINE f == [i \in 0..0 |-> b]
  <2>1. f \in [0..0 -> V] /\ f[0] = b /\ \A i \in 1..0 : f[i] = step[i][f[i - 1]]
    OBVIOUS
  <2> HIDE DEF f
  <2>2. Up(0)
    BY <2>1
  <2> QED
    BY <2>2
<1>2. ASSUME NEW m \in 0..n - 1, m \in T PROVE m + 1 \in T
  <2>1. PICK f \in [0..m -> V] : f[0] = b /\ \A i \in 1..m : f[i] = step[i][f[i - 1]]
    BY <1>2
  <2> DEFINE g == [i \in 0..m + 1 |-> IF i = m + 1 THEN step[m + 1][f[m]] ELSE f[i]]
  <2>2. f[m] \in V /\ m + 1 \in 1..n
    OBVIOUS
  <2>3. step[m + 1][f[m]] \in V
    BY <2>2 DEF Steps
  <2>4. g \in [0..m + 1 -> V]
    BY <2>3
  <2>5. g[0] = b
    BY <2>1
  <2>6. ASSUME NEW i \in 1..m + 1 PROVE g[i] = step[i][g[i - 1]]
    <3>1. CASE i = m + 1
      BY <3>1
    <3>2. CASE i # m + 1
      <4>1. i \in 1..m /\ i - 1 \in 0..m /\ i - 1 # m + 1
        BY <3>2
      <4> QED
        BY <2>1, <4>1
    <3> QED
      BY <3>1, <3>2
  <2> HIDE DEF g
  <2>7. Up(m + 1)
    BY <2>4, <2>5, <2>6
  <2>8. m + 1 \in 0..n
    OBVIOUS
  <2> HIDE DEF Up
  <2> QED
    BY <2>7, <2>8
<1> HIDE DEF T
<1>3. \A k \in 0..n : k \in T
  BY <1>1, <1>2, Climb
<1>4. n \in T
  BY <1>3
<1> QED
  BY <1>4 DEF T

-------------------------------------------------------------------------------
(* Evicted and Without are what their recursions say.                      *)
LEMMA EvictedIs ==
  ASSUME NEW o \in Seq(Jobs), NEW s
  PROVE  /\ Evicted(o, s) \in [0..Len(o) -> Nat]
         /\ Evicted(o, s)[0] = 0
         /\ \A i \in 1..Len(o) :
              Evicted(o, s)[i] = IF s[o[i]] \notin Active /\ Evicted(o, s)[i - 1] < Len(o) - Limit
                                 THEN Evicted(o, s)[i - 1] + 1 ELSE Evicted(o, s)[i - 1]
<1> DEFINE n == Len(o)
           Goes(i, v) == s[o[i]] \notin Active /\ v < n - Limit
           Is(f) == f = [i \in 0..n |-> IF i = 0 THEN 0
                                        ELSE IF Goes(i, f[i - 1]) THEN f[i - 1] + 1 ELSE f[i - 1]]
           V == Nat
           step == [i \in 1..n |-> [v \in V |-> IF Goes(i, v) THEN v + 1 ELSE v]]
           e == Evicted(o, s)
<1>1. n \in Nat
  OBVIOUS
<1>2. e = CHOOSE f : Is(f)
  BY DEF Evicted
<1> HIDE DEF n, e
<1>3. step \in Steps(n, V)
  BY DEF Steps
<1>4. PICK f \in [0..n -> V] : f[0] = 0 /\ \A i \in 1..n : f[i] = step[i][f[i - 1]]
  <2> DEFINE b == 0
  <2>1. b \in V
    OBVIOUS
  <2> HIDE DEF step, V, b
  <2>2. \E f \in [0..n -> V] : Follows(f, n, b, step)
    BY <1>1, <1>3, <2>1, Recursion
  <2> QED
    BY <2>2 DEF Follows, b
<1>5. ASSUME NEW i \in 1..n PROVE f[i] = IF Goes(i, f[i - 1]) THEN f[i - 1] + 1 ELSE f[i - 1]
  <2>1. f[i - 1] \in V
    BY <1>1
  <2>2. f[i] = step[i][f[i - 1]]
    BY <1>4
  <2> HIDE DEF V, Goes
  <2> QED
    BY <2>1, <2>2
<1>6. Is(f)
  <2> HIDE DEF V, Goes
  <2> QED
    BY <1>1, <1>4, <1>5
<1>7. Is(e)
  <2> HIDE DEF Is
  <2> QED
    BY <1>2, <1>6
<1>8. /\ DOMAIN e = 0..n
      /\ e[0] = 0
      /\ \A i \in 1..n : e[i] = IF Goes(i, e[i - 1]) THEN e[i - 1] + 1 ELSE e[i - 1]
  BY <1>1, <1>7
<1>9. \A i \in 0..n : e[i] \in Nat
  <2> DEFINE T == {i \in 0..n : e[i] \in Nat}
  <2>1. 0 \in T
    BY <1>1, <1>8
  <2>2. ASSUME NEW i \in 0..n - 1, i \in T PROVE i + 1 \in T
    <3>1. i + 1 \in 1..n /\ (i + 1) - 1 = i /\ e[i] \in Nat
      BY <1>1, <2>2
    <3>2. e[i + 1] = IF Goes(i + 1, e[i]) THEN e[i] + 1 ELSE e[i]
      BY <1>8, <3>1
    <3>3. e[i + 1] \in Nat
      BY <3>1, <3>2
    <3> QED
      BY <3>1, <3>3
  <2> QED
    BY <1>1, <2>1, <2>2, Climb
<1>10. e \in [0..n -> Nat]
  BY <1>7, <1>9
<1> QED
  BY <1>8, <1>10 DEF n, e

LEMMA WithoutIs ==
  ASSUME NEW o \in Seq(Jobs), NEW S
  PROVE  \E f \in [0..Len(o) -> Seq(Jobs)] :
           /\ f[0] = <<>>
           /\ \A i \in 1..Len(o) : f[i] = IF o[i] \in S THEN f[i - 1] ELSE Append(f[i - 1], o[i])
           /\ Without(o, S) = f[Len(o)]
<1> DEFINE n == Len(o)
           V == Seq(Jobs)
           b == <<>>
           With(i, v) == IF o[i] \in S THEN v ELSE Append(v, o[i])
           Is(f) == f = [i \in 0..n |-> IF i = 0 THEN b ELSE With(i, f[i - 1])]
           step == [i \in 1..n |-> [v \in V |-> With(i, v)]]
           k == CHOOSE f : Is(f)
<1>1. n \in Nat
  OBVIOUS
<1>a. \A i \in 1..n : o[i] \in Jobs
  OBVIOUS
<1>2. Without(o, S) = k[n]
  BY DEF Without
<1>3. b \in V
  OBVIOUS
<1>4. step \in Steps(n, V)
  <2>1. \A i \in 1..n : \A v \in V : With(i, v) \in V
    BY <1>a
  <2> HIDE DEF V, n, With
  <2> QED
    BY <2>1 DEF Steps
<1> HIDE DEF n, V, k, b, With
<1>5. PICK f \in [0..n -> V] : f[0] = b /\ \A i \in 1..n : f[i] = step[i][f[i - 1]]
  <2> HIDE DEF step
  <2>1. \E f \in [0..n -> V] : Follows(f, n, b, step)
    BY <1>1, <1>3, <1>4, Recursion
  <2> QED
    BY <2>1 DEF Follows
<1>6. ASSUME NEW i \in 1..n PROVE f[i] = With(i, f[i - 1])
  <2>1. f[i - 1] \in V
    BY <1>1
  <2>2. f[i] = step[i][f[i - 1]]
    BY <1>5
  <2> QED
    BY <2>1, <2>2
<1>7. Is(f)
  BY <1>1, <1>5, <1>6
<1>8. Is(k)
  <2> HIDE DEF Is
  <2> QED
    BY <1>7 DEF k
<1>9. k[0] = b /\ \A i \in 1..n : k[i] = With(i, k[i - 1])
  BY <1>1, <1>8
<1>10. \A i \in 0..n : k[i] = f[i]
  <2> DEFINE T == {i \in 0..n : k[i] = f[i]}
  <2>1. 0 \in T
    BY <1>1, <1>5, <1>9
  <2>2. \A i \in 0..n - 1 : i \in T => i + 1 \in T
    BY <1>1, <1>6, <1>9
  <2> HIDE DEF T
  <2>3. \A i \in 0..n : i \in T
    BY <1>1, <2>1, <2>2, Climb
  <2> QED
    BY <2>3 DEF T
<1>11. k[n] = f[n]
  BY <1>1, <1>10
<1> QED
  BY <1>2, <1>5, <1>6, <1>11 DEF n, V, b, With

(* Without keeps the order's other entries, in sequence and once each.     *)
LEMMA Appended ==
  ASSUME NEW o \in Seq(Jobs), NEW j \in Jobs
  PROVE  /\ Append(o, j) \in Seq(Jobs)
         /\ Len(Append(o, j)) = Len(o) + 1
         /\ Listed(Append(o, j)) = Listed(o) \cup {j}
         /\ Once(o) /\ j \notin Listed(o) => Once(Append(o, j))
<1> DEFINE a == Append(o, j)
<1>1. /\ a \in Seq(Jobs) /\ Len(a) = Len(o) + 1
      /\ Len(o) \in Nat /\ DOMAIN o = 1..Len(o) /\ DOMAIN a = 1..Len(o) + 1
      /\ \A i \in 1..Len(o) : a[i] = o[i]
      /\ a[Len(o) + 1] = j
  OBVIOUS
<1> HIDE DEF a
<1>2. \A i \in DOMAIN a : i \in DOMAIN o \/ i = Len(o) + 1
  BY <1>1
<1>3. Listed(a) = Listed(o) \cup {j}
  BY <1>1, <1>2 DEF Listed
<1>4. ASSUME Once(o), j \notin Listed(o) PROVE Once(a)
  BY <1>1, <1>2, <1>4 DEF Once, Listed
<1> QED
  BY <1>1, <1>3, <1>4 DEF a

LEMMA WithoutKeeps ==
  ASSUME NEW o \in Seq(Jobs), NEW S, Once(o)
  PROVE  /\ Without(o, S) \in Seq(Jobs)
         /\ Listed(Without(o, S)) = Listed(o) \ S
         /\ Once(Without(o, S))
<1>1. PICK f \in [0..Len(o) -> Seq(Jobs)] :
        /\ f[0] = <<>>
        /\ \A i \in 1..Len(o) : f[i] = IF o[i] \in S THEN f[i - 1] ELSE Append(f[i - 1], o[i])
        /\ Without(o, S) = f[Len(o)]
  BY WithoutIs
<1> DEFINE n == Len(o)
           Seen(i) == {o[k] : k \in 1..i}
           Good(i) == Listed(f[i]) = Seen(i) \ S /\ Once(f[i])
           T == {i \in 0..n : Good(i)}
<1>2. n \in Nat /\ DOMAIN o = 1..n /\ \A i \in 1..n : o[i] \in Jobs
  OBVIOUS
<1> HIDE DEF n
<1>3. 0 \in T
  <2>1. DOMAIN f[0] = {}
    BY <1>1
  <2>2. Seen(0) = {}
    OBVIOUS
  <2>3. Good(0)
    BY <2>1, <2>2 DEF Listed, Once
  <2> QED
    BY <1>2, <2>3
<1>4. ASSUME NEW i \in 0..n - 1, i \in T PROVE i + 1 \in T
  <2>1. i + 1 \in 1..n /\ (i + 1) - 1 = i /\ i \in 0..n
    BY <1>2
  <2>2. Seen(i + 1) = Seen(i) \cup {o[i + 1]}
    BY <1>2, <2>1
  <2>3. o[i + 1] \notin Seen(i)
    <3> SUFFICES ASSUME NEW k \in 1..i, o[k] = o[i + 1] PROVE FALSE
      OBVIOUS
    <3>1. k \in DOMAIN o /\ i + 1 \in DOMAIN o /\ k # i + 1
      BY <1>2, <2>1
    <3> QED
      BY <3>1 DEF Once
  <2>4. f[i] \in Seq(Jobs) /\ o[i + 1] \in Jobs
    BY <1>2, <2>1 DEF n
  <2>5. Good(i)
    BY <1>4
  <2> HIDE DEF Seen
  <2>6. CASE o[i + 1] \in S
    <3>1. f[i + 1] = f[i]
      BY <1>1, <2>1, <2>6 DEF n
    <3>2. Good(i + 1)
      BY <2>2, <2>5, <2>6, <3>1
    <3> QED
      BY <2>1, <3>2
  <2>7. CASE o[i + 1] \notin S
    <3>1. f[i + 1] = Append(f[i], o[i + 1])
      BY <1>1, <2>1, <2>7 DEF n
    <3>2. Listed(f[i + 1]) = Listed(f[i]) \cup {o[i + 1]} /\ o[i + 1] \notin Listed(f[i])
      BY <2>3, <2>4, <2>5, <3>1, Appended
    <3>3. Once(f[i + 1])
      BY <2>4, <2>5, <3>1, <3>2, Appended
    <3>4. Good(i + 1)
      BY <2>2, <2>5, <2>7, <3>2, <3>3
    <3> QED
      BY <2>1, <3>4
  <2> QED
    BY <2>6, <2>7
<1> HIDE DEF T
<1>5. \A i \in 0..n : i \in T
  BY <1>2, <1>3, <1>4, Climb
<1>6. n \in T
  BY <1>2, <1>5
<1>7. Good(n) /\ Seen(n) = Listed(o)
  BY <1>2, <1>6 DEF T, Listed
<1> QED
  BY <1>1, <1>2, <1>7 DEF n

(* Eviction never drops an active record.                                  *)
LEMMA DroppedInactive ==
  ASSUME NEW o \in Seq(Jobs), NEW s, NEW j \in Dropped(o, s)
  PROVE  s[j] \notin Active
<1>1. PICK k \in DOMAIN o : j = o[k] /\ Evicted(o, s)[k - 1] < Evicted(o, s)[k]
  BY DEF Dropped
<1>2. k \in 1..Len(o) /\ k - 1 \in 0..Len(o)
  OBVIOUS
<1>3. Evicted(o, s)[k] # Evicted(o, s)[k - 1]
  BY <1>1, <1>2, EvictedIs
<1> QED
  BY <1>1, <1>2, <1>3, EvictedIs

(* Eviction leaves at most Limit entries, or nothing but active records.   *)
LEMMA DroppedTrims ==
  ASSUME NEW o \in Seq(Jobs), NEW s, Once(o)
  PROVE  \/ Len(Without(o, Dropped(o, s))) <= Limit
         \/ \A j \in Listed(Without(o, Dropped(o, s))) : s[j] \in Active
<1> DEFINE n == Len(o)
           e == Evicted(o, s)
           S == Dropped(o, s)
<1>1. PICK f \in [0..n -> Seq(Jobs)] :
        /\ f[0] = <<>>
        /\ \A i \in 1..n : f[i] = IF o[i] \in S THEN f[i - 1] ELSE Append(f[i - 1], o[i])
        /\ Without(o, S) = f[n]
  BY WithoutIs
<1>2. /\ e \in [0..n -> Nat] /\ e[0] = 0
      /\ \A i \in 1..n : e[i] = IF s[o[i]] \notin Active /\ e[i - 1] < n - Limit
                                THEN e[i - 1] + 1 ELSE e[i - 1]
  BY EvictedIs
<1>3. n \in Nat /\ DOMAIN o = 1..n /\ \A i \in 1..n : o[i] \in Jobs
  OBVIOUS
<1>4. \A i \in 1..n : o[i] \in S <=> e[i - 1] < e[i]
  BY <1>3 DEF Dropped, Once
<1> HIDE DEF n, e, S
<1>5. \A i \in 1..n : i - 1 \in 0..n /\ e[i - 1] \in Nat /\ e[i] \in Nat /\ f[i - 1] \in Seq(Jobs)
  BY <1>2, <1>3
<1> DEFINE Good(i) == /\ Len(f[i]) = i - e[i]
                      /\ \A k \in 1..i : e[i] < n - Limit /\ s[o[k]] \notin Active => o[k] \in S
           T == {i \in 0..n : Good(i)}
<1>6. 0 \in T
  BY <1>1, <1>2, <1>3, SMTT(40)
<1>7. ASSUME NEW i \in 0..n - 1, i \in T PROVE i + 1 \in T
  <2>1. i + 1 \in 1..n /\ (i + 1) - 1 = i /\ i \in Nat
    BY <1>3
  <2>2. e[i] \in Nat /\ f[i] \in Seq(Jobs) /\ o[i + 1] \in Jobs /\ Good(i)
    BY <1>3, <1>5, <1>7, <2>1
  <2>3. CASE s[o[i + 1]] \notin Active /\ e[i] < n - Limit
    <3>1. e[i + 1] = e[i] + 1
      BY <1>2, <2>1, <2>3
    <3>2. o[i + 1] \in S
      BY <1>4, <2>1, <2>2, <3>1
    <3>3. f[i + 1] = f[i]
      BY <1>1, <2>1, <3>2
    <3>4. \A k \in 1..i + 1 : k \in 1..i \/ k = i + 1
      BY <2>1
    <3> HIDE DEF T
    <3>5. Good(i + 1)
      BY <2>1, <2>2, <2>3, <3>1, <3>2, <3>3, <3>4, SMTT(40)
    <3> QED
      BY <1>3, <2>1, <3>5 DEF T
  <2>4. CASE ~(s[o[i + 1]] \notin Active /\ e[i] < n - Limit)
    <3>1. e[i + 1] = e[i]
      BY <1>2, <2>1, <2>4
    <3>2. o[i + 1] \notin S
      BY <1>4, <2>1, <2>2, <3>1
    <3>3. f[i + 1] = Append(f[i], o[i + 1])
      BY <1>1, <2>1, <3>2
    <3>4. Len(f[i + 1]) = Len(f[i]) + 1
      BY <2>2, <3>3, Appended
    <3>5. \A k \in 1..i + 1 : k \in 1..i \/ k = i + 1
      BY <2>1
    <3> HIDE DEF T
    <3>6. Len(f[i + 1]) = (i + 1) - e[i + 1]
      BY <2>1, <2>2, <3>1, <3>4
    <3>7. ASSUME NEW k \in 1..i + 1, e[i + 1] < n - Limit, s[o[k]] \notin Active PROVE o[k] \in S
      <4>1. k # i + 1
        BY <2>4, <3>1, <3>7
      <4> QED
        BY <2>2, <3>1, <3>5, <3>7, <4>1
    <3>8. Good(i + 1)
      BY <3>6, <3>7
    <3> QED
      BY <1>3, <2>1, <3>8 DEF T
  <2> QED
    BY <2>3, <2>4
<1> HIDE DEF T
<1>8. \A i \in 0..n : i \in T
  BY <1>3, <1>6, <1>7, Climb
<1>9. Good(n)
  BY <1>3, <1>8, SMTT(40) DEF T
<1>10. CASE e[n] < n - Limit
  <2>1. \A j \in Listed(o) \ S : s[j] \in Active
    BY <1>3, <1>9, <1>10 DEF Listed
  <2>2. Listed(Without(o, S)) = Listed(o) \ S
    BY WithoutKeeps
  <2> QED
    BY <2>1, <2>2 DEF S
<1>11. CASE ~(e[n] < n - Limit)
  <2>1. e[n] \in Nat /\ Limit \in Nat
    BY <1>2, <1>3, LimitAssumption
  <2>2. Len(f[n]) <= Limit
    BY <1>3, <1>9, <1>11, <2>1
  <2> QED
    BY <1>1, <2>2 DEF S
<1> QED
  BY <1>10, <1>11

(* The work queue is a sequence that grows at its end and shrinks at its   *)
(* head.                                                                   *)
LEMMA QueueAppend ==
  ASSUME NEW q \in Seq(Jobs), NEW j \in Jobs
  PROVE  /\ Append(q, j) \in Seq(Jobs)
         /\ DOMAIN Append(q, j) = 1..Len(q) + 1
         /\ \A i \in 1..Len(q) : Append(q, j)[i] = q[i]
         /\ Append(q, j)[Len(q) + 1] = j
         /\ DOMAIN q = 1..Len(q) /\ Len(q) \in Nat
OBVIOUS

LEMMA QueueTail ==
  ASSUME NEW q \in Seq(Jobs), q # <<>>
  PROVE  /\ Tail(q) \in Seq(Jobs) /\ Head(q) = q[1] /\ 1 \in DOMAIN q /\ q[1] \in Jobs
         /\ \A i \in DOMAIN Tail(q) : i + 1 \in DOMAIN q /\ Tail(q)[i] = q[i + 1] /\ i \in Nat \ {0}
OBVIOUS

(* Every step keeps the variables within their types.                      *)
LEMMA TypeStep == ThreadsTypeOK /\ [Next]_vars => ThreadsTypeOK'
<1> SUFFICES ASSUME ThreadsTypeOK, [Next]_vars PROVE ThreadsTypeOK'
  OBVIOUS
<1> USE DEF ThreadsTypeOK, logVars, poolVars, Active, Terminal, Succeeded, Finished
<1>1. ASSUME NEW j \in Jobs, Refuse(j) PROVE ThreadsTypeOK'
  BY <1>1 DEF Refuse
<1>2. ASSUME NEW j \in Jobs, Register(j) PROVE ThreadsTypeOK'
  <2>1. state' \in [Jobs -> {"absent"} \cup Active \cup Terminal]
    BY <1>2 DEF Register
  <2>2. pc' \in [Jobs -> {"new", "registered", "queued", "settling", "returned", "refused"}]
    BY <1>2 DEF Register
  <2>3. raw' \in SUBSET Jobs
    BY <1>2 DEF Register
  <2> QED
    BY <1>2, <2>1, <2>2, <2>3 DEF Register
<1>3. ASSUME NEW j \in Jobs, Enqueue(j) PROVE ThreadsTypeOK'
  BY <1>3, QueueAppend DEF Enqueue
<1>4. ASSUME NEW j \in Jobs, Withdraw(j) PROVE ThreadsTypeOK'
  BY <1>4 DEF Withdraw
<1>5. ASSUME NEW j \in Jobs, Attach(j) PROVE ThreadsTypeOK'
  BY <1>5 DEF Attach
<1>6. ASSUME NEW j \in Jobs, Take(j) PROVE ThreadsTypeOK'
  BY <1>6, QueueTail DEF Take
<1>7. ASSUME NEW j \in Jobs, MarkRunning(j) PROVE ThreadsTypeOK'
  BY <1>7 DEF MarkRunning, Amend
<1>8. ASSUME NEW j \in Jobs, RunEnds(j) PROVE ThreadsTypeOK'
  BY <1>8 DEF RunEnds, Resolve
<1>9. ASSUME NEW j \in Jobs, StoreResult(j) PROVE ThreadsTypeOK'
  BY <1>9 DEF StoreResult
<1>10. ASSUME NEW j \in Jobs, RecordDone(j) PROVE ThreadsTypeOK'
  BY <1>10 DEF RecordDone, Amend, Settled
<1>11. ASSUME NEW j \in Jobs, RecordFailed(j) PROVE ThreadsTypeOK'
  BY <1>11 DEF RecordFailed, Amend, Settled
<1>12. ASSUME NEW j \in Jobs, TakeRaw(j) PROVE ThreadsTypeOK'
  BY <1>12 DEF TakeRaw
<1>13. CASE Shutdown
  BY <1>13 DEF Shutdown
<1>14. CASE CloseExecutor
  BY <1>14 DEF CloseExecutor
<1>15. ASSUME NEW j \in Jobs, CancelNext(j) PROVE ThreadsTypeOK'
  BY <1>15, QueueTail DEF CancelNext, Resolve
<1>16. CASE Drain
  BY <1>16 DEF Drain
<1>17. CASE UNCHANGED vars
  BY <1>17 DEF vars
<1> HIDE DEF ThreadsTypeOK, logVars, poolVars, Active, Terminal, Succeeded, Finished
<1> QED
  BY <1>1, <1>2, <1>3, <1>4, <1>5, <1>6, <1>7, <1>8, <1>9, <1>10, <1>11, <1>12, <1>13,
     <1>14, <1>15, <1>16, <1>17 DEF Next, Caller, Runs, Settles, Closer, AllOver

(* A job whose own variables did not change keeps its invariants.          *)
LEMMA Untouched ==
  ASSUME QueueSafe, NEW i \in Jobs,
         pc'[i] = pc[i], state'[i] = state[i], future'[i] = future[i], settle'[i] = settle[i],
         i \in raw' <=> i \in raw, i \in taken' <=> i \in taken, exercised \subseteq exercised'
  PROVE  JobInv(i)'
BY DEF QueueSafe, JobInv, CallerInv, RecordInv, ResultInv

(* The work queue keeps its invariant when it and its jobs' futures stay.  *)
LEMMA QueueUntouched ==
  ASSUME QueueInv, queue' = queue,
         \A i \in DOMAIN queue : future'[queue[i]] = future[queue[i]]
  PROVE  QueueInv'
BY DEF QueueInv

(* The order keeps its invariant when it and the set of records stay.      *)
LEMMA OrderUntouched ==
  ASSUME OrderInv, order' = order, \A i \in Jobs : state'[i] = "absent" <=> state[i] = "absent"
  PROVE  OrderInv'
BY DEF OrderInv, Listed, Once

(* A submission lists its job and delists what it evicts.                  *)
LEMMA OrderRegisters ==
  ASSUME QueueSafe, NEW j \in Jobs, Register(j)
  PROVE  OrderInv'
<1> DEFINE registered == [state EXCEPT ![j] = "pending"]
           log == Append(order, j)
           dropped == Dropped(log, registered)
<1>1. order' = Without(log, dropped)
  BY DEF Register
<1>2. state' = [i \in Jobs |-> IF i \in dropped THEN "absent" ELSE registered[i]]
  BY DEF Register
<1>3. state \in [Jobs -> {"absent"} \cup Active \cup Terminal] /\ state[j] = "absent"
  BY DEF QueueSafe, ThreadsTypeOK, CallerInv, Register
<1>4. order \in Seq(Jobs) /\ Once(order) /\ j \notin Listed(order)
      /\ Listed(order) = {i \in Jobs : state[i] # "absent"}
  BY <1>3 DEF QueueSafe, OrderInv
<1>5. log \in Seq(Jobs) /\ Once(log) /\ Listed(log) = Listed(order) \cup {j}
  BY <1>4, Appended
<1> HIDE DEF log, dropped
<1>6. order' \in Seq(Jobs) /\ Listed(order') = Listed(log) \ dropped /\ Once(order')
  BY <1>1, <1>5, WithoutKeeps
<1>7. {i \in Jobs : state'[i] # "absent"} = (Listed(order) \cup {j}) \ dropped
  BY <1>2, <1>3, <1>4
<1> QED
  BY <1>5, <1>6, <1>7 DEF OrderInv, Listed, Once

(* A job withdrawn leaves the order.                                       *)
LEMMA OrderWithdraws ==
  ASSUME QueueSafe, NEW j \in Jobs, Withdraw(j)
  PROVE  OrderInv'
<1>1. order' = Without(order, {j}) /\ state' = [state EXCEPT ![j] = "absent"]
  BY DEF Withdraw
<1>2. state \in [Jobs -> {"absent"} \cup Active \cup Terminal]
  BY DEF QueueSafe, ThreadsTypeOK
<1>3. order \in Seq(Jobs) /\ Once(order) /\ Listed(order) = {i \in Jobs : state[i] # "absent"}
  BY DEF QueueSafe, OrderInv
<1>4. order' \in Seq(Jobs) /\ Listed(order') = Listed(order) \ {j} /\ Once(order')
  BY <1>1, <1>3, WithoutKeeps
<1>5. {i \in Jobs : state'[i] # "absent"} = Listed(order) \ {j}
  BY <1>1, <1>2, <1>3
<1> QED
  BY <1>4, <1>5 DEF OrderInv, Listed, Once

(* submit() keeps the invariants.                                          *)
LEMMA CallerSafe ==
  ASSUME QueueSafe, ThreadsTypeOK', NEW j \in Jobs, Caller(j)
  PROVE  QueueSafe'
<1> USE DEF logVars, poolVars
<1> SUFFICES QueueInv' /\ OrderInv' /\ \A i \in Jobs : JobInv(i)'
  BY DEF QueueSafe, JobInv
<1>0. ThreadsTypeOK /\ QueueInv /\ OrderInv /\ JobInv(j)
  BY DEF QueueSafe, JobInv
<1>1. CASE Refuse(j)
  <2>1. JobInv(j)'
    BY <1>0, <1>1 DEF Refuse, JobInv, CallerInv, RecordInv, ResultInv, ThreadsTypeOK
  <2>2. \A i \in Jobs \ {j} : JobInv(i)'
    BY <1>0, <1>1, Untouched DEF Refuse, ThreadsTypeOK
  <2> QED
    BY <1>0, <1>1, <2>1, <2>2, QueueUntouched, OrderUntouched DEF Refuse
<1>2. CASE Register(j)
  <2> DEFINE registered == [state EXCEPT ![j] = "pending"]
             dropped == Dropped(Append(order, j), registered)
  <2>1. \A i \in Jobs : i \in dropped => i # j /\ state[i] \notin Active
    <3> SUFFICES ASSUME NEW i \in Jobs, i \in dropped PROVE i # j /\ state[i] \notin Active
      OBVIOUS
    <3>1. order \in Seq(Jobs)
      BY <1>0 DEF OrderInv
    <3>2. Append(order, j) \in Seq(Jobs)
      BY <3>1, Appended
    <3>3. registered[i] \notin Active
      BY <3>2, DroppedInactive
    <3> QED
      BY <3>3, <1>0 DEF ThreadsTypeOK, Active
  <2>2. /\ pc[j] = "new" /\ pc' = [pc EXCEPT ![j] = "registered"]
        /\ state' = [i \in Jobs |-> IF i \in dropped THEN "absent" ELSE registered[i]]
        /\ raw' = raw \ dropped
        /\ UNCHANGED <<exercised, closed, poolVars, settle, taken>>
    BY <1>2 DEF Register
  <2> HIDE DEF dropped
  <2>3. JobInv(j)'
    BY <1>0, <2>1, <2>2 DEF JobInv, CallerInv, RecordInv, ResultInv, ThreadsTypeOK, Finished, Succeeded
  <2>4. ASSUME NEW i \in Jobs \ {j}, i \in dropped PROVE JobInv(i)'
    <3>1. JobInv(i) /\ state[i] \notin Active
      BY <2>1, <2>4 DEF QueueSafe, JobInv
    <3> QED
      BY <1>0, <2>2, <2>4, <3>1 DEF JobInv, CallerInv, RecordInv, ResultInv, ThreadsTypeOK,
         Active, Terminal, Succeeded, Finished
  <2>5. ASSUME NEW i \in Jobs \ {j}, i \notin dropped PROVE JobInv(i)'
    BY <1>0, <2>2, <2>5, Untouched DEF ThreadsTypeOK
  <2> QED
    BY <1>0, <1>2, <2>2, <2>3, <2>4, <2>5, QueueUntouched, OrderRegisters
<1>3. CASE Enqueue(j)
  <2>1. future[j] = "none"
    BY <1>0, <1>3 DEF Enqueue, JobInv, CallerInv
  <2>2. JobInv(j)'
    BY <1>0, <1>3 DEF Enqueue, JobInv, CallerInv, RecordInv, ResultInv, ThreadsTypeOK, Finished, Succeeded
  <2>3. \A i \in Jobs \ {j} : JobInv(i)'
    BY <1>0, <1>3, Untouched DEF Enqueue, ThreadsTypeOK
  <2>4. QueueInv'
    <3>1. \A i \in DOMAIN queue : queue[i] # j /\ queue[i] \in Jobs
      BY <1>0, <2>1, QueueAppend DEF QueueInv, ThreadsTypeOK
    <3>2. queue' = Append(queue, j) /\ future' = [future EXCEPT ![j] = "pending"]
      BY <1>3 DEF Enqueue
    <3>3. queue \in Seq(Jobs)
      BY <1>0 DEF ThreadsTypeOK
    <3>4. \A i \in DOMAIN queue' : i \in DOMAIN queue \/ i = Len(queue) + 1
      BY <3>2, <3>3, QueueAppend
    <3>5. \A i \in DOMAIN queue : queue'[i] = queue[i]
      BY <3>2, <3>3, QueueAppend
    <3>6. queue'[Len(queue) + 1] = j
      BY <3>2, <3>3, QueueAppend
    <3> QED
      BY <1>0, <3>1, <3>2, <3>4, <3>5, <3>6 DEF QueueInv, ThreadsTypeOK
  <2>5. OrderInv'
    BY <1>0, <1>3, OrderUntouched DEF Enqueue
  <2> QED
    BY <2>2, <2>3, <2>4, <2>5
<1>4. CASE Withdraw(j)
  <2>1. JobInv(j)'
    BY <1>0, <1>4 DEF Withdraw, JobInv, CallerInv, RecordInv, ResultInv, ThreadsTypeOK, Finished, Succeeded
  <2>2. \A i \in Jobs \ {j} : JobInv(i)'
    BY <1>0, <1>4, Untouched DEF Withdraw, ThreadsTypeOK
  <2> QED
    BY <1>0, <1>4, <2>1, <2>2, QueueUntouched, OrderWithdraws DEF Withdraw
<1>5. CASE Attach(j)
  <2>1. JobInv(j)'
    BY <1>0, <1>5 DEF Attach, JobInv, CallerInv, RecordInv, ResultInv, ThreadsTypeOK, Finished, Succeeded
  <2>2. \A i \in Jobs \ {j} : JobInv(i)'
    BY <1>0, <1>5, Untouched DEF Attach, ThreadsTypeOK
  <2> QED
    BY <1>0, <1>5, <2>1, <2>2, QueueUntouched, OrderUntouched DEF Attach
<1> QED
  BY <1>1, <1>2, <1>3, <1>4, <1>5 DEF Caller

(* The job at the head of the work queue leaves it with a new future.      *)
LEMMA QueueLeave ==
  ASSUME ThreadsTypeOK, QueueInv, NEW j \in Jobs, queue # <<>>, j = Head(queue),
         queue' = Tail(queue), \A i \in Jobs \ {j} : future'[i] = future[i]
  PROVE  QueueInv' /\ future[j] = "pending"
<1>1. queue \in Seq(Jobs)
  BY DEF ThreadsTypeOK
<1>2. j = queue[1] /\ 1 \in DOMAIN queue
  BY <1>1, QueueTail
<1>3. \A i \in DOMAIN queue' : i + 1 \in DOMAIN queue /\ queue'[i] = queue[i + 1] /\ i \in Nat \ {0}
  BY <1>1, QueueTail
<1>4. \A i \in DOMAIN queue' : queue'[i] # j /\ queue'[i] \in Jobs
  <2> SUFFICES ASSUME NEW i \in DOMAIN queue' PROVE queue'[i] # j /\ queue'[i] \in Jobs
    OBVIOUS
  <2>1. i + 1 # 1
    BY <1>3
  <2>2. queue[i + 1] # queue[1]
    BY <1>2, <1>3, <2>1 DEF QueueInv
  <2>3. queue[i + 1] \in Jobs
    BY <1>1, <1>3
  <2> QED
    BY <1>2, <1>3, <2>2, <2>3
<1>5. \A i, k \in DOMAIN queue' : queue'[i] = queue'[k] => i = k
  <2> SUFFICES ASSUME NEW i \in DOMAIN queue', NEW k \in DOMAIN queue', queue'[i] = queue'[k] PROVE i = k
    OBVIOUS
  <2>1. i + 1 = k + 1
    BY <1>3 DEF QueueInv
  <2> QED
    BY <1>3, <2>1
<1>6. \A i \in DOMAIN queue' : future'[queue'[i]] = "pending"
  BY <1>3, <1>4 DEF QueueInv
<1> QED
  BY <1>2, <1>5, <1>6 DEF QueueInv

(* Workers and the closer keep the invariants.                             *)
LEMMA PoolSafe ==
  ASSUME QueueSafe, ThreadsTypeOK', NEW j \in Jobs, Runs(j) \/ CancelNext(j)
  PROVE  QueueSafe'
<1> USE DEF logVars, poolVars
<1>0. ThreadsTypeOK /\ QueueInv /\ OrderInv /\ JobInv(j)
  BY DEF QueueSafe, JobInv
<1> SUFFICES QueueInv' /\ \A i \in Jobs : JobInv(i)'
  <2>1. order' = order /\ \A i \in Jobs : state'[i] = "absent" <=> state[i] = "absent"
    BY <1>0 DEF Runs, Take, MarkRunning, Amend, RunEnds, CancelNext, ThreadsTypeOK
  <2> QED
    BY <1>0, <2>1, OrderUntouched DEF QueueSafe, JobInv
<1>1. CASE Take(j)
  <2>1. QueueInv' /\ future[j] = "pending"
    BY <1>0, <1>1, QueueLeave DEF Take, ThreadsTypeOK
  <2>2. JobInv(j)'
    BY <1>0, <1>1, <2>1 DEF Take, JobInv, CallerInv, RecordInv, ResultInv, ThreadsTypeOK, Finished, Succeeded
  <2>3. \A i \in Jobs \ {j} : JobInv(i)'
    BY <1>0, <1>1, Untouched DEF Take, ThreadsTypeOK
  <2> QED
    BY <2>1, <2>2, <2>3
<1>2. CASE MarkRunning(j)
  <2>1. JobInv(j)'
    BY <1>0, <1>2 DEF MarkRunning, Amend, JobInv, CallerInv, RecordInv, ResultInv, ThreadsTypeOK,
       Finished, Succeeded
  <2>2. \A i \in Jobs \ {j} : JobInv(i)'
    BY <1>0, <1>2, Untouched DEF MarkRunning, Amend, ThreadsTypeOK
  <2>3. \A i \in DOMAIN queue : future'[queue[i]] = future[queue[i]]
    BY <1>0, <1>2, QueueAppend DEF MarkRunning, QueueInv, ThreadsTypeOK
  <2> QED
    BY <1>0, <1>2, <2>1, <2>2, <2>3, QueueUntouched DEF MarkRunning
<1>3. CASE RunEnds(j)
  <2>1. PICK outcome \in Succeeded \cup {"error"} : Resolve(j, outcome)
    BY <1>3 DEF RunEnds
  <2>2. JobInv(j)'
    BY <1>0, <1>3, <2>1 DEF RunEnds, Resolve, JobInv, CallerInv, RecordInv, ResultInv, ThreadsTypeOK,
       Finished, Succeeded
  <2>3. \A i \in Jobs \ {j} : JobInv(i)'
    BY <1>0, <1>3, <2>1, Untouched DEF RunEnds, Resolve, ThreadsTypeOK
  <2>4. \A i \in DOMAIN queue : future'[queue[i]] = future[queue[i]]
    BY <1>0, <1>3, <2>1, QueueAppend DEF RunEnds, Resolve, QueueInv, ThreadsTypeOK
  <2> QED
    BY <1>0, <1>3, <2>2, <2>3, <2>4, QueueUntouched DEF RunEnds
<1>4. CASE CancelNext(j)
  <2>1. QueueInv' /\ future[j] = "pending"
    BY <1>0, <1>4, QueueLeave DEF CancelNext, Resolve, ThreadsTypeOK
  <2>2. JobInv(j)'
    BY <1>0, <1>4, <2>1 DEF CancelNext, Resolve, JobInv, CallerInv, RecordInv, ResultInv,
       ThreadsTypeOK, Finished, Succeeded
  <2>3. \A i \in Jobs \ {j} : JobInv(i)'
    BY <1>0, <1>4, Untouched DEF CancelNext, Resolve, ThreadsTypeOK
  <2> QED
    BY <2>1, <2>2, <2>3
<1> QED
  BY <1>1, <1>2, <1>3, <1>4 DEF Runs

(* Settling a job and collecting its payload keep the invariants.          *)
LEMMA SettleSafe ==
  ASSUME QueueSafe, ThreadsTypeOK', NEW j \in Jobs, Settles(j) \/ TakeRaw(j)
  PROVE  QueueSafe'
<1> USE DEF logVars, poolVars
<1>0. ThreadsTypeOK /\ QueueInv /\ OrderInv /\ JobInv(j)
  BY DEF QueueSafe, JobInv
<1> SUFFICES \A i \in Jobs : JobInv(i)'
  <2>1. QueueInv'
    BY <1>0, QueueUntouched DEF Settles, StoreResult, RecordDone, RecordFailed, TakeRaw
  <2>2. order' = order /\ \A i \in Jobs : state'[i] = "absent" <=> state[i] = "absent"
    BY <1>0 DEF Settles, StoreResult, RecordDone, RecordFailed, Amend, TakeRaw, ThreadsTypeOK
  <2>3. OrderInv'
    BY <1>0, <2>2, OrderUntouched
  <2> QED
    BY <2>1, <2>3 DEF QueueSafe, JobInv
<1>1. CASE StoreResult(j)
  <2>1. JobInv(j)'
    BY <1>0, <1>1 DEF StoreResult, JobInv, CallerInv, RecordInv, ResultInv, ThreadsTypeOK, Finished, Succeeded
  <2>2. \A i \in Jobs \ {j} : JobInv(i)'
    BY <1>0, <1>1, Untouched DEF StoreResult, ThreadsTypeOK
  <2> QED
    BY <2>1, <2>2
<1>2. CASE RecordDone(j)
  <2>1. JobInv(j)'
    BY <1>0, <1>2 DEF RecordDone, Settled, Amend, JobInv, CallerInv, RecordInv, ResultInv, ThreadsTypeOK,
       Finished, Succeeded, Terminal
  <2>2. \A i \in Jobs \ {j} : JobInv(i)'
    BY <1>0, <1>2, Untouched DEF RecordDone, Settled, Amend, ThreadsTypeOK
  <2> QED
    BY <2>1, <2>2
<1>3. CASE RecordFailed(j)
  <2>1. JobInv(j)'
    BY <1>0, <1>3 DEF RecordFailed, Settled, Amend, JobInv, CallerInv, RecordInv, ResultInv, ThreadsTypeOK,
       Finished, Succeeded, Terminal
  <2>2. \A i \in Jobs \ {j} : JobInv(i)'
    BY <1>0, <1>3, Untouched DEF RecordFailed, Settled, Amend, ThreadsTypeOK
  <2> QED
    BY <2>1, <2>2
<1>4. CASE TakeRaw(j)
  <2>1. JobInv(j)'
    BY <1>0, <1>4 DEF TakeRaw, JobInv, CallerInv, RecordInv, ResultInv, ThreadsTypeOK, Finished, Succeeded
  <2>2. \A i \in Jobs \ {j} : JobInv(i)'
    BY <1>0, <1>4, Untouched DEF TakeRaw, ThreadsTypeOK
  <2> QED
    BY <2>1, <2>2
<1> QED
  BY <1>1, <1>2, <1>3, <1>4 DEF Settles

(* QueueSafe is inductive.                                                 *)
THEOREM QueueInvariant == Spec => []QueueSafe
<1>1. Init => QueueSafe
  <2> SUFFICES ASSUME Init PROVE QueueSafe
    OBVIOUS
  <2>1. ThreadsTypeOK
    <3>1. queue \in Seq(Jobs)
      BY DEF Init
    <3> QED
      BY <3>1 DEF Init, ThreadsTypeOK, Finished, Succeeded, Active, Terminal
  <2>2. QueueInv
    <3>1. queue = <<>> /\ DOMAIN <<>> = {}
      BY DEF Init
    <3> QED
      BY <3>1 DEF QueueInv
  <2>3. \A j \in Jobs : CallerInv(j) /\ RecordInv(j) /\ ResultInv(j)
    BY DEF Init, CallerInv, RecordInv, ResultInv, Finished, Succeeded
  <2>4. OrderInv
    <3>1. order = <<>> /\ order \in Seq(Jobs) /\ DOMAIN order = {}
      BY DEF Init
    <3> QED
      BY <3>1 DEF Init, OrderInv, Listed, Once
  <2> QED
    BY <2>1, <2>2, <2>3, <2>4 DEF QueueSafe
<1>2. QueueSafe /\ [Next]_vars => QueueSafe'
  <2> SUFFICES ASSUME QueueSafe, [Next]_vars PROVE QueueSafe'
    OBVIOUS
  <2>1. ThreadsTypeOK'
    BY TypeStep DEF QueueSafe
  <2>2. CASE UNCHANGED <<pc, state, order, raw, exercised, queue, future, settle, taken>>
    BY <2>1, <2>2, Untouched, QueueUntouched, OrderUntouched DEF QueueSafe, JobInv
  <2>3. CASE Shutdown \/ CloseExecutor \/ Drain \/ UNCHANGED vars
    BY <2>2, <2>3 DEF Shutdown, CloseExecutor, Drain, vars, logVars, poolVars
  <2> QED
    BY <2>1, <2>3, CallerSafe, PoolSafe, SettleSafe DEF Next, Closer, AllOver
<1> QED
  BY <1>1, <1>2, PTL DEF Spec

(* The variables keep their types, and the order lists the records and     *)
(* nothing else, each once.                                                *)
THEOREM TypeCorrect == Spec => []TypeOK
<1>1. QueueSafe => TypeOK
  BY DEF QueueSafe, OrderInv, Listed, Once, TypeOK
<1> QED
  BY <1>1, QueueInvariant, PTL

(* After a submission the log exceeds its limit only when every record in  *)
(* it is active.                                                           *)
THEOREM TrimTheorem == Spec => EvictionTrims
<1> DEFINE Trims == \A j \in Jobs : pc[j] = "new" /\ pc'[j] = "registered" =>
                      \/ Len(order') <= Limit
                      \/ \A i \in DOMAIN order' : state'[order'[i]] \in Active
<1>1. QueueSafe /\ [Next]_vars => [Trims]_vars
  <2> SUFFICES ASSUME QueueSafe, Next, NEW j \in Jobs, pc[j] = "new", pc'[j] = "registered"
               PROVE  \/ Len(order') <= Limit
                      \/ \A i \in DOMAIN order' : state'[order'[i]] \in Active
    OBVIOUS
  <2>1. Register(j)
    <3>1. pc \in [Jobs -> {"new", "registered", "queued", "settling", "returned", "refused"}]
      BY DEF QueueSafe, ThreadsTypeOK
    <3>2. ASSUME NEW k \in Jobs, Caller(k) PROVE Register(j)
      BY <3>1, <3>2, ZenonT(60) DEF Caller, Refuse, Register, Enqueue, Withdraw, Attach
    <3>3. ASSUME NEW k \in Jobs, Runs(k) \/ Settles(k) \/ TakeRaw(k) PROVE FALSE
      BY <3>1, <3>3 DEF Runs, Take, MarkRunning, RunEnds, Settles, StoreResult, RecordDone,
         RecordFailed, Settled, TakeRaw
    <3>4. ~(Shutdown \/ Closer \/ AllOver)
      BY <3>1 DEF Shutdown, Closer, CloseExecutor, Drain, CancelNext, AllOver, vars
    <3> QED
      BY <3>2, <3>3, <3>4 DEF Next
  <2> DEFINE registered == [state EXCEPT ![j] = "pending"]
             log == Append(order, j)
             dropped == Dropped(log, registered)
  <2>2. order' = Without(log, dropped)
        /\ state' = [i \in Jobs |-> IF i \in dropped THEN "absent" ELSE registered[i]]
    BY <2>1 DEF Register
  <2>3. order \in Seq(Jobs) /\ Once(order) /\ state[j] = "absent" /\ j \notin Listed(order)
    BY DEF QueueSafe, OrderInv, CallerInv
  <2>4. log \in Seq(Jobs) /\ Once(log)
    BY <2>3, Appended
  <2> HIDE DEF log, registered
  <2>5. \/ Len(order') <= Limit
        \/ \A k \in Listed(order') : registered[k] \in Active
    BY <2>2, <2>4, DroppedTrims
  <2>6. order' \in Seq(Jobs) /\ Listed(order') = Listed(log) \ dropped
    BY <2>2, <2>4, WithoutKeeps
  <2>7. ASSUME NEW i \in DOMAIN order', \A k \in Listed(order') : registered[k] \in Active
        PROVE  state'[order'[i]] \in Active
    <3>1. order'[i] \in Jobs /\ order'[i] \in Listed(order') /\ order'[i] \notin dropped
      BY <2>6 DEF Listed
    <3> HIDE DEF dropped
    <3> QED
      BY <2>2, <2>7, <3>1
  <2> QED
    BY <2>5, <2>7
<1> QED
  BY <1>1, QueueInvariant, PTL DEF Spec, EvictionTrims

(* A payload always belongs to a record that a client can poll.            *)
THEOREM PayloadTheorem == Spec => []PayloadHasRecord
<1>1. QueueSafe => PayloadHasRecord
  BY DEF QueueSafe, ThreadsTypeOK, ResultInv, PayloadHasRecord
<1> QED
  BY <1>1, QueueInvariant, PTL

(* A job reported done is counted, and its payload there or handed over.   *)
THEOREM DoneTheorem == Spec => []DoneIsComplete
<1>1. QueueSafe => DoneIsComplete
  BY DEF QueueSafe, RecordInv, ResultInv, DoneIsComplete
<1> QED
  BY <1>1, QueueInvariant, PTL

(* A payload is handed over once.                                          *)
THEOREM OnceTheorem == Spec => []HandedOverOnce
<1>1. QueueSafe => HandedOverOnce
  BY DEF QueueSafe, ThreadsTypeOK, ResultInv, HandedOverOnce
<1> QED
  BY <1>1, QueueInvariant, PTL

-------------------------------------------------------------------------------
(* The refinement: each step of the queue is a step of the log or none.    *)

(* A step that leaves records and callers' beginnings alone changes no     *)
(* status; one that leaves payloads and results alone changes no payload.  *)
LEMMA SameStatus ==
  ASSUME \A i \in Jobs : state'[i] = state[i] /\ (pc'[i] = "new" <=> pc[i] = "new")
  PROVE  Status' = Status
BY DEF Status

LEMMA SamePayload ==
  ASSUME \A i \in Jobs :
           /\ i \in raw' <=> i \in raw
           /\ i \in taken' <=> i \in taken
           /\ (settle'[i] \in {"stored", "over"} /\ future'[i] = "binary")
                <=> (settle[i] \in {"stored", "over"} /\ future[i] = "binary")
  PROVE  Payload' = Payload
BY DEF Payload

(* A submission is accepted, refused, or not visible.                      *)
LEMMA CallerRefines ==
  ASSUME QueueSafe, ThreadsTypeOK', NEW j \in Jobs, Caller(j)
  PROVE  [Log!Next]_(Log!vars)
<1> USE DEF logVars, poolVars
<1>0. ThreadsTypeOK /\ JobInv(j)
  BY DEF QueueSafe, JobInv
<1>1. CASE Refuse(j)
  <2>1. Status[j] = "new" /\ Status' = [Status EXCEPT ![j] = "gone"]
    <3>1. pc[j] = "new" /\ state[j] = "absent"
      BY <1>0, <1>1 DEF Refuse, JobInv, CallerInv
    <3>2. state' = state /\ pc' = [pc EXCEPT ![j] = "refused"]
      BY <1>1 DEF Refuse
    <3>3. \A i \in Jobs \ {j} : pc'[i] = pc[i]
      BY <1>0, <3>2 DEF ThreadsTypeOK
    <3>4. pc'[j] # "new"
      BY <1>0, <3>2 DEF ThreadsTypeOK
    <3> QED
      BY <3>1, <3>2, <3>3, <3>4 DEF Status
  <2>2. Payload' = Payload /\ UNCHANGED exercised
    BY <1>1, SamePayload DEF Refuse
  <2> QED
    BY <2>1, <2>2 DEF Log!Next, Log!Refuse
<1>2. CASE Register(j)
  <2> DEFINE registered == [state EXCEPT ![j] = "pending"]
             dropped == Dropped(Append(order, j), registered)
             S == {i \in Jobs : i \in dropped /\ state[i] # "absent"}
  <2>1. \A i \in Jobs : i \in dropped => i # j /\ state[i] \notin Active
    <3> SUFFICES ASSUME NEW i \in Jobs, i \in dropped PROVE i # j /\ state[i] \notin Active
      OBVIOUS
    <3>1. Append(order, j) \in Seq(Jobs)
      BY Appended DEF QueueSafe, OrderInv
    <3>2. registered[i] \notin Active
      BY <3>1, DroppedInactive
    <3> QED
      BY <3>2, <1>0 DEF ThreadsTypeOK, Active
  <2>2. /\ pc[j] = "new" /\ pc' = [pc EXCEPT ![j] = "registered"]
        /\ state' = [i \in Jobs |-> IF i \in dropped THEN "absent" ELSE registered[i]]
        /\ raw' = raw \ dropped
        /\ UNCHANGED <<exercised, closed, poolVars, settle, taken>>
    BY <1>2 DEF Register
  <2> HIDE DEF dropped
  <2>3. /\ \A i \in Jobs : state[i] # "absent" => pc[i] # "new"
        /\ \A i \in Jobs : i \in raw => /\ i \notin taken /\ state[i] # "absent"
                                       /\ future[i] = "binary" /\ settle[i] \in {"stored", "over"}
    BY DEF QueueSafe, CallerInv, ResultInv
  <2>4. Status[j] = "new"
    BY <1>0, <2>2 DEF Status, JobInv, CallerInv
  <2>5. S \in SUBSET {i \in Jobs : Status[i] \in Log!Over}
    BY <1>0, <2>1 DEF Status, Log!Over, ThreadsTypeOK, Active, Terminal
  <2>6. Status' = [i \in Jobs |-> IF i = j THEN "pending" ELSE IF i \in S THEN "gone" ELSE Status[i]]
    BY <1>0, <2>1, <2>2, <2>3 DEF Status, ThreadsTypeOK
  <2>7. Payload' = [i \in Jobs |-> IF i \in S /\ Payload[i] = "held" THEN "lost" ELSE Payload[i]]
    BY <1>0, <2>2, <2>3 DEF Payload
  <2>8. Log!Accept(j)
    BY <2>2, <2>4, <2>5, <2>6, <2>7 DEF Log!Accept
  <2> QED
    BY <2>8 DEF Log!Next
<1>3. CASE Enqueue(j)
  <2>1. Status' = Status
    BY <1>0, <1>3, SameStatus DEF Enqueue, ThreadsTypeOK
  <2>2. Payload' = Payload
    BY <1>0, <1>3, SamePayload DEF Enqueue, ThreadsTypeOK, JobInv, CallerInv
  <2> QED
    BY <1>3, <2>1, <2>2 DEF Enqueue, Log!vars
<1>4. CASE Withdraw(j)
  <2>1. Status[j] = "pending" /\ Status' = [Status EXCEPT ![j] = "gone"]
    BY <1>0, <1>4 DEF Withdraw, Status, JobInv, CallerInv, ThreadsTypeOK
  <2>2. Payload' = Payload /\ UNCHANGED exercised
    BY <1>4, SamePayload DEF Withdraw
  <2> QED
    BY <2>1, <2>2 DEF Log!Next, Log!Refuse
<1>5. CASE Attach(j)
  <2>1. Status' = Status
    BY <1>0, <1>5, SameStatus DEF Attach, ThreadsTypeOK
  <2>2. Payload' = Payload
    BY <1>0, <1>5, SamePayload DEF Attach, ThreadsTypeOK, JobInv, CallerInv
  <2> QED
    BY <1>5, <2>1, <2>2 DEF Attach, Log!vars
<1> QED
  BY <1>1, <1>2, <1>3, <1>4, <1>5 DEF Caller

(* The pool starts jobs; what else it does is not visible.                 *)
LEMMA PoolRefines ==
  ASSUME QueueSafe, ThreadsTypeOK', NEW j \in Jobs, Runs(j) \/ CancelNext(j)
  PROVE  [Log!Next]_(Log!vars)
<1> USE DEF logVars, poolVars
<1>0. ThreadsTypeOK /\ QueueInv /\ JobInv(j)
  BY DEF QueueSafe, JobInv
<1>1. CASE Take(j)
  <2>1. Status' = Status
    BY <1>0, <1>1, SameStatus DEF Take, ThreadsTypeOK
  <2>2. future[j] = "pending"
    BY <1>0, <1>1, QueueTail DEF Take, QueueInv, ThreadsTypeOK
  <2>3. Payload' = Payload
    BY <1>0, <1>1, <2>2, SamePayload DEF Take, ThreadsTypeOK
  <2> QED
    BY <1>1, <2>1, <2>3 DEF Take, Log!vars
<1>2. CASE MarkRunning(j)
  <2>1. Status[j] = "pending" /\ Status' = [Status EXCEPT ![j] = "running"]
    BY <1>0, <1>2 DEF MarkRunning, Amend, Status, JobInv, RecordInv, ThreadsTypeOK
  <2>2. Payload' = Payload
    BY <1>0, <1>2, SamePayload DEF MarkRunning, ThreadsTypeOK
  <2> QED
    BY <1>2, <2>1, <2>2 DEF MarkRunning, Log!Next, Log!Start
<1>3. CASE RunEnds(j)
  <2>1. PICK outcome \in Succeeded \cup {"error"} : Resolve(j, outcome)
    BY <1>3 DEF RunEnds
  <2>2. Status' = Status
    BY <1>3, SameStatus DEF RunEnds
  <2>3. Payload' = Payload
    BY <1>0, <1>3, <2>1, SamePayload DEF RunEnds, Resolve, ThreadsTypeOK, JobInv, CallerInv, Finished,
       Succeeded
  <2> QED
    BY <1>3, <2>2, <2>3 DEF RunEnds, Log!vars
<1>4. CASE CancelNext(j)
  <2>1. future[j] = "pending"
    BY <1>0, <1>4, QueueTail DEF CancelNext, QueueInv, ThreadsTypeOK
  <2>2. Status' = Status
    BY <1>4, SameStatus DEF CancelNext
  <2>3. Payload' = Payload
    BY <1>0, <1>4, <2>1, SamePayload DEF CancelNext, Resolve, ThreadsTypeOK
  <2> QED
    BY <1>4, <2>2, <2>3 DEF CancelNext, Log!vars
<1> QED
  BY <1>1, <1>2, <1>3, <1>4 DEF Runs

(* A job's result is produced, then the job finishes; or it fails; a       *)
(* payload is collected.                                                   *)
LEMMA SettleRefines ==
  ASSUME QueueSafe, ThreadsTypeOK', NEW j \in Jobs, Settles(j) \/ TakeRaw(j)
  PROVE  [Log!Next]_(Log!vars)
<1> USE DEF logVars, poolVars
<1>0. ThreadsTypeOK /\ JobInv(j)
  BY DEF QueueSafe, JobInv
<1>1. CASE StoreResult(j)
  <2>1. Status[j] = "running"
    BY <1>0, <1>1 DEF StoreResult, Status, JobInv, RecordInv
  <2>2. Status' = Status
    BY <1>1, SameStatus DEF StoreResult
  <2>3. j \notin raw /\ j \notin taken
    BY <1>0, <1>1 DEF StoreResult, JobInv, ResultInv
  <2>4. CASE future[j] = "binary"
    <3>1. Payload[j] = "none" /\ Payload' = [Payload EXCEPT ![j] = "held"]
      BY <1>0, <1>1, <2>3, <2>4 DEF StoreResult, Payload, ThreadsTypeOK
    <3>2. Log!Produce(j)
      BY <1>1, <2>1, <2>2, <3>1 DEF StoreResult, Log!Produce
    <3> QED
      BY <3>2 DEF Log!Next
  <2>5. CASE future[j] # "binary"
    <3>1. Payload' = Payload
      BY <1>0, <1>1, <2>5, SamePayload DEF StoreResult, ThreadsTypeOK
    <3>2. Log!Produce(j)
      BY <1>1, <2>1, <2>2, <3>1 DEF StoreResult, Log!Produce
    <3> QED
      BY <3>2 DEF Log!Next
  <2> QED
    BY <2>4, <2>5
<1>2. CASE RecordDone(j)
  <2>1. Status[j] = "running" /\ Operation[j] \in exercised /\ Status' = [Status EXCEPT ![j] = "done"]
    BY <1>0, <1>2, ZenonT(60) DEF RecordDone, Amend, Settled, Status, JobInv, CallerInv, RecordInv, ResultInv,
       ThreadsTypeOK
  <2>2. Payload' = Payload
    BY <1>0, <1>2, SamePayload DEF RecordDone, Settled, ThreadsTypeOK
  <2> QED
    BY <1>2, <2>1, <2>2 DEF RecordDone, Log!Next, Log!Finish
<1>3. CASE RecordFailed(j)
  <2>1. future[j] \in {"error", "cancelled"}
    BY <1>0, <1>3 DEF RecordFailed, JobInv, CallerInv, Finished
  <2>2. Status[j] \in {"pending", "running"} /\ Status' = [Status EXCEPT ![j] = "failed"]
    BY <1>0, <1>3, <2>1, ZenonT(60) DEF RecordFailed, Amend, Settled, Status, JobInv, CallerInv, RecordInv,
       ThreadsTypeOK
  <2>3. Payload' = Payload
    BY <1>0, <1>3, <2>1, SamePayload DEF RecordFailed, Settled, ThreadsTypeOK
  <2> QED
    BY <1>3, <2>2, <2>3 DEF RecordFailed, Log!Next, Log!Fail
<1>4. CASE TakeRaw(j)
  <2>1. Payload[j] = "held" /\ Payload' = [Payload EXCEPT ![j] = "taken"]
    BY <1>0, <1>4 DEF TakeRaw, Payload, ThreadsTypeOK
  <2>2. Status' = Status
    BY <1>4, SameStatus DEF TakeRaw
  <2> QED
    BY <1>4, <2>1, <2>2 DEF TakeRaw, Log!Next, Log!Collect
<1> QED
  BY <1>1, <1>2, <1>3, <1>4 DEF Settles

(* The queue implements the job log.                                       *)
THEOREM Refinement == Spec => ImplementsLog
<1>1. Init => Log!Init
  BY DEF Init, Log!Init, Status, Payload
<1>2. QueueSafe /\ QueueSafe' /\ [Next]_vars => [Log!Next]_(Log!vars)
  <2> SUFFICES ASSUME QueueSafe, QueueSafe', [Next]_vars PROVE [Log!Next]_(Log!vars)
    OBVIOUS
  <2>1. ThreadsTypeOK'
    BY DEF QueueSafe
  <2>2. CASE Shutdown \/ CloseExecutor \/ Drain \/ UNCHANGED vars
    <3>1. UNCHANGED <<pc, state, raw, exercised, future, settle, taken>>
      BY <2>2 DEF Shutdown, CloseExecutor, Drain, vars, logVars, poolVars
    <3> QED
      BY <3>1, SameStatus, SamePayload DEF Log!vars
  <2> QED
    BY <2>1, <2>2, CallerRefines, PoolRefines, SettleRefines DEF Next, Closer, AllOver
<1> QED
  BY <1>1, <1>2, QueueInvariant, PTL DEF Spec, ImplementsLog, Log!Spec

===============================================================================
