-------------------------- MODULE EditHistoryProofs --------------------------
(***************************************************************************)
(* Proofs about EditHistory and its piece table, for any bytes and any     *)
(* bounds.  The content of a table is the bytes at its places: an edit     *)
(* splices, cuts or patches the sequence of places, merging pieces leaves  *)
(* it alone, and a compaction renames the places of the add buffer.        *)
(***************************************************************************)
EXTENDS EditHistory, SequenceTheorems, FiniteSetTheorems, WellFoundedInduction, TLAPS

(* The natural numbers are well-founded, so a nonempty set of them has a   *)
(* least element.                                                          *)
Less == {ss \in Nat \X Nat : ss[1] < ss[2]}

LEMMA LessIsWellFounded == IsWellFoundedOn(Less, Nat)
BY NatLessThanWellFounded DEF Less, OpToRel

LEMMA Least ==
  ASSUME NEW T, T \subseteq Nat, T # {}
  PROVE  \E m \in T : \A k \in T : m <= k
<1>1. PICK m \in T : \A k \in T : ~ (<<k, m>> \in Less)
  BY LessIsWellFounded, WFMin
<1>2. ASSUME NEW k \in T PROVE m <= k
  <2>1. <<k, m>> \in Nat \X Nat /\ <<k, m>> \notin Less
    BY <1>1
  <2>2. ~(k < m)
    BY <2>1 DEF Less
  <2> QED
    BY <2>2
<1> QED
  BY <1>2

(* Induction up to n: a set that holds 0, and the successor of each of its *)
(* members below n, holds every number up to n.                            *)
LEMMA Climb ==
  ASSUME NEW n \in Nat, NEW T, 0 \in T, \A k \in 0..n - 1 : k \in T => k + 1 \in T
  PROVE  \A k \in 0..n : k \in T
<1> SUFFICES ASSUME (0..n) \ T # {} PROVE FALSE
  OBVIOUS
<1>1. (0..n) \ T \subseteq Nat
  OBVIOUS
<1>2. PICK m \in (0..n) \ T : \A k \in (0..n) \ T : m <= k
  BY <1>1, Least
<1>3. m # 0 /\ m - 1 \in 0..n - 1 /\ m = (m - 1) + 1
  BY <1>2
<1>4. m - 1 \in (0..n) \ T
  BY <1>2, <1>3
<1> QED
  BY <1>2, <1>4

(* Recursion up to n: some function over 0..n starts at b and follows the  *)
(* steps.                                                                  *)
Steps(n, V) == [1..n -> [V -> V]]
Follows(f, n, b, step) == f[0] = b /\ \A i \in 1..n : f[i] = step[i][f[i - 1]]

LEMMA Recursion ==
  ASSUME NEW n \in Nat, NEW V, NEW b \in V, NEW step \in Steps(n, V)
  PROVE  \E f \in [0..n -> V] : Follows(f, n, b, step)
<1> USE DEF Follows
<1> DEFINE Up(m) == \E f \in [0..m -> V] : f[0] = b /\ \A i \in 1..m : f[i] = step[i][f[i - 1]]
           T == {m \in 0..n : Up(m)}
<1>1. 0 \in T
  <2> DEFINE f == [i \in 0..0 |-> b]
  <2>1. f \in [0..0 -> V] /\ f[0] = b /\ \A i \in 1..0 : f[i] = step[i][f[i - 1]]
    OBVIOUS
  <2> HIDE DEF f
  <2>2. Up(0)
    BY <2>1
  <2> QED
    BY <2>2
<1>2. ASSUME NEW m \in 0..n - 1, m \in T PROVE m + 1 \in T
  <2>1. PICK f \in [0..m -> V] : f[0] = b /\ \A i \in 1..m : f[i] = step[i][f[i - 1]]
    BY <1>2
  <2> DEFINE g == [i \in 0..m + 1 |-> IF i = m + 1 THEN step[m + 1][f[m]] ELSE f[i]]
  <2>2. f[m] \in V /\ m + 1 \in 1..n
    OBVIOUS
  <2>3. step[m + 1][f[m]] \in V
    BY <2>2 DEF Steps
  <2>4. g \in [0..m + 1 -> V]
    BY <2>3
  <2>5. g[0] = b
    BY <2>1
  <2>6. ASSUME NEW i \in 1..m + 1 PROVE g[i] = step[i][g[i - 1]]
    <3>1. CASE i = m + 1
      BY <3>1
    <3>2. CASE i # m + 1
      <4>1. i \in 1..m /\ i - 1 \in 0..m /\ i - 1 # m + 1
        BY <3>2
      <4> QED
        BY <2>1, <4>1
    <3> QED
      BY <3>1, <3>2
  <2> HIDE DEF g
  <2>7. Up(m + 1)
    BY <2>4, <2>5, <2>6
  <2>8. m + 1 \in 0..n
    OBVIOUS
  <2> HIDE DEF Up
  <2> QED
    BY <2>7, <2>8
<1> HIDE DEF T
<1>3. \A k \in 0..n : k \in T
  BY <1>1, <1>2, Climb
<1>4. n \in T
  BY <1>3
<1> QED
  BY <1>4 DEF T


-------------------------------------------------------------------------------
(* Cutting and splicing a sequence, element by element.                    *)
Splice(s, offset, x) == SubSeq(s, 1, offset) \o x \o SubSeq(s, offset + 1, Len(s))
Cut(s, from, to) == SubSeq(s, 1, from) \o SubSeq(s, to + 1, Len(s))

LEMMA SubIs ==
  ASSUME NEW S, NEW s \in Seq(S), NEW m \in 1..Len(s) + 1, NEW n \in m - 1..Len(s)
  PROVE  /\ SubSeq(s, m, n) \in Seq(S)
         /\ Len(SubSeq(s, m, n)) = n - m + 1
         /\ \A i \in 1..n - m + 1 : SubSeq(s, m, n)[i] = s[m + i - 1]
<1>1. m \in Int /\ n \in Int /\ \A i \in m..n : s[i] \in S
  OBVIOUS
<1> QED
  BY <1>1, SubSeqProperties

\* The facts of a result, named: z is a \o b.
IsJoin(z, S, a, b) ==
  /\ z \in Seq(S) /\ Len(z) = Len(a) + Len(b)
  /\ \A k \in 1..Len(a) + Len(b) : z[k] = IF k <= Len(a) THEN a[k] ELSE b[k - Len(a)]

LEMMA Joined ==
  ASSUME NEW S, NEW a \in Seq(S), NEW b \in Seq(S)
  PROVE  IsJoin(a \o b, S, a, b)
BY ConcatProperties DEF IsJoin

LEMMA SpliceIs ==
  ASSUME NEW S, NEW s \in Seq(S), NEW x \in Seq(S), NEW offset \in 0..Len(s)
  PROVE  /\ Splice(s, offset, x) \in Seq(S)
         /\ Len(Splice(s, offset, x)) = Len(s) + Len(x)
         /\ \A k \in 1..Len(s) + Len(x) :
              Splice(s, offset, x)[k] = IF k <= offset THEN s[k]
                                        ELSE IF k <= offset + Len(x) THEN x[k - offset]
                                        ELSE s[k - Len(x)]
<1> DEFINE a == SubSeq(s, 1, offset)
           b == SubSeq(s, offset + 1, Len(s))
           ax == a \o x
<1>1. /\ a \in Seq(S) /\ Len(a) = offset
      /\ \A i \in 1..offset : a[i] = s[i]
  BY SubIs
<1>2. /\ b \in Seq(S) /\ Len(b) = Len(s) - offset
      /\ \A i \in 1..Len(s) - offset : b[i] = s[offset + i]
  <2>1. offset + 1 \in 1..Len(s) + 1 /\ Len(s) \in (offset + 1) - 1..Len(s)
    OBVIOUS
  <2>2. b \in Seq(S) /\ Len(b) = Len(s) - (offset + 1) + 1
        /\ \A i \in 1..Len(s) - (offset + 1) + 1 : b[i] = s[offset + 1 + i - 1]
    BY <2>1, SubIs
  <2> QED
    BY <2>2
<1> HIDE DEF a, b
<1>3. /\ ax \in Seq(S) /\ Len(ax) = Len(a) + Len(x)
      /\ \A i \in 1..Len(a) + Len(x) : ax[i] = IF i <= Len(a) THEN a[i] ELSE x[i - Len(a)]
  <2>1. IsJoin(ax, S, a, x)
    BY <1>1, Joined
  <2> QED
    BY <2>1 DEF IsJoin
<1> HIDE DEF ax
<1>4. /\ ax \o b \in Seq(S) /\ Len(ax \o b) = Len(ax) + Len(b)
      /\ \A i \in 1..Len(ax) + Len(b) :
           (ax \o b)[i] = IF i <= Len(ax) THEN ax[i] ELSE b[i - Len(ax)]
  <2>1. ax \in Seq(S) /\ b \in Seq(S)
    BY <1>2, <1>3
  <2> QED
    BY <2>1, ConcatProperties
<1>5. Splice(s, offset, x) = ax \o b
  BY DEF Splice, a, b, ax
<1> DEFINE r == ax \o b
<1> HIDE DEF r
<1>6. Len(s) \in Nat /\ Len(x) \in Nat /\ offset \in Nat /\ Len(r) = Len(s) + Len(x)
  BY <1>1, <1>2, <1>3, <1>4 DEF r
<1>7. ASSUME NEW k \in 1..Len(s) + Len(x)
      PROVE  r[k] = IF k <= offset THEN s[k]
                    ELSE IF k <= offset + Len(x) THEN x[k - offset] ELSE s[k - Len(x)]
  <2>1. r[k] = IF k <= offset + Len(x) THEN ax[k] ELSE b[k - (offset + Len(x))]
    BY <1>1, <1>2, <1>3, <1>4, <1>6 DEF r
  <2>2. CASE k <= offset + Len(x)
    <3>1. ax[k] = IF k <= offset THEN a[k] ELSE x[k - offset]
      BY <1>1, <1>3, <1>6, <2>2
    <3> QED
      BY <1>1, <1>6, <2>1, <2>2, <3>1
  <2>3. CASE ~(k <= offset + Len(x))
    <3>1. /\ k - (offset + Len(x)) \in 1..Len(s) - offset
          /\ offset + (k - (offset + Len(x))) = k - Len(x)
          /\ ~(k <= offset)
      BY <1>6, <2>3
    <3>2. b[k - (offset + Len(x))] = s[offset + (k - (offset + Len(x)))]
      BY <1>2, <3>1
    <3> QED
      BY <2>1, <2>3, <3>1, <3>2
  <2> QED
    BY <2>2, <2>3
<1> QED
  BY <1>4, <1>5, <1>6, <1>7 DEF r

LEMMA CutIs ==
  ASSUME NEW S, NEW s \in Seq(S), NEW from \in 0..Len(s), NEW to \in from..Len(s)
  PROVE  /\ Cut(s, from, to) \in Seq(S)
         /\ Len(Cut(s, from, to)) = Len(s) - (to - from)
         /\ \A k \in 1..Len(s) - (to - from) :
              Cut(s, from, to)[k] = IF k <= from THEN s[k] ELSE s[k + (to - from)]
<1> DEFINE a == SubSeq(s, 1, from)
           b == SubSeq(s, to + 1, Len(s))
<1>1. /\ a \in Seq(S) /\ Len(a) = from
      /\ \A i \in 1..from : a[i] = s[i]
  BY SubIs
<1>2. /\ b \in Seq(S) /\ Len(b) = Len(s) - to
      /\ \A i \in 1..Len(s) - to : b[i] = s[to + i]
  <2>1. to + 1 \in 1..Len(s) + 1 /\ Len(s) \in (to + 1) - 1..Len(s)
    OBVIOUS
  <2>2. b \in Seq(S) /\ Len(b) = Len(s) - (to + 1) + 1
        /\ \A i \in 1..Len(s) - (to + 1) + 1 : b[i] = s[to + 1 + i - 1]
    BY <2>1, SubIs
  <2> QED
    BY <2>2
<1> HIDE DEF a, b
<1>4. /\ a \o b \in Seq(S) /\ Len(a \o b) = Len(a) + Len(b)
      /\ \A i \in 1..Len(a) + Len(b) : (a \o b)[i] = IF i <= Len(a) THEN a[i] ELSE b[i - Len(a)]
  BY <1>1, <1>2, ConcatProperties
<1>5. Cut(s, from, to) = a \o b
  BY DEF Cut, a, b
<1> DEFINE r == a \o b
<1> HIDE DEF r
<1>6. Len(s) \in Nat /\ from \in Nat /\ to \in Nat /\ Len(r) = Len(s) - (to - from)
  BY <1>1, <1>2, <1>4 DEF r
<1>7. ASSUME NEW k \in 1..Len(s) - (to - from)
      PROVE  r[k] = IF k <= from THEN s[k] ELSE s[k + (to - from)]
  <2>1. r[k] = IF k <= from THEN a[k] ELSE b[k - from]
    BY <1>1, <1>2, <1>4, <1>6 DEF r
  <2>2. CASE k <= from
    BY <1>1, <1>6, <2>1, <2>2
  <2>3. CASE ~(k <= from)
    <3>1. k - from \in 1..Len(s) - to /\ to + (k - from) = k + (to - from)
      BY <1>6, <2>3
    <3>2. b[k - from] = s[to + (k - from)]
      BY <1>2, <3>1
    <3> QED
      BY <2>1, <2>3, <3>1, <3>2
  <2> QED
    BY <2>2, <2>3
<1> QED
  BY <1>4, <1>5, <1>6, <1>7 DEF r

IsSplice(z, S, s, offset, x) ==
  /\ z \in Seq(S) /\ Len(z) = Len(s) + Len(x)
  /\ \A k \in 1..Len(s) + Len(x) :
       z[k] = IF k <= offset THEN s[k]
              ELSE IF k <= offset + Len(x) THEN x[k - offset] ELSE s[k - Len(x)]

IsCut(z, S, s, from, to) ==
  /\ z \in Seq(S) /\ Len(z) = Len(s) - (to - from)
  /\ \A k \in 1..Len(s) - (to - from) : z[k] = IF k <= from THEN s[k] ELSE s[k + (to - from)]

LEMMA Spliced ==
  ASSUME NEW S, NEW s \in Seq(S), NEW x \in Seq(S), NEW offset \in 0..Len(s)
  PROVE  IsSplice(Splice(s, offset, x), S, s, offset, x)
BY SpliceIs DEF IsSplice

LEMMA CutOut ==
  ASSUME NEW S, NEW s \in Seq(S), NEW from \in 0..Len(s), NEW to \in from..Len(s)
  PROVE  IsCut(Cut(s, from, to), S, s, from, to)
BY CutIs DEF IsCut

-------------------------------------------------------------------------------
(* Places: what the pieces of a list stand for, joined.                    *)
Sources == {"original", "added"}
PieceSet == [source : Sources, start : Nat, length : Nat \ {0}]
PlaceSet == [source : Sources, at : Nat \ {0}]

LEMMA PieceIs ==
  /\ \A s \in Sources : \A k \in Nat : \A n \in Nat \ {0} : Piece(s, k, n) \in PieceSet
  /\ \A p \in PieceSet : /\ p.source \in Sources /\ p.start \in Nat /\ p.length \in Nat \ {0}
                         /\ p = Piece(p.source, p.start, p.length)
  /\ \A s, k, n : /\ Piece(s, k, n).source = s
                  /\ Piece(s, k, n).start = k
                  /\ Piece(s, k, n).length = n
BY DEF PieceSet, Piece

LEMMA RunIs ==
  ASSUME NEW p \in PieceSet
  PROVE  /\ Run(p) \in Seq(PlaceSet)
         /\ Len(Run(p)) = p.length
         /\ \A k \in 1..p.length : Run(p)[k].source = p.source /\ Run(p)[k].at = p.start + k
<1>1. p.length \in Nat \ {0} /\ p.start \in Nat /\ p.source \in Sources
  BY DEF PieceSet
<1>2. \A k \in 1..p.length : [source |-> p.source, at |-> p.start + k] \in PlaceSet
  BY <1>1 DEF PlaceSet
<1> QED
  BY <1>1, <1>2, IsASeq DEF Run

LEMMA PlacesSteps ==
  ASSUME NEW ps \in Seq(PieceSet)
  PROVE  \E u \in [0..Len(ps) -> Seq(PlaceSet)] :
           /\ u[0] = <<>>
           /\ \A i \in 1..Len(ps) : u[i] = u[i - 1] \o Run(ps[i])
           /\ Places(ps) = u[Len(ps)]
<1> DEFINE n == Len(ps)
           V == Seq(PlaceSet)
           b == <<>>
           With(i, v) == v \o Run(ps[i])
           Is(f) == f = [i \in 0..n |-> IF i = 0 THEN b ELSE With(i, f[i - 1])]
           step == [i \in 1..n |-> [v \in V |-> With(i, v)]]
           k == CHOOSE f : Is(f)
<1>1. n \in Nat
  OBVIOUS
<1>2. Places(ps) = k[n]
  BY DEF Places
<1>3. b \in V
  OBVIOUS
<1>4. step \in Steps(n, V)
  <2>1. \A i \in 1..n : Run(ps[i]) \in V
    BY RunIs
  <2>2. \A i \in 1..n : \A v \in V : With(i, v) \in V
    BY <2>1, ConcatProperties
  <2> HIDE DEF V, n, With
  <2> QED
    BY <2>2 DEF Steps
<1> HIDE DEF n, V, k, b, With
<1>5. PICK f \in [0..n -> V] : f[0] = b /\ \A i \in 1..n : f[i] = step[i][f[i - 1]]
  <2> HIDE DEF step
  <2>1. \E f \in [0..n -> V] : Follows(f, n, b, step)
    BY <1>1, <1>3, <1>4, Recursion
  <2> QED
    BY <2>1 DEF Follows
<1>6. ASSUME NEW i \in 1..n PROVE f[i] = With(i, f[i - 1])
  <2>1. f[i - 1] \in V
    BY <1>1
  <2>2. f[i] = step[i][f[i - 1]]
    BY <1>5
  <2> QED
    BY <2>1, <2>2
<1>7. Is(f)
  BY <1>1, <1>5, <1>6
<1>8. Is(k)
  <2> HIDE DEF Is
  <2> QED
    BY <1>7 DEF k
<1>9. k[0] = b /\ \A i \in 1..n : k[i] = With(i, k[i - 1])
  BY <1>1, <1>8
<1>10. \A i \in 0..n : k[i] = f[i]
  <2> DEFINE T == {i \in 0..n : k[i] = f[i]}
  <2>1. 0 \in T
    BY <1>1, <1>5, <1>9
  <2>2. \A i \in 0..n - 1 : i \in T => i + 1 \in T
    BY <1>1, <1>6, <1>9
  <2> HIDE DEF T
  <2>3. \A i \in 0..n : i \in T
    BY <1>1, <2>1, <2>2, Climb
  <2> QED
    BY <2>3 DEF T
<1>11. k \in [0..n -> V]
  BY <1>8, <1>10
<1> QED
  BY <1>2, <1>9, <1>11 DEF n, V, b, With

LEMMA PlacesType ==
  ASSUME NEW ps \in Seq(PieceSet)
  PROVE  Places(ps) \in Seq(PlaceSet) /\ Total(ps) = Len(Places(ps)) /\ Total(ps) \in Nat
<1>1. Places(ps) \in Seq(PlaceSet)
  <2>1. Len(ps) \in 0..Len(ps)
    OBVIOUS
  <2>2. PICK u \in [0..Len(ps) -> Seq(PlaceSet)] : Places(ps) = u[Len(ps)]
    BY PlacesSteps
  <2> QED
    BY <2>1, <2>2
<1>2. Len(Places(ps)) \in Nat
  BY <1>1, LenProperties
<1> QED
  BY <1>1, <1>2 DEF Total

LEMMA PlacesEmpty == Places(<<>>) = <<>>
<1>1. <<>> \in Seq(PieceSet) /\ Len(<<>>) = 0
  OBVIOUS
<1> QED
  BY <1>1, PlacesSteps

(* One piece more.                                                         *)
LEMMA PlacesAppend ==
  ASSUME NEW ps \in Seq(PieceSet), NEW p \in PieceSet
  PROVE  Places(Append(ps, p)) = Places(ps) \o Run(p)
<1> DEFINE qs == Append(ps, p)
           n == Len(ps)
<1>1. /\ qs \in Seq(PieceSet) /\ Len(qs) = n + 1 /\ n \in Nat
      /\ \A i \in 1..n : qs[i] = ps[i]
      /\ qs[n + 1] = p
  BY AppendProperties
<1> HIDE DEF qs
<1>2. PICK u \in [0..n -> Seq(PlaceSet)] :
        /\ u[0] = <<>>
        /\ \A i \in 1..n : u[i] = u[i - 1] \o Run(ps[i])
        /\ Places(ps) = u[n]
  BY PlacesSteps
<1>3. PICK v \in [0..n + 1 -> Seq(PlaceSet)] :
        /\ v[0] = <<>>
        /\ \A i \in 1..n + 1 : v[i] = v[i - 1] \o Run(qs[i])
        /\ Places(qs) = v[n + 1]
  BY <1>1, PlacesSteps
<1> HIDE DEF n
<1>4. v[n] = u[n]
  <2> DEFINE T == {i \in 0..n : v[i] = u[i]}
  <2>1. 0 \in T
    BY <1>1, <1>2, <1>3
  <2>2. ASSUME NEW i \in 0..n - 1, i \in T PROVE i + 1 \in T
    <3>1. i + 1 \in 1..n /\ i + 1 \in 1..n + 1 /\ (i + 1) - 1 = i /\ i + 1 \in 0..n
      BY <1>1
    <3>2. v[i + 1] = v[i] \o Run(qs[i + 1]) /\ u[i + 1] = u[i] \o Run(ps[i + 1])
      BY <1>2, <1>3, <3>1
    <3> QED
      BY <1>1, <2>2, <3>1, <3>2
  <2> HIDE DEF T
  <2>3. \A i \in 0..n : i \in T
    BY <1>1, <2>1, <2>2, Climb
  <2> QED
    BY <1>1, <2>3 DEF T
<1>5. n + 1 \in 1..n + 1 /\ (n + 1) - 1 = n
  BY <1>1
<1>6. v[n + 1] = v[n] \o Run(p)
  BY <1>1, <1>3, <1>5
<1> QED
  BY <1>2, <1>3, <1>4, <1>6 DEF qs

LEMMA PlacesOne ==
  ASSUME NEW p \in PieceSet
  PROVE  <<p>> \in Seq(PieceSet) /\ Places(<<p>>) = Run(p)
<1>1. <<>> \in Seq(PieceSet) /\ Append(<<>>, p) = <<p>> /\ <<p>> \in Seq(PieceSet)
  OBVIOUS
<1>2. Run(p) \in Seq(PlaceSet) /\ <<>> \o Run(p) = Run(p)
  BY RunIs, ConcatEmptySeq
<1> QED
  BY <1>1, <1>2, PlacesAppend, PlacesEmpty

(* The places of two lists joined.                                         *)
LEMMA PlacesConcat ==
  ASSUME NEW ps \in Seq(PieceSet), NEW qs \in Seq(PieceSet)
  PROVE  Places(ps \o qs) = Places(ps) \o Places(qs)
<1> DEFINE n == Len(qs)
           P == Seq(PieceSet)
           Q == Seq(PlaceSet)
           first(i) == SubSeq(qs, 1, i)
           T == {i \in 0..n : first(i) \in P /\ Places(ps \o first(i)) = Places(ps) \o Places(first(i))}
<1>1. n \in Nat /\ Places(ps) \in Q
  BY PlacesType
<1>2. 0 \in T
  <2>1. first(0) = <<>> /\ <<>> \in P
    BY SubSeqEmpty
  <2>2. ps \o <<>> = ps /\ Places(ps) \o <<>> = Places(ps)
    BY <1>1, ConcatEmptySeq
  <2>3. Places(ps \o <<>>) = Places(ps) \o Places(<<>>)
    BY <2>2, PlacesEmpty
  <2>4. 0 \in 0..n
    BY <1>1
  <2> HIDE DEF first, P
  <2> QED
    BY <2>1, <2>3, <2>4
<1>3. ASSUME NEW i \in 0..n - 1, i \in T PROVE i + 1 \in T
  <2> DEFINE a == first(i)
             q == qs[i + 1]
  <2>1. i + 1 \in 1..n /\ q \in PieceSet /\ i \in 0..n /\ (i + 1) - 1 = i /\ 1 \in 1..n /\ i + 1 \in 0..n
    BY <1>1
  <2>2. a \in P /\ Places(ps \o a) = Places(ps) \o Places(a) /\ Places(a) \in Q
    BY <1>3, PlacesType
  <2>3. first(i + 1) = a \o <<q>>
    BY <2>1, SubSeqRecursiveSecond
  <2> HIDE DEF a, q, first
  <2>4. /\ <<q>> \in P /\ a \o <<q>> = Append(a, q) /\ a \o <<q>> \in P
        /\ ps \o a \in P
    BY <2>1, <2>2, AppendIsConcat, AppendProperties, ConcatProperties
  <2>5. ps \o (a \o <<q>>) = (ps \o a) \o <<q>>
    BY <2>2, <2>4, ConcatAssociative, SMTT(40)
  <2>6. (ps \o a) \o <<q>> = Append(ps \o a, q)
    BY <2>1, <2>4, AppendIsConcat
  <2>7. Places(ps \o (a \o <<q>>)) = (Places(ps) \o Places(a)) \o Run(q)
    BY <2>1, <2>2, <2>4, <2>5, <2>6, PlacesAppend
  <2>8. Run(q) \in Q
    BY <2>1, RunIs
  <2>9. (Places(ps) \o Places(a)) \o Run(q) = Places(ps) \o (Places(a) \o Run(q))
    <3> DEFINE x == Places(ps)
               y == Places(a)
               z == Run(q)
    <3>1. x \in Seq(PlaceSet) /\ y \in Seq(PlaceSet) /\ z \in Seq(PlaceSet)
      BY <1>1, <2>2, <2>8
    <3> HIDE DEF x, y, z
    <3>2. (x \o y) \o z = x \o (y \o z)
      BY <3>1, ConcatAssociative, SMTT(40)
    <3> QED
      BY <3>2 DEF x, y, z
  <2>10. Places(a) \o Run(q) = Places(a \o <<q>>)
    BY <2>1, <2>2, <2>4, PlacesAppend
  <2> QED
    BY <2>1, <2>3, <2>4, <2>7, <2>9, <2>10
<1> HIDE DEF T
<1>4. \A i \in 0..n : i \in T
  BY <1>1, <1>2, <1>3, Climb
<1>5. n \in T /\ first(n) = qs
  BY <1>1, <1>4, SubSeqFull
<1> QED
  BY <1>5 DEF T

LEMMA PlacesFirst ==
  ASSUME NEW ps \in Seq(PieceSet), NEW i \in 1..Len(ps)
  PROVE  /\ SubSeq(ps, 1, i - 1) \in Seq(PieceSet)
         /\ SubSeq(ps, 1, i) \in Seq(PieceSet)
         /\ Places(SubSeq(ps, 1, i)) = Places(SubSeq(ps, 1, i - 1)) \o Run(ps[i])
<1> DEFINE a == SubSeq(ps, 1, i - 1)
           b == SubSeq(ps, 1, i)
<1>1. 1 \in 1..Len(ps) /\ i \in 1..Len(ps) /\ ps[i] \in PieceSet
  OBVIOUS
<1>2. b = a \o <<ps[i]>>
  BY <1>1, SubSeqRecursiveSecond
<1>3. a \in Seq(PieceSet) /\ b \in Seq(PieceSet)
  BY <1>1
<1>4. b = Append(a, ps[i])
  BY <1>1, <1>2, <1>3, AppendIsConcat
<1> HIDE DEF a, b
<1>5. Places(b) = Places(a) \o Run(ps[i])
  BY <1>1, <1>3, <1>4, PlacesAppend
<1> QED
  BY <1>3, <1>5 DEF a, b

(* Located finds the piece that a byte of the document lies in.            *)
LEMMA LocatedIs ==
  ASSUME NEW ps \in Seq(PieceSet), NEW offset \in Nat, offset < Total(ps)
  PROVE  LET at == Located(ps, offset)
         IN /\ at.piece \in 1..Len(ps)
            /\ at.inner \in Nat
            /\ at.inner < ps[at.piece].length
            /\ offset = Total(SubSeq(ps, 1, at.piece - 1)) + at.inner
<1> DEFINE n == Len(ps)
           b == 0
           V == Nat
           With(i, v) == v + ps[i].length
           Is(f) == f = [i \in 0..n |-> IF i = 0 THEN b ELSE With(i, f[i - 1])]
           step == [i \in 1..n |-> [v \in V |-> With(i, v)]]
           k == CHOOSE f : Is(f)
           p == CHOOSE i \in DOMAIN ps : k[i - 1] <= offset /\ offset < k[i]
           Up(i) == Total(SubSeq(ps, 1, i))
<1>1. n \in Nat /\ DOMAIN ps = 1..n
  OBVIOUS
<1>2. Located(ps, offset) = [piece |-> p, inner |-> offset - k[p - 1]]
  BY DEF Located
<1>3. \A i \in 1..n : ps[i].length \in Nat \ {0}
  <2>1. \A i \in 1..n : ps[i] \in PieceSet
    OBVIOUS
  <2> QED
    BY <2>1 DEF PieceSet
<1>4. step \in Steps(n, V)
  <2>1. \A i \in 1..n : \A v \in V : With(i, v) \in V
    BY <1>3
  <2> HIDE DEF V, n, With
  <2> QED
    BY <2>1 DEF Steps
<1>5. b \in V
  OBVIOUS
<1> HIDE DEF n, V, k, b, With, p, Up
<1>6. PICK f \in [0..n -> V] : f[0] = b /\ \A i \in 1..n : f[i] = step[i][f[i - 1]]
  <2> HIDE DEF step
  <2>1. \E f \in [0..n -> V] : Follows(f, n, b, step)
    BY <1>1, <1>4, <1>5, Recursion
  <2> QED
    BY <2>1 DEF Follows
<1>7. ASSUME NEW i \in 1..n PROVE f[i] = With(i, f[i - 1])
  <2>1. f[i - 1] \in V
    BY <1>1
  <2>2. f[i] = step[i][f[i - 1]]
    BY <1>6
  <2> QED
    BY <2>1, <2>2
<1>8. Is(f)
  BY <1>1, <1>6, <1>7
<1>9. Is(k)
  <2> HIDE DEF Is
  <2> QED
    BY <1>8 DEF k
<1>10. k[0] = 0 /\ \A i \in 1..n : k[i] = k[i - 1] + ps[i].length
  BY <1>1, <1>9 DEF b, With
<1>11. \A i \in 0..n : k[i] = Up(i) /\ k[i] \in Nat
  <2> DEFINE T == {i \in 0..n : k[i] = Up(i) /\ k[i] \in Nat}
  <2>1. Up(0) = 0
    <3>1. SubSeq(ps, 1, 0) = <<>>
      BY SubSeqEmpty
    <3>2. Places(SubSeq(ps, 1, 0)) = <<>> /\ Len(<<>>) = 0
      BY <3>1, PlacesEmpty
    <3> QED
      BY <3>2 DEF Up, Total
  <2>2. 0 \in T
    BY <1>1, <1>10, <2>1
  <2>3. ASSUME NEW i \in 0..n - 1, i \in T PROVE i + 1 \in T
    <3>1. i + 1 \in 1..n /\ (i + 1) - 1 = i /\ i + 1 \in 0..n
      BY <1>1
    <3>2. Up(i + 1) = Up(i) + ps[i + 1].length
      <4> DEFINE a == Places(SubSeq(ps, 1, i))
                 r == Run(ps[i + 1])
      <4>1. /\ SubSeq(ps, 1, i) \in Seq(PieceSet)
            /\ Places(SubSeq(ps, 1, i + 1)) = a \o r
        BY <3>1, PlacesFirst DEF n
      <4>2. ps[i + 1] \in PieceSet
        BY <3>1 DEF n
      <4>3. a \in Seq(PlaceSet) /\ r \in Seq(PlaceSet) /\ Len(r) = ps[i + 1].length
        BY <4>1, <4>2, PlacesType, RunIs
      <4> HIDE DEF a, r
      <4>4. Len(a \o r) = Len(a) + Len(r)
        BY <4>3, ConcatProperties
      <4> QED
        BY <4>1, <4>3, <4>4 DEF Up, Total, a
    <3> QED
      BY <1>3, <1>10, <2>3, <3>1, <3>2
  <2> HIDE DEF T
  <2>4. \A i \in 0..n : i \in T
    BY <1>1, <2>2, <2>3, Climb
  <2> QED
    BY <2>4 DEF T
<1>12. Up(n) = Total(ps)
  BY SubSeqFull DEF Up, n
<1>13. \E i \in 1..n : k[i - 1] <= offset /\ offset < k[i]
  <2> DEFINE S == {i \in 1..n : offset < k[i]}
  <2>1. n # 0
    BY <1>1, <1>10, <1>11, <1>12
  <2>2. n \in S
    BY <1>1, <1>11, <1>12, <2>1
  <2>3. S \subseteq Nat
    BY <1>1
  <2>4. PICK m \in S : \A i \in S : m <= i
    BY <2>2, <2>3, Least
  <2>5. m \in 1..n /\ offset < k[m] /\ m - 1 \in 0..n
    BY <1>1, <2>4
  <2>6. CASE m = 1
    BY <1>10, <2>5, <2>6
  <2>7. CASE m # 1
    <3>1. m - 1 \in 1..n /\ m - 1 \notin S
      BY <1>1, <2>3, <2>4, <2>5, <2>7
    <3>2. k[m - 1] <= offset
      BY <1>11, <2>5, <3>1
    <3> QED
      BY <2>5, <3>2
  <2> QED
    BY <2>6, <2>7
<1>14. p \in 1..n /\ k[p - 1] <= offset /\ offset < k[p]
  BY <1>1, <1>13 DEF p
<1>15. /\ p - 1 \in 0..n
       /\ k[p] = k[p - 1] + ps[p].length
       /\ k[p - 1] = Total(SubSeq(ps, 1, p - 1)) /\ k[p - 1] \in Nat
       /\ ps[p].length \in Nat
  BY <1>1, <1>3, <1>10, <1>11, <1>14 DEF Up
<1> DEFINE inner == offset - k[p - 1]
<1>16. /\ inner \in Nat /\ inner < ps[p].length
       /\ offset = Total(SubSeq(ps, 1, p - 1)) + inner
  BY <1>14, <1>15
<1> HIDE DEF inner
<1>17. Located(ps, offset) = [piece |-> p, inner |-> inner]
  BY <1>2 DEF inner
<1> QED
  BY <1>14, <1>16, <1>17 DEF n

-------------------------------------------------------------------------------
(* Splitting and merging.                                                  *)
LEMMA Halves ==
  ASSUME NEW S, NEW a \in Seq(S), NEW b \in Seq(S), NEW s, s = a \o b
  PROVE  a = SubSeq(s, 1, Len(a)) /\ b = SubSeq(s, Len(a) + 1, Len(s))
<1>1. /\ s \in Seq(S) /\ Len(s) = Len(a) + Len(b) /\ Len(a) \in Nat /\ Len(b) \in Nat
      /\ \A i \in 1..Len(a) + Len(b) : s[i] = IF i <= Len(a) THEN a[i] ELSE b[i - Len(a)]
  BY ConcatProperties, LenProperties
<1> DEFINE x == SubSeq(s, 1, Len(a))
           y == SubSeq(s, Len(a) + 1, Len(s))
<1>2. x \in Seq(S) /\ Len(x) = Len(a) /\ \A i \in 1..Len(a) : x[i] = s[i]
  <2>1. 1 \in 1..Len(s) + 1 /\ Len(a) \in 1 - 1..Len(s)
    BY <1>1
  <2> QED
    BY <1>1, <2>1, SubIs
<1>3. y \in Seq(S) /\ Len(y) = Len(b) /\ \A i \in 1..Len(b) : y[i] = s[Len(a) + i]
  <2>1. Len(a) + 1 \in 1..Len(s) + 1 /\ Len(s) \in (Len(a) + 1) - 1..Len(s)
    BY <1>1
  <2>2. y \in Seq(S) /\ Len(y) = Len(s) - (Len(a) + 1) + 1
        /\ \A i \in 1..Len(s) - (Len(a) + 1) + 1 : y[i] = s[Len(a) + 1 + i - 1]
    BY <1>1, <2>1, SubIs
  <2> QED
    BY <1>1, <2>2
<1> HIDE DEF x, y
<1>4. x = a
  <2>1. \A i \in 1..Len(x) : x[i] = a[i]
    BY <1>1, <1>2
  <2> QED
    BY <1>2, <2>1, SeqEqual
<1>5. y = b
  <2>1. \A i \in 1..Len(b) : Len(a) + i \in 1..Len(a) + Len(b) /\ (Len(a) + i) - Len(a) = i /\ ~(Len(a) + i <= Len(a))
    BY <1>1
  <2>2. \A i \in 1..Len(y) : y[i] = b[i]
    BY <1>1, <1>3, <2>1
  <2> QED
    BY <1>3, <2>2, SeqEqual
<1> QED
  BY <1>4, <1>5 DEF x, y

(* Two adjoining pieces stand for what the one they merge into does.       *)
LEMMA RunJoin ==
  ASSUME NEW p \in PieceSet, NEW q \in PieceSet, Adjoin(p, q)
  PROVE  Both(p, q) \in PieceSet /\ Run(Both(p, q)) = Run(p) \o Run(q)
<1> DEFINE m == Both(p, q)
<1>1. /\ p.length \in Nat \ {0} /\ q.length \in Nat \ {0} /\ p.start \in Nat
      /\ q.start = p.start + p.length /\ p.source = q.source /\ p.source \in Sources
  BY PieceIs DEF Adjoin
<1>2. /\ m \in PieceSet /\ m.source = p.source /\ m.start = p.start
      /\ m.length = p.length + q.length
  <2>1. p.length + q.length \in Nat \ {0}
    BY <1>1
  <2> QED
    BY <1>1, <2>1, PieceIs DEF Both
<1> HIDE DEF m
<1>3. /\ Run(m) \in Seq(PlaceSet) /\ Len(Run(m)) = m.length
      /\ \A k \in 1..m.length : Run(m)[k] = [source |-> m.source, at |-> m.start + k]
  BY <1>2, RunIs DEF Run
<1>4. /\ Run(p) \in Seq(PlaceSet) /\ Len(Run(p)) = p.length
      /\ \A k \in 1..p.length : Run(p)[k] = [source |-> p.source, at |-> p.start + k]
  BY <1>2, RunIs DEF Run
<1>5. /\ Run(q) \in Seq(PlaceSet) /\ Len(Run(q)) = q.length
      /\ \A k \in 1..q.length : Run(q)[k] = [source |-> q.source, at |-> q.start + k]
  BY <1>2, RunIs DEF Run
<1> DEFINE r == Run(p) \o Run(q)
<1>6. /\ r \in Seq(PlaceSet) /\ Len(r) = p.length + q.length
      /\ \A k \in 1..p.length + q.length :
           r[k] = IF k <= p.length THEN Run(p)[k] ELSE Run(q)[k - p.length]
  <2> DEFINE x == Run(p)
             y == Run(q)
  <2>1. x \in Seq(PlaceSet) /\ y \in Seq(PlaceSet) /\ Len(x) = p.length /\ Len(y) = q.length
    BY <1>4, <1>5
  <2> HIDE DEF x, y
  <2>2. /\ x \o y \in Seq(PlaceSet) /\ Len(x \o y) = Len(x) + Len(y)
        /\ \A k \in 1..Len(x) + Len(y) : (x \o y)[k] = IF k <= Len(x) THEN x[k] ELSE y[k - Len(x)]
    BY <2>1, ConcatProperties
  <2> QED
    BY <2>1, <2>2 DEF x, y
<1> HIDE DEF r
<1>7. ASSUME NEW k \in 1..Len(Run(m)) PROVE Run(m)[k] = r[k]
  <2>1. k \in 1..p.length + q.length /\ k \in 1..m.length
    BY <1>1, <1>2, <1>3
  <2>2. CASE k <= p.length
    <3>1. k \in 1..p.length
      BY <1>1, <2>1, <2>2
    <3> QED
      BY <1>2, <1>3, <1>4, <1>6, <2>1, <2>2, <3>1
  <2>3. CASE ~(k <= p.length)
    <3>1. k - p.length \in 1..q.length /\ q.start + (k - p.length) = m.start + k
      BY <1>1, <1>2, <2>1, <2>3
    <3>2. r[k] = [source |-> q.source, at |-> q.start + (k - p.length)]
      BY <1>5, <1>6, <2>1, <2>3, <3>1
    <3> QED
      BY <1>1, <1>2, <1>3, <2>1, <3>1, <3>2
  <2> QED
    BY <2>2, <2>3
<1>8. Run(m) = r
  BY <1>2, <1>3, <1>6, <1>7, SeqEqual
<1> QED
  BY <1>2, <1>8 DEF m, r

(* A list around one of its pieces.                                        *)
LEMMA Around ==
  ASSUME NEW ps \in Seq(PieceSet), NEW i \in 1..Len(ps)
  PROVE  LET a == SubSeq(ps, 1, i - 1)
             b == SubSeq(ps, i + 1, Len(ps))
         IN /\ a \in Seq(PieceSet) /\ b \in Seq(PieceSet) /\ ps[i] \in PieceSet
            /\ Places(ps) = (Places(a) \o Run(ps[i])) \o Places(b)
<1> DEFINE a == SubSeq(ps, 1, i - 1)
           b == SubSeq(ps, i + 1, Len(ps))
           c == SubSeq(ps, 1, i)
<1>1. /\ a \in Seq(PieceSet) /\ c \in Seq(PieceSet)
      /\ Places(c) = Places(a) \o Run(ps[i])
  BY PlacesFirst
<1>2. b \in Seq(PieceSet) /\ ps[i] \in PieceSet
  OBVIOUS
<1>3. c \o b = ps
  <2>1. 1 \in 1..Len(ps) + 1 /\ i \in 1 - 1..Len(ps) /\ Len(ps) \in i..Len(ps)
    OBVIOUS
  <2>2. c \o b = SubSeq(ps, 1, Len(ps))
    BY <2>1, ConcatAdjacentSubSeq
  <2> QED
    BY <2>2, SubSeqFull
<1> HIDE DEF a, b, c
<1>4. Places(ps) = Places(c) \o Places(b)
  BY <1>1, <1>2, <1>3, PlacesConcat
<1> QED
  BY <1>1, <1>2, <1>4 DEF a, b

LEMMA Assoc == \A s, x, y \in Seq(PlaceSet) : (s \o x) \o y = s \o (x \o y)
<1> SUFFICES ASSUME NEW s \in Seq(PlaceSet), NEW x \in Seq(PlaceSet), NEW y \in Seq(PlaceSet)
             PROVE  (s \o x) \o y = s \o (x \o y)
  BY Zenon
<1>1. (s \o x) \o y = s \o (x \o y)
  BY ConcatAssociative
<1> QED
  BY <1>1

(* Merging pieces changes no place.                                        *)
LEMMA MergedIs ==
  ASSUME NEW ps \in Seq(PieceSet), NEW i \in Int
  PROVE  MergedAt(ps, i) \in Seq(PieceSet) /\ Places(MergedAt(ps, i)) = Places(ps)
<1>1. CASE ~(i \in 1..(Len(ps) - 1) /\ Adjoin(ps[i], ps[i + 1]))
  BY <1>1 DEF MergedAt
<1>2. CASE i \in 1..(Len(ps) - 1) /\ Adjoin(ps[i], ps[i + 1])
  <2> DEFINE n == Len(ps)
             a == SubSeq(ps, 1, i - 1)
             p == ps[i]
             q == ps[i + 1]
             b == SubSeq(ps, i + 1, n)
             c == SubSeq(ps, i + 2, n)
             m == Both(p, q)
  <2>1. n \in Nat /\ i \in 1..n /\ i + 1 \in 1..n /\ n \in i + 1..n
    BY <1>2
  <2>2. /\ a \in Seq(PieceSet) /\ b \in Seq(PieceSet) /\ p \in PieceSet
        /\ Places(ps) = (Places(a) \o Run(p)) \o Places(b)
    BY <2>1, Around
  <2>3. q \in PieceSet /\ c \in Seq(PieceSet)
    BY <2>1
  <2>4. b = <<q>> \o c
    <3>1. (i + 1) + 1 = i + 2
      BY <2>1
    <3> QED
      BY <2>1, <3>1, SubSeqRecursiveFirst
  <2>5. m \in PieceSet /\ Run(m) = Run(p) \o Run(q)
    BY <1>2, <2>2, <2>3, RunJoin
  <2>6. MergedAt(ps, i) = (a \o <<m>>) \o c
    BY <1>2 DEF MergedAt
  <2> HIDE DEF n, a, p, q, b, c, m
  <2>7. /\ <<q>> \in Seq(PieceSet) /\ Places(<<q>>) = Run(q)
        /\ <<m>> \in Seq(PieceSet) /\ Places(<<m>>) = Run(m)
    BY <2>3, <2>5, PlacesOne
  <2>8. Places(b) = Run(q) \o Places(c)
    BY <2>3, <2>4, <2>7, PlacesConcat
  <2>9. a \o <<m>> \in Seq(PieceSet) /\ (a \o <<m>>) \o c \in Seq(PieceSet)
    BY <2>2, <2>3, <2>7, ConcatProperties
  <2>10. Places((a \o <<m>>) \o c) = (Places(a) \o (Run(p) \o Run(q))) \o Places(c)
    <3>1. Places(a \o <<m>>) = Places(a) \o Run(m)
      BY <2>2, <2>7, PlacesConcat
    <3>2. Places((a \o <<m>>) \o c) = Places(a \o <<m>>) \o Places(c)
      BY <2>3, <2>9, PlacesConcat
    <3> QED
      BY <2>5, <3>1, <3>2
  <2>11. /\ Places(a) \in Seq(PlaceSet) /\ Places(c) \in Seq(PlaceSet)
         /\ Run(p) \in Seq(PlaceSet) /\ Run(q) \in Seq(PlaceSet)
    BY <2>2, <2>3, PlacesType, RunIs
  <2> DEFINE A == Places(a)
             B == Run(p)
             C == Run(q)
             D == Places(c)
  <2>12. A \in Seq(PlaceSet) /\ B \in Seq(PlaceSet) /\ C \in Seq(PlaceSet) /\ D \in Seq(PlaceSet)
    BY <2>11
  <2>13. Places((a \o <<m>>) \o c) = (A \o (B \o C)) \o D /\ Places(ps) = (A \o B) \o (C \o D)
    BY <2>2, <2>8, <2>10
  <2> HIDE DEF A, B, C, D
  <2> QED
    <3>1. A \o B \in Seq(PlaceSet)
      BY <2>12, ConcatProperties
    <3>2. ((A \o B) \o C) \o D = (A \o B) \o (C \o D)
      BY <2>12, <3>1, Assoc, ZenonT(60)
    <3>3. (A \o B) \o C = A \o (B \o C)
      BY <2>12, Assoc, ZenonT(60)
    <3> QED
      BY <2>6, <2>9, <2>13, <3>2, <3>3
<1> QED
  BY <1>1, <1>2

LEMMA CoalescedIs ==
  ASSUME NEW ps \in Seq(PieceSet), NEW i \in Int
  PROVE  Coalesced(ps, i) \in Seq(PieceSet) /\ Places(Coalesced(ps, i)) = Places(ps)
<1>1. MergedAt(ps, i) \in Seq(PieceSet) /\ Places(MergedAt(ps, i)) = Places(ps)
  BY MergedIs
<1>2. i - 1 \in Int
  OBVIOUS
<1> QED
  BY <1>1, <1>2, MergedIs DEF Coalesced

(* A piece cut in two, or at its beginning.                                *)
LEMMA SplitPiece ==
  ASSUME NEW p \in PieceSet, NEW x \in Nat, x < p.length
  PROVE  /\ After(p, x) \in PieceSet /\ (x = 0 => After(p, x) = p)
         /\ x # 0 => /\ Before(p, x) \in PieceSet /\ Before(p, x).length = x
                     /\ Run(p) = Run(Before(p, x)) \o Run(After(p, x))
<1> DEFINE p1 == Before(p, x)
           p2 == After(p, x)
           s == p.source
           k == p.start
           n == p.length
<1>1. /\ s \in Sources /\ k \in Nat /\ n \in Nat \ {0} /\ p = Piece(s, k, n)
  BY PieceIs
<1>2. p1 = Piece(s, k, x) /\ p2 = Piece(s, k + x, n - x)
  BY DEF Before, After
<1>3. x < n /\ x + (n - x) = n /\ n - x \in Nat \ {0} /\ k + x \in Nat
  BY <1>1
<1> HIDE DEF s, k, n, p1, p2
<1>4. p2 \in PieceSet
  BY <1>1, <1>2, <1>3, PieceIs
<1>5. x = 0 => p2 = p
  BY <1>1, <1>2, <1>3
<1>6. ASSUME x # 0 PROVE p1 \in PieceSet /\ p1.length = x /\ Run(p) = Run(p1) \o Run(p2)
  <2>1. p1 \in PieceSet /\ p1.length = x
    BY <1>1, <1>2, <1>6, PieceIs
  <2>2. Adjoin(p1, p2)
    BY <1>2, PieceIs DEF Adjoin
  <2>3. Both(p1, p2) = p
    BY <1>1, <1>2, <1>3, PieceIs DEF Both
  <2> QED
    BY <1>4, <2>1, <2>2, <2>3, RunJoin
<1> QED
  BY <1>4, <1>5, <1>6 DEF p1, p2

(* Upto and Onward are the pieces on either side of an offset.             *)
LEMMA SidesAre ==
  ASSUME NEW t, t.pieces \in Seq(PieceSet), t.length = Total(t.pieces),
         NEW offset \in 0..t.length
  PROVE  /\ Upto(t, offset) \in Seq(PieceSet)
         /\ Onward(t, offset) \in Seq(PieceSet)
         /\ Places(Upto(t, offset)) = SubSeq(Places(t.pieces), 1, offset)
         /\ Places(Onward(t, offset)) = SubSeq(Places(t.pieces), offset + 1, t.length)
<1> DEFINE ps == t.pieces
           P == Places(ps)
<1>1. ps \in Seq(PieceSet) /\ P \in Seq(PlaceSet) /\ t.length = Len(P) /\ t.length \in Nat
  BY PlacesType DEF Total
<1>2. CASE offset >= t.length
  <2>1. offset = t.length /\ Upto(t, offset) = ps /\ Onward(t, offset) = <<>>
    BY <1>1, <1>2 DEF Upto, Onward
  <2>2. SubSeq(P, 1, t.length) = P
    BY <1>1, SubSeqFull
  <2>3. SubSeq(P, t.length + 1, t.length) = <<>> /\ <<>> \in Seq(PieceSet)
    BY <1>1, SubSeqEmpty
  <2> QED
    BY <1>1, <2>1, <2>2, <2>3, PlacesEmpty
<1>3. CASE ~(offset >= t.length)
  <2> DEFINE at == Located(ps, offset)
             i == at.piece
             x == at.inner
             p == ps[i]
             a == SubSeq(ps, 1, i - 1)
             b == SubSeq(ps, i + 1, Len(ps))
             p1 == Before(p, x)
             p2 == After(p, x)
             left == IF x = 0 THEN <<>> ELSE <<p1>>
             u == Upto(t, offset)
             o == Onward(t, offset)
  <2>1. u = a \o left /\ o = <<p2>> \o b
    BY <1>3 DEF Upto, Onward
  <2>2. offset \in Nat /\ offset < Total(ps)
    BY <1>1, <1>3
  <2>3. /\ i \in 1..Len(ps) /\ x \in Nat /\ x < p.length
        /\ offset = Total(a) + x
    BY <1>1, <2>2, LocatedIs
  <2>4. /\ a \in Seq(PieceSet) /\ b \in Seq(PieceSet) /\ p \in PieceSet
        /\ P = (Places(a) \o Run(p)) \o Places(b)
    BY <1>1, <2>3, Around
  <2>6. /\ p2 \in PieceSet /\ (x = 0 => p2 = p)
        /\ x # 0 => p1 \in PieceSet /\ p1.length = x /\ Run(p) = Run(p1) \o Run(p2)
    <3> HIDE DEF at, i, x, p
    <3> QED
      BY <2>3, <2>4, SplitPiece
  <2> HIDE DEF at, i, x, p, a, b, p1, p2, u, o
  <2> DEFINE A == Places(a)
             R == Run(p)
             B == Places(b)
             L == Places(left)
             R2 == Run(p2)
  <2>7. /\ left \in Seq(PieceSet) /\ L \in Seq(PlaceSet) /\ Len(L) = x
        /\ R = L \o R2
    <3>1. CASE x = 0
      <4>1. left = <<>> /\ <<>> \in Seq(PieceSet) /\ L = <<>>
        BY <3>1, PlacesEmpty
      <4>2. p2 = p
        BY <2>6, <3>1
      <4>3. R \in Seq(PlaceSet)
        BY <2>4, RunIs
      <4>4. <<>> \o R = R
        BY <4>3, ConcatEmptySeq
      <4>5. R = R2
        BY <4>2
      <4>6. Len(<<>>) = 0 /\ <<>> \in Seq(PlaceSet)
        OBVIOUS
      <4> HIDE DEF left, L, R, R2
      <4>7. R = L \o R2
        BY <4>1, <4>4, <4>5, Zenon
      <4> QED
        BY <3>1, <4>1, <4>6, <4>7
    <3>2. CASE x # 0
      <4>1. p1 \in PieceSet /\ p1.length = x
        BY <2>6, <3>2
      <4>4. R = Run(p1) \o R2
        BY <2>6, <3>2
      <4>5. left \in Seq(PieceSet) /\ L = Run(p1)
        BY <3>2, <4>1, PlacesOne
      <4>6. Run(p1) \in Seq(PlaceSet) /\ Len(Run(p1)) = x
        BY <4>1, RunIs
      <4> QED
        BY <4>4, <4>5, <4>6
    <3> QED
      BY <3>1, <3>2
  <2>8. /\ A \in Seq(PlaceSet) /\ B \in Seq(PlaceSet) /\ R2 \in Seq(PlaceSet)
        /\ Len(A) = Total(a)
    BY <2>4, <2>6, PlacesType, RunIs
  <2>9. Places(<<p2>>) = R2 /\ <<p2>> \in Seq(PieceSet)
    BY <2>6, PlacesOne
  <2> HIDE DEF left
  <2>10. u \in Seq(PieceSet) /\ Places(u) = A \o L
    BY <2>1, <2>4, <2>7, PlacesConcat, ConcatProperties
  <2>11. o \in Seq(PieceSet) /\ Places(o) = R2 \o B
    BY <2>1, <2>4, <2>9, PlacesConcat, ConcatProperties
  <2> HIDE DEF A, B, L, R2, R, P
  <2>12. A \o L \in Seq(PlaceSet) /\ R2 \o B \in Seq(PlaceSet) /\ Len(A \o L) = Len(A) + Len(L)
    BY <2>7, <2>8, ConcatProperties
  <2>13. P = (A \o L) \o (R2 \o B)
    <3>1. P = (A \o (L \o R2)) \o B
      BY <2>4, <2>7 DEF A, B, R
    <3>2. ((A \o L) \o R2) \o B = (A \o L) \o (R2 \o B)
      BY <2>8, <2>12, Assoc, ZenonT(60)
    <3>3. (A \o L) \o R2 = A \o (L \o R2)
      BY <2>7, <2>8, Assoc, ZenonT(60)
    <3> QED
      BY <3>1, <3>2, <3>3
  <2>14. Len(A \o L) = offset
    BY <2>3, <2>7, <2>8, <2>12
  <2>15. A \o L = SubSeq(P, 1, offset) /\ R2 \o B = SubSeq(P, offset + 1, t.length)
    <3> DEFINE X == A \o L
               Y == R2 \o B
    <3>1. X \in Seq(PlaceSet) /\ Y \in Seq(PlaceSet) /\ P = X \o Y /\ Len(X) = offset
      BY <2>12, <2>13, <2>14
    <3> HIDE DEF X, Y
    <3>2. X = SubSeq(P, 1, offset) /\ Y = SubSeq(P, offset + 1, Len(P))
      BY <3>1, Halves
    <3> QED
      BY <1>1, <3>2 DEF X, Y
  <2> QED
    BY <2>10, <2>11, <2>15 DEF u, o, P
<1> QED
  BY <1>2, <1>3

-------------------------------------------------------------------------------
(* Tables: the pieces read inside the buffers, and no byte of the add      *)
(* buffer twice.                                                           *)
TableSet == [pieces : Seq(PieceSet), original : Seq(Byte), added : Seq(Byte),
             length : Nat, limit : Nat]

Within(t, q) == q.at <= Len(Buffer(t, q.source))

Bare(t) ==
  /\ t \in TableSet
  /\ t.length = Len(Places(t.pieces))
  /\ \A k \in 1..t.length : Within(t, Places(t.pieces)[k])
  /\ Apart(t)

Sound(t) == Bare(t) /\ ~Bloated(t) /\ Len(t.pieces) <= t.limit

LEMMA TableIs ==
  ASSUME NEW t \in TableSet
  PROVE  /\ t.pieces \in Seq(PieceSet) /\ t.original \in Seq(Byte) /\ t.added \in Seq(Byte)
         /\ t.length \in Nat /\ t.limit \in Nat
         /\ Places(t.pieces) \in Seq(PlaceSet)
         /\ Len(t.added) \in Nat /\ Len(t.original) \in Nat
         /\ Len(Places(t.pieces)) \in Nat
<1>1. /\ t.pieces \in Seq(PieceSet) /\ t.original \in Seq(Byte) /\ t.added \in Seq(Byte)
      /\ t.length \in Nat /\ t.limit \in Nat
  BY DEF TableSet
<1>2. Places(t.pieces) \in Seq(PlaceSet)
  BY <1>1, PlacesType
<1>3. Len(Places(t.pieces)) \in Nat
  BY <1>2, LenProperties
<1> QED
  BY <1>1, <1>2, <1>3

LEMMA ReadsByte ==
  ASSUME NEW t \in TableSet, NEW q \in PlaceSet, Within(t, q)
  PROVE  ByteAt(t, q) \in Byte
<1>1. q.at \in Nat \ {0} /\ q.source \in Sources
  BY DEF PlaceSet
<1>2. t.original \in Seq(Byte) /\ t.added \in Seq(Byte)
  BY TableIs
<1> QED
  BY <1>1, <1>2 DEF Within, ByteAt, Buffer

LEMMA ContentIs ==
  ASSUME NEW t, Bare(t)
  PROVE  /\ Content(t) \in Seq(Byte)
         /\ Len(Content(t)) = t.length /\ t.length \in Nat
         /\ \A k \in 1..t.length : Content(t)[k] = ByteAt(t, Places(t.pieces)[k])
<1> DEFINE P == Places(t.pieces)
           n == t.length
           c == [k \in 1..n |-> ByteAt(t, P[k])]
<1>1. t \in TableSet /\ n = Len(P) /\ \A k \in 1..n : Within(t, P[k])
  BY DEF Bare
<1>2. P \in Seq(PlaceSet) /\ n \in Nat
  BY <1>1, TableIs
<1> HIDE DEF P, n
<1>3. \A k \in 1..n : P[k] \in PlaceSet
  BY <1>1, <1>2
<1>4. \A k \in 1..n : ByteAt(t, P[k]) \in Byte
  BY <1>1, <1>3, ReadsByte
<1>5. DOMAIN P = 1..n
  BY <1>1, <1>2
<1>6. Content(t) = c
  BY <1>5 DEF Content, P
<1>7. c \in Seq(Byte) /\ Len(c) = n
  BY <1>2, <1>4, IsASeq
<1> QED
  BY <1>2, <1>6, <1>7 DEF n, P

LEMMA Contents ==
  ASSUME NEW t, Bare(t), NEW c \in Seq(Byte), Len(c) = t.length,
         \A k \in 1..t.length : ByteAt(t, Places(t.pieces)[k]) = c[k]
  PROVE  Content(t) = c
<1>1. /\ Content(t) \in Seq(Byte) /\ Len(Content(t)) = t.length
      /\ \A k \in 1..t.length : Content(t)[k] = ByteAt(t, Places(t.pieces)[k])
  BY ContentIs
<1>2. \A k \in 1..Len(Content(t)) : Content(t)[k] = c[k]
  BY <1>1
<1> QED
  BY <1>1, <1>2, SeqEqual

(* Apart, with the places named.                                           *)
LEMMA ApartIs ==
  ASSUME NEW t \in TableSet, NEW n \in Nat, n = Len(Places(t.pieces))
  PROVE  Apart(t) <=> \A j, k \in 1..n :
           j # k /\ Places(t.pieces)[j] = Places(t.pieces)[k]
             => Places(t.pieces)[j].source = "original"
<1>1. DOMAIN Places(t.pieces) = 1..n
  BY TableIs
<1> QED
  BY <1>1 DEF Apart

(* New bytes at the end of the add buffer, read at an offset.              *)
LEMMA SplicedTable ==
  ASSUME NEW t, Bare(t), NEW u \in TableSet, NEW data \in Seq(Byte), data # <<>>,
         NEW offset \in 0..t.length,
         u.original = t.original, u.added = t.added \o data,
         u.length = t.length + Len(data),
         Places(u.pieces) = Splice(Places(t.pieces), offset,
                                   Run(Piece("added", Len(t.added), Len(data))))
  PROVE  Bare(u) /\ Content(u) = Splice(Content(t), offset, data)
<1> DEFINE P == Places(t.pieces)
           Q == Places(u.pieces)
           n == t.length
           d == Len(data)
           e == Len(t.added)
           new == Piece("added", e, d)
           R == Run(new)
           c == Content(t)
           s == Splice(c, offset, data)
<1>1. /\ t \in TableSet /\ n = Len(P) /\ P \in Seq(PlaceSet) /\ n \in Nat
      /\ t.added \in Seq(Byte) /\ t.original \in Seq(Byte) /\ e \in Nat
      /\ \A k \in 1..n : Within(t, P[k])
  BY TableIs DEF Bare
<1>2. d \in Nat \ {0}
  BY EmptySeq
<1>3. new \in PieceSet /\ new.source = "added" /\ new.start = e /\ new.length = d
  BY <1>1, <1>2, PieceIs DEF Sources
<1>4. /\ R \in Seq(PlaceSet) /\ Len(R) = d
      /\ \A k \in 1..d : R[k].source = "added" /\ R[k].at = e + k
  BY <1>3, RunIs
<1> HIDE DEF P, Q, n, d, e, new, R, c, s
<1>5. /\ Q \in Seq(PlaceSet) /\ Len(Q) = n + d
      /\ \A k \in 1..n + d : Q[k] = IF k <= offset THEN P[k]
                                    ELSE IF k <= offset + d THEN R[k - offset]
                                    ELSE P[k - d]
  <2>1. Q = Splice(P, offset, R)
    BY DEF P, Q, R, new, e, d
  <2>2. offset \in 0..Len(P)
    BY <1>1 DEF n
  <2>3. P \in Seq(PlaceSet) /\ R \in Seq(PlaceSet)
    BY <1>1, <1>4
  <2>4. /\ Q \in Seq(PlaceSet) /\ Len(Q) = Len(P) + Len(R)
        /\ \A k \in 1..Len(P) + Len(R) : Q[k] = IF k <= offset THEN P[k]
                                                ELSE IF k <= offset + Len(R) THEN R[k - offset]
                                                ELSE P[k - Len(R)]
    <3>1. IsSplice(Q, PlaceSet, P, offset, R)
      BY <2>1, <2>2, <2>3, Spliced
    <3> QED
      BY <3>1 DEF IsSplice
  <2> QED
    BY <1>1, <1>4, <2>4
<1>6. /\ c \in Seq(Byte) /\ Len(c) = n
      /\ \A k \in 1..n : c[k] = ByteAt(t, P[k])
  BY ContentIs DEF c, n, P
<1>7. /\ s \in Seq(Byte) /\ Len(s) = n + d
      /\ \A k \in 1..n + d : s[k] = IF k <= offset THEN c[k]
                                    ELSE IF k <= offset + d THEN data[k - offset]
                                    ELSE c[k - d]
  <2>1. offset \in 0..Len(c)
    BY <1>6 DEF n
  <2> QED
    <3>1. IsSplice(s, Byte, c, offset, data)
      BY <1>6, <2>1, Spliced DEF s
    <3> QED
      BY <1>6, <3>1 DEF IsSplice, d
<1>8. /\ u.added \in Seq(Byte) /\ Len(u.added) = e + d
      /\ \A k \in 1..e + d : u.added[k] = IF k <= e THEN t.added[k] ELSE data[k - e]
  BY <1>1, ConcatProperties DEF e, d
<1>9. ASSUME NEW q \in PlaceSet, Within(t, q)
      PROVE  Within(u, q) /\ ByteAt(u, q) = ByteAt(t, q)
  <2>1. q.at \in Nat \ {0} /\ q.source \in Sources
    BY DEF PlaceSet
  <2>2. CASE q.source = "original"
    BY <1>9, <2>2 DEF Within, ByteAt, Buffer
  <2>3. CASE q.source = "added"
    <3>1. q.at <= e
      BY <1>9, <2>3 DEF Within, Buffer, e
    <3> DEFINE w == u.added
    <3>0. w \in Seq(Byte) /\ Len(w) = e + d
          /\ \A k \in 1..e + d : w[k] = IF k <= e THEN t.added[k] ELSE data[k - e]
      BY <1>8
    <3> HIDE DEF w
    <3>a. q.at \in 1..e + d /\ q.at <= Len(w)
      BY <1>1, <1>2, <2>1, <3>0, <3>1
    <3>b. w[q.at] = t.added[q.at]
      BY <3>0, <3>1, <3>a
    <3>2. q.at <= Len(u.added) /\ u.added[q.at] = t.added[q.at]
      BY <3>a, <3>b DEF w
    <3>3. Buffer(u, q.source) = u.added /\ Buffer(t, q.source) = t.added
      BY <2>3 DEF Buffer
    <3> QED
      BY <3>2, <3>3 DEF Within, ByteAt
  <2> QED
    BY <2>1, <2>2, <2>3 DEF Sources
<1>10. ASSUME NEW k \in 1..d
       PROVE  Within(u, R[k]) /\ ByteAt(u, R[k]) = data[k]
  <2>1. R[k].source = "added" /\ R[k].at = e + k
    BY <1>4
  <2>2. e + k \in 1..e + d /\ ~(e + k <= e) /\ (e + k) - e = k
    BY <1>1, <1>2
  <2> QED
    BY <1>8, <2>1, <2>2 DEF Within, ByteAt, Buffer
<1>11. offset \in Nat /\ offset <= n
  BY <1>1 DEF n
<1>12. ASSUME NEW k \in 1..n + d
       PROVE  Within(u, Q[k]) /\ ByteAt(u, Q[k]) = s[k]
  <2>1. CASE k <= offset
    <3>1. k \in 1..n
      BY <1>1, <1>11, <2>1
    <3>2. P[k] \in PlaceSet
      BY <1>1, <3>1
    <3> QED
      BY <1>1, <1>5, <1>6, <1>7, <1>9, <2>1, <3>1, <3>2
  <2>2. CASE ~(k <= offset) /\ k <= offset + d
    <3>1. k - offset \in 1..d
      BY <1>1, <1>2, <1>11, <2>2
    <3> QED
      BY <1>5, <1>7, <1>10, <2>2, <3>1
  <2>3. CASE ~(k <= offset) /\ ~(k <= offset + d)
    <3>1. k - d \in 1..n
      BY <1>1, <1>2, <1>11, <2>3
    <3>2. P[k - d] \in PlaceSet
      BY <1>1, <3>1
    <3> QED
      BY <1>1, <1>5, <1>6, <1>7, <1>9, <2>3, <3>1, <3>2
  <2> QED
    BY <2>1, <2>2, <2>3
<1>13. Apart(u)
  <2> DEFINE Old(k) == k <= offset \/ ~(k <= offset + d)
             At(k) == IF k <= offset THEN k ELSE k - d
  <2>1. ASSUME NEW k \in 1..n + d, Old(k)
        PROVE  At(k) \in 1..n /\ Q[k] = P[At(k)] /\ P[At(k)].at \in Nat
               /\ (Q[k].source = "added" => Q[k].at <= e)
    <3>1. At(k) \in 1..n /\ Q[k] = P[At(k)]
      BY <1>1, <1>2, <1>5, <1>11, <2>1
    <3> HIDE DEF At
    <3>2. P[At(k)] \in PlaceSet /\ Within(t, P[At(k)])
      BY <1>1, <3>1
    <3> QED
      BY <3>1, <3>2 DEF Within, Buffer, e, PlaceSet
  <2>2. ASSUME NEW k \in 1..n + d, ~Old(k)
        PROVE  k - offset \in 1..d /\ Q[k].source = "added" /\ Q[k].at = e + (k - offset)
    <3>1. k - offset \in 1..d /\ Q[k] = R[k - offset]
      BY <1>1, <1>2, <1>5, <1>11, <2>2
    <3> QED
      BY <1>4, <3>1
  <2>3. SUFFICES ASSUME NEW j \in 1..n + d, NEW k \in 1..n + d, j # k, Q[j] = Q[k]
                 PROVE  Q[j].source = "original"
    <3>1. n + d \in Nat
      BY <1>1, <1>2
    <3> QED
      BY <1>5, <3>1, ApartIs DEF Q
  <2>4. CASE Old(j) /\ Old(k)
    <3>1. At(j) # At(k)
      BY <1>1, <1>2, <1>11, <2>3, <2>4
    <3> HIDE DEF At, Old
    <3>2. At(j) \in 1..n /\ At(k) \in 1..n /\ P[At(j)] = P[At(k)] /\ Q[j] = P[At(j)]
      BY <2>1, <2>3, <2>4
    <3>3. Apart(t) /\ n = Len(Places(t.pieces)) /\ n \in Nat /\ t \in TableSet
      BY <1>1 DEF Bare, P
    <3>4. \A x, y \in 1..n : x # y /\ P[x] = P[y] => P[x].source = "original"
      BY <3>3, ApartIs DEF P
    <3> QED
      BY <3>1, <3>2, <3>4
  <2>5. CASE ~Old(j) /\ ~Old(k)
    <3> HIDE DEF Old
    <3>1. e + (j - offset) = e + (k - offset)
      BY <2>2, <2>3, <2>5
    <3> QED
      BY <1>1, <1>11, <2>3, <3>1
  <2>6. CASE Old(j) /\ ~Old(k)
    <3> HIDE DEF Old
    <3>1. Q[k].source = "added" /\ Q[k].at = e + (k - offset) /\ k - offset \in 1..d
      BY <2>2, <2>6
    <3>2. Q[j].at <= e
      BY <2>1, <2>3, <2>6, <3>1
    <3> QED
      BY <1>1, <1>2, <2>3, <3>1, <3>2
  <2>7. CASE ~Old(j) /\ Old(k)
    <3> HIDE DEF Old
    <3>1. Q[j].source = "added" /\ Q[j].at = e + (j - offset) /\ j - offset \in 1..d
      BY <2>2, <2>7
    <3>2. Q[k].at <= e
      BY <2>1, <2>3, <2>7, <3>1
    <3> QED
      BY <1>1, <1>2, <2>3, <3>1, <3>2
  <2> QED
    BY <2>4, <2>5, <2>6, <2>7
<1>14. u.length = n + d
  BY DEF n, d
<1>15. Bare(u)
  BY <1>5, <1>12, <1>13, <1>14 DEF Bare, Q
<1>16. Content(u) = s
  BY <1>7, <1>12, <1>14, <1>15, Contents DEF Q
<1> QED
  BY <1>15, <1>16 DEF s, c

(* Places taken out of the pieces; the buffers stay.                       *)
LEMMA CutTable ==
  ASSUME NEW t, Bare(t), NEW u \in TableSet,
         NEW from \in 0..t.length, NEW to \in from..t.length,
         u.original = t.original, u.added = t.added,
         u.length = t.length - (to - from),
         Places(u.pieces) = Cut(Places(t.pieces), from, to)
  PROVE  Bare(u) /\ Content(u) = Cut(Content(t), from, to)
<1> DEFINE P == Places(t.pieces)
           Q == Places(u.pieces)
           n == t.length
           d == to - from
           c == Content(t)
           s == Cut(c, from, to)
           At(k) == IF k <= from THEN k ELSE k + d
<1>1. /\ t \in TableSet /\ n = Len(P) /\ P \in Seq(PlaceSet) /\ n \in Nat
      /\ \A k \in 1..n : Within(t, P[k])
  BY TableIs DEF Bare
<1>2. from \in Nat /\ to \in Nat /\ from <= to /\ to <= n /\ d \in Nat
  BY <1>1
<1> HIDE DEF P, Q, n, d, c, s
<1>3. /\ Q \in Seq(PlaceSet) /\ Len(Q) = n - d
      /\ \A k \in 1..n - d : Q[k] = IF k <= from THEN P[k] ELSE P[k + d]
  <2>1. Q = Cut(P, from, to)
    BY DEF P, Q
  <2>2. from \in 0..Len(P) /\ to \in from..Len(P)
    BY <1>1, <1>2
  <2>3. /\ Q \in Seq(PlaceSet) /\ Len(Q) = Len(P) - (to - from)
        /\ \A k \in 1..Len(P) - (to - from) : Q[k] = IF k <= from THEN P[k] ELSE P[k + (to - from)]
    <3>1. IsCut(Q, PlaceSet, P, from, to)
      BY <1>1, <2>1, <2>2, CutOut
    <3> QED
      BY <3>1 DEF IsCut
  <2> QED
    BY <1>1, <2>3 DEF d
<1>4. /\ c \in Seq(Byte) /\ Len(c) = n
      /\ \A k \in 1..n : c[k] = ByteAt(t, P[k])
  BY ContentIs DEF c, n, P
<1>5. /\ s \in Seq(Byte) /\ Len(s) = n - d
      /\ \A k \in 1..n - d : s[k] = IF k <= from THEN c[k] ELSE c[k + d]
  <2>1. from \in 0..Len(c) /\ to \in from..Len(c)
    BY <1>2, <1>4
  <2>2. /\ s \in Seq(Byte) /\ Len(s) = Len(c) - (to - from)
        /\ \A k \in 1..Len(c) - (to - from) : s[k] = IF k <= from THEN c[k] ELSE c[k + (to - from)]
    <3>1. IsCut(s, Byte, c, from, to)
      BY <1>4, <2>1, CutOut DEF s
    <3> QED
      BY <3>1 DEF IsCut
  <2> QED
    BY <1>4, <2>2 DEF d
<1>6. \A q : ByteAt(u, q) = ByteAt(t, q) /\ (Within(t, q) => Within(u, q))
  <2>1. \A q : Buffer(u, q.source) = Buffer(t, q.source)
    BY DEF Buffer
  <2> QED
    BY <2>1 DEF Within, ByteAt
<1>7. ASSUME NEW k \in 1..n - d
      PROVE  At(k) \in 1..n /\ Q[k] = P[At(k)] /\ s[k] = c[At(k)]
  BY <1>1, <1>2, <1>3, <1>5
<1>8. \A k \in 1..n - d : Within(u, Q[k]) /\ ByteAt(u, Q[k]) = s[k]
  <2> HIDE DEF At
  <2> QED
    BY <1>1, <1>4, <1>6, <1>7
<1>9. u.length = n - d /\ n - d \in Nat
  BY <1>1, <1>2 DEF n, d
<1>10. Apart(u)
  <2> SUFFICES ASSUME NEW j \in 1..n - d, NEW k \in 1..n - d, j # k, Q[j] = Q[k]
               PROVE  Q[j].source = "original"
    BY <1>3, <1>9, ApartIs DEF Q
  <2>1. At(j) # At(k)
    BY <1>1, <1>2
  <2> HIDE DEF At
  <2>2. Apart(t) /\ n = Len(Places(t.pieces))
    BY <1>1 DEF Bare, P
  <2>3. \A x, y \in 1..n : x # y /\ P[x] = P[y] => P[x].source = "original"
    BY <1>1, <2>2, ApartIs DEF P
  <2> QED
    BY <1>7, <2>1, <2>3
<1>11. Bare(u)
  BY <1>3, <1>8, <1>9, <1>10 DEF Bare, Q
<1>12. Content(u) = s
  BY <1>5, <1>8, <1>9, <1>11, Contents DEF Q
<1> QED
  BY <1>11, <1>12 DEF s, c

-------------------------------------------------------------------------------
(* Compaction.  Q are the places after it and P before, B and A the add    *)
(* buffers: place by place they read the same byte, the places of the new  *)
(* add buffer ascend, and it holds nothing else.                           *)
AddedOnes(Q) == {k \in DOMAIN Q : Q[k].source = "added"}

Repacks(Q, P, B, A) ==
  /\ Q \in Seq(PlaceSet) /\ P \in Seq(PlaceSet) /\ B \in Seq(Byte) /\ Len(Q) = Len(P)
  /\ \A k \in 1..Len(P) :
       /\ Q[k].source = P[k].source
       /\ Q[k].source = "original" => Q[k] = P[k]
       /\ Q[k].source = "added" => Q[k].at <= Len(B) /\ B[Q[k].at] = A[P[k].at]
  /\ \A j, k \in 1..Len(P) :
       j < k /\ Q[j].source = "added" /\ Q[k].source = "added" => Q[j].at < Q[k].at
  /\ IsFiniteSet(AddedOnes(Q)) /\ Cardinality(AddedOnes(Q)) = Len(B)

LEMMA RepackOriginal ==
  ASSUME NEW Q, NEW P, NEW B, NEW A, Repacks(Q, P, B, A),
         NEW R \in Seq(PlaceSet), \A k \in 1..Len(R) : R[k].source = "original"
  PROVE  Repacks(Q \o R, P \o R, B, A)
<1> DEFINE m == Len(P)
           d == Len(R)
           X == Q \o R
           Y == P \o R
<1>1. /\ Q \in Seq(PlaceSet) /\ P \in Seq(PlaceSet) /\ B \in Seq(Byte) /\ Len(Q) = m
      /\ m \in Nat /\ d \in Nat
  BY DEF Repacks
<1>2. /\ X \in Seq(PlaceSet) /\ Len(X) = Len(Q) + Len(R)
      /\ \A k \in 1..Len(Q) + Len(R) : X[k] = IF k <= Len(Q) THEN Q[k] ELSE R[k - Len(Q)]
  <2>1. IsJoin(X, PlaceSet, Q, R)
    BY <1>1, Joined
  <2> QED
    BY <2>1 DEF IsJoin
<1>3. /\ Y \in Seq(PlaceSet) /\ Len(Y) = Len(P) + Len(R)
      /\ \A k \in 1..Len(P) + Len(R) : Y[k] = IF k <= Len(P) THEN P[k] ELSE R[k - Len(P)]
  <2>1. IsJoin(Y, PlaceSet, P, R)
    BY <1>1, Joined
  <2> QED
    BY <2>1 DEF IsJoin
<1> HIDE DEF X, Y, m, d
<1>4. /\ Len(X) = m + d /\ Len(Y) = m + d /\ DOMAIN X = 1..m + d /\ DOMAIN Q = 1..m
      /\ \A k \in 1..m : k \in 1..m + d /\ X[k] = Q[k] /\ Y[k] = P[k]
      /\ \A k \in 1..m + d : k \notin 1..m => X[k].source = "original" /\ Y[k] = X[k]
  <2>1. Len(X) = m + d /\ Len(Y) = m + d /\ DOMAIN X = 1..m + d /\ DOMAIN Q = 1..m
    BY <1>1, <1>2, <1>3 DEF m, d
  <2>2. ASSUME NEW k \in 1..m PROVE k \in 1..m + d /\ X[k] = Q[k] /\ Y[k] = P[k]
    BY <1>1, <1>2, <1>3 DEF m, d
  <2>3. ASSUME NEW k \in 1..m + d, k \notin 1..m PROVE X[k].source = "original" /\ Y[k] = X[k]
    <3>1. ~(k <= m) /\ k - m \in 1..d
      BY <1>1, <2>3
    <3>2. X[k] = R[k - m] /\ Y[k] = R[k - m]
      BY <1>1, <1>2, <1>3, <3>1 DEF m, d
    <3> QED
      BY <3>1, <3>2 DEF d
  <2> QED
    BY <2>1, <2>2, <2>3
<1>5. /\ \A k \in 1..m :
           /\ Q[k].source = P[k].source
           /\ Q[k].source = "original" => Q[k] = P[k]
           /\ Q[k].source = "added" => Q[k].at <= Len(B) /\ B[Q[k].at] = A[P[k].at]
      /\ \A j, k \in 1..m :
           j < k /\ Q[j].source = "added" /\ Q[k].source = "added" => Q[j].at < Q[k].at
      /\ IsFiniteSet(AddedOnes(Q)) /\ Cardinality(AddedOnes(Q)) = Len(B)
  BY DEF Repacks, m
<1>6. AddedOnes(X) = AddedOnes(Q)
  BY <1>4 DEF AddedOnes
<1>7. \A k \in 1..m + d :
        /\ X[k].source = Y[k].source
        /\ X[k].source = "original" => X[k] = Y[k]
        /\ X[k].source = "added" => X[k].at <= Len(B) /\ B[X[k].at] = A[Y[k].at]
  BY <1>4, <1>5
<1>8. \A j, k \in 1..m + d :
        j < k /\ X[j].source = "added" /\ X[k].source = "added" => X[j].at < X[k].at
  BY <1>4, <1>5
<1> QED
  BY <1>1, <1>2, <1>3, <1>4, <1>5, <1>6, <1>7, <1>8 DEF Repacks, X, Y

LEMMA RepackAdded ==
  ASSUME NEW Q, NEW P, NEW B, NEW A, Repacks(Q, P, B, A),
         NEW R \in Seq(PlaceSet), NEW N \in Seq(PlaceSet), NEW Z \in Seq(Byte),
         Len(N) = Len(R), Len(Z) = Len(R),
         \A k \in 1..Len(R) : /\ R[k].source = "added" /\ N[k].source = "added"
                              /\ N[k].at = Len(B) + k
                              /\ Z[k] = A[R[k].at]
  PROVE  Repacks(Q \o N, P \o R, B \o Z, A)
<1> DEFINE m == Len(P)
           d == Len(R)
           e == Len(B)
           X == Q \o N
           Y == P \o R
           C == B \o Z
<1>1. /\ Q \in Seq(PlaceSet) /\ P \in Seq(PlaceSet) /\ B \in Seq(Byte) /\ Len(Q) = m
      /\ m \in Nat /\ d \in Nat /\ e \in Nat /\ Len(N) = d /\ Len(Z) = d
  BY DEF Repacks
<1>2. /\ X \in Seq(PlaceSet) /\ Len(X) = Len(Q) + Len(N)
      /\ \A k \in 1..Len(Q) + Len(N) : X[k] = IF k <= Len(Q) THEN Q[k] ELSE N[k - Len(Q)]
  <2>1. Q \in Seq(PlaceSet) /\ N \in Seq(PlaceSet)
    BY <1>1
  <2>2. X \in Seq(PlaceSet)
    BY <2>1, ConcatProperties
  <2>3. Len(X) = Len(Q) + Len(N)
    BY <2>1, ConcatProperties
  <2>4. ASSUME NEW k \in 1..Len(Q) + Len(N)
        PROVE  X[k] = IF k <= Len(Q) THEN Q[k] ELSE N[k - Len(Q)]
    BY <2>1, ConcatProperties
  <2> QED
    BY <2>2, <2>3, <2>4
<1>3. /\ Y \in Seq(PlaceSet) /\ Len(Y) = Len(P) + Len(R)
      /\ \A k \in 1..Len(P) + Len(R) : Y[k] = IF k <= Len(P) THEN P[k] ELSE R[k - Len(P)]
  <2>1. IsJoin(Y, PlaceSet, P, R)
    BY <1>1, Joined
  <2> QED
    BY <2>1 DEF IsJoin
<1>c. /\ C \in Seq(Byte) /\ Len(C) = Len(B) + Len(Z)
      /\ \A k \in 1..Len(B) + Len(Z) : C[k] = IF k <= Len(B) THEN B[k] ELSE Z[k - Len(B)]
  <2>1. IsJoin(C, Byte, B, Z)
    BY <1>1, Joined
  <2> QED
    BY <2>1 DEF IsJoin
<1>r. \A k \in 1..d : /\ R[k].source = "added" /\ N[k].source = "added"
                      /\ N[k].at = e + k /\ Z[k] = A[R[k].at]
  OBVIOUS
<1> HIDE DEF X, Y, C, m, d, e
<1>4. /\ Len(X) = m + d /\ Len(Y) = m + d /\ Len(C) = e + d
      /\ DOMAIN X = 1..m + d /\ DOMAIN Q = 1..m
  BY <1>1, <1>2, <1>3, <1>c DEF m, d, e
<1>5. \A k \in 1..m : k \in 1..m + d /\ X[k] = Q[k] /\ Y[k] = P[k]
  BY <1>1, <1>2, <1>3 DEF m, d
<1>6. ASSUME NEW k \in 1..m + d, k \notin 1..m
      PROVE  /\ X[k].source = "added" /\ Y[k].source = "added"
             /\ X[k].at = e + (k - m) /\ X[k].at <= e + d /\ C[X[k].at] = A[Y[k].at]
  <2>1. ~(k <= m) /\ k - m \in 1..d
    BY <1>1, <1>6
  <2>2. X[k] = N[k - m] /\ Y[k] = R[k - m]
    BY <1>1, <1>2, <1>3, <2>1 DEF m, d
  <2>3. X[k].source = "added" /\ Y[k].source = "added" /\ X[k].at = e + (k - m)
        /\ Z[k - m] = A[Y[k].at]
    BY <1>r, <2>1, <2>2
  <2>4. e + (k - m) \in 1..e + d /\ ~(e + (k - m) <= e) /\ (e + (k - m)) - e = k - m
    BY <1>1, <2>1
  <2>5. C[e + (k - m)] = Z[k - m]
    <3> DEFINE i == e + (k - m)
    <3>1. i \in 1..e + d /\ ~(i <= e) /\ i - e = k - m
      BY <2>4
    <3> HIDE DEF i
    <3>2. \A x \in 1..e + d : C[x] = IF x <= e THEN B[x] ELSE Z[x - e]
      BY <1>1, <1>c DEF e
    <3>3. C[i] = Z[k - m]
      BY <3>1, <3>2
    <3> QED
      BY <3>3 DEF i
  <2>6. C[X[k].at] = A[Y[k].at]
    BY <2>3, <2>5
  <2>7. X[k].at <= e + d
    BY <1>1, <2>3, <2>4
  <2> QED
    BY <2>3, <2>6, <2>7
<1>7. ASSUME NEW k \in 1..e PROVE k \in 1..e + d /\ C[k] = B[k]
  <2>1. k \in 1..e + d /\ k <= e
    BY <1>1
  <2>2. Len(B) + Len(Z) = e + d /\ Len(B) = e
    BY <1>1 DEF e
  <2> QED
    BY <1>c, <2>1, <2>2
<1>8. /\ \A k \in 1..m :
           /\ Q[k].source = P[k].source
           /\ Q[k].source = "original" => Q[k] = P[k]
           /\ Q[k].source = "added" => Q[k].at <= e /\ B[Q[k].at] = A[P[k].at]
      /\ \A j, k \in 1..m :
           j < k /\ Q[j].source = "added" /\ Q[k].source = "added" => Q[j].at < Q[k].at
      /\ IsFiniteSet(AddedOnes(Q)) /\ Cardinality(AddedOnes(Q)) = e
  BY DEF Repacks, m, e
<1>9. \A k \in 1..m : Q[k].at \in Nat \ {0}
  <2>1. \A k \in 1..m : Q[k] \in PlaceSet
    BY <1>1
  <2> QED
    BY <2>1 DEF PlaceSet
<1>10. /\ IsFiniteSet(AddedOnes(X)) /\ Cardinality(AddedOnes(X)) = e + d
  <2> DEFINE new == m + 1..m + d
  <2>1. AddedOnes(X) = AddedOnes(Q) \cup new
    <3>1. \A k : k \in 1..m + d <=> k \in 1..m \/ k \in new
      BY <1>1
    <3>2. \A k \in new : k \notin 1..m
      BY <1>1
    <3> HIDE DEF new
    <3> QED
      BY <1>4, <1>5, <1>6, <3>1, <3>2 DEF AddedOnes
  <2>2. AddedOnes(Q) \cap new = {}
    BY <1>1, <1>4 DEF AddedOnes
  <2>3. IsFiniteSet(new) /\ Cardinality(new) = d
    <3>1. m + 1 \in Int /\ m + d \in Int
      BY <1>1
    <3>2. IsFiniteSet(new) /\ Cardinality(new) = IF m + 1 > m + d THEN 0 ELSE (m + d) - (m + 1) + 1
      BY <3>1, FS_Interval
    <3> QED
      BY <1>1, <3>2
  <2> HIDE DEF new
  <2>4. IsFiniteSet(AddedOnes(Q) \cup new)
    BY <1>8, <2>3, FS_Union
  <2>5. Cardinality(AddedOnes(Q) \cup new)
          = Cardinality(AddedOnes(Q)) + Cardinality(new) - Cardinality(AddedOnes(Q) \cap new)
    BY <1>8, <2>3, FS_Union
  <2>6. Cardinality({}) = 0
    BY FS_EmptySet
  <2>7. e + d - 0 = e + d
    BY <1>1
  <2>8. Cardinality(AddedOnes(X)) = e + d - 0
    BY <1>8, <2>1, <2>2, <2>3, <2>5, <2>6
  <2> QED
    BY <2>1, <2>4, <2>7, <2>8
<1>11. ASSUME NEW k \in 1..m + d
       PROVE  /\ X[k].source = Y[k].source
              /\ X[k].source = "original" => X[k] = Y[k]
              /\ X[k].source = "added" => X[k].at <= e + d /\ C[X[k].at] = A[Y[k].at]
  <2>1. CASE k \in 1..m
    <3>1. X[k] = Q[k] /\ Y[k] = P[k] /\ Q[k].at \in Nat \ {0}
      BY <1>5, <1>9, <2>1
    <3>2. Q[k].at <= e => Q[k].at \in 1..e /\ Q[k].at <= e + d
      <4> DEFINE x == Q[k].at
      <4>1. x \in Nat \ {0} /\ e \in Nat /\ d \in Nat
        BY <1>1, <3>1
      <4> HIDE DEF x
      <4>2. x <= e => x \in 1..e /\ x <= e + d
        BY <4>1
      <4> QED
        BY <4>2 DEF x
    <3>3. /\ Q[k].source = P[k].source
          /\ Q[k].source = "original" => Q[k] = P[k]
          /\ Q[k].source = "added" => Q[k].at <= e /\ B[Q[k].at] = A[P[k].at]
      BY <1>8, <2>1
    <3>4. Q[k].source = "added" => C[Q[k].at] = A[P[k].at] /\ Q[k].at <= e + d
      BY <1>7, <3>2, <3>3
    <3> QED
      BY <3>1, <3>3, <3>4
  <2>2. CASE k \notin 1..m
    BY <1>6, <2>2
  <2> QED
    BY <2>1, <2>2
<1>12. ASSUME NEW j \in 1..m + d, NEW k \in 1..m + d,
              j < k, X[j].source = "added", X[k].source = "added"
       PROVE  X[j].at < X[k].at
  <2>1. CASE k \in 1..m
    <3>1. j \in 1..m
      BY <1>1, <1>12, <2>1
    <3> QED
      BY <1>5, <1>8, <1>12, <2>1, <3>1
  <2>2. CASE k \notin 1..m /\ j \in 1..m
    <3>1. X[j] = Q[j] /\ Q[j].at <= e /\ Q[j].at \in Nat
      BY <1>5, <1>8, <1>9, <1>12, <2>2
    <3>2. X[k].at = e + (k - m)
      BY <1>6, <2>2
    <3>3. k - m > 0 /\ k - m \in Nat /\ e \in Nat
      BY <1>1, <2>2
    <3> DEFINE x == Q[j].at
               y == k - m
    <3> HIDE DEF x, y
    <3>4. x <= e /\ x \in Nat /\ e \in Nat /\ y \in Nat /\ y > 0
      BY <3>1, <3>3 DEF x, y
    <3>5. x < e + y
      BY <3>4
    <3> QED
      BY <3>1, <3>2, <3>5 DEF x, y
  <2>3. CASE k \notin 1..m /\ j \notin 1..m
    <3>1. X[k].at = e + (k - m) /\ X[j].at = e + (j - m)
      BY <1>6, <2>3
    <3>2. e + (j - m) < e + (k - m)
      BY <1>1, <1>12
    <3> QED
      BY <3>1, <3>2
  <2> QED
    BY <2>1, <2>2, <2>3
<1>13. /\ X \in Seq(PlaceSet) /\ Y \in Seq(PlaceSet) /\ C \in Seq(Byte)
  BY <1>2, <1>3, <1>c
<1>14. Repacks(X, Y, C, A)
  BY <1>4, <1>10, <1>11, <1>12, <1>13 DEF Repacks
<1> QED
  BY <1>14 DEF X, Y, C

(* A piece of a table lies inside its buffer.                              *)
LEMMA FitsIs ==
  ASSUME NEW t, Bare(t), NEW i \in 1..Len(t.pieces)
  PROVE  /\ t.pieces[i] \in PieceSet
         /\ t.pieces[i].start + t.pieces[i].length <= Len(Buffer(t, t.pieces[i].source))
<1> DEFINE ps == t.pieces
           p == ps[i]
           P == Places(ps)
           A == Places(SubSeq(ps, 1, i - 1))
           R == Run(p)
           B == Places(SubSeq(ps, i + 1, Len(ps)))
           AR == A \o R
           k == Len(A) + p.length
<1>1. /\ t \in TableSet /\ ps \in Seq(PieceSet) /\ P \in Seq(PlaceSet) /\ t.length = Len(P)
      /\ \A x \in 1..t.length : Within(t, P[x])
  BY TableIs DEF Bare
<1>2. A \in Seq(PlaceSet) /\ B \in Seq(PlaceSet) /\ p \in PieceSet /\ P = AR \o B
  BY <1>1, Around, PlacesType
<1>3. /\ R \in Seq(PlaceSet) /\ Len(R) = p.length /\ p.length \in Nat \ {0}
      /\ \A x \in 1..p.length : R[x].source = p.source /\ R[x].at = p.start + x
  BY <1>2, RunIs, PieceIs
<1> HIDE DEF ps, p, P, A, R, B
<1>4. Len(A) \in Nat /\ Len(B) \in Nat
  BY <1>2, LenProperties
<1>5. /\ AR \in Seq(PlaceSet) /\ Len(AR) = Len(A) + Len(R)
      /\ \A x \in 1..Len(A) + Len(R) : AR[x] = IF x <= Len(A) THEN A[x] ELSE R[x - Len(A)]
  <2>1. IsJoin(AR, PlaceSet, A, R)
    BY <1>2, <1>3, Joined
  <2> QED
    BY <2>1 DEF IsJoin
<1> HIDE DEF AR
<1>6. /\ Len(P) = Len(AR) + Len(B)
      /\ \A x \in 1..Len(AR) + Len(B) : P[x] = IF x <= Len(AR) THEN AR[x] ELSE B[x - Len(AR)]
  <2>1. AR \in Seq(PlaceSet) /\ B \in Seq(PlaceSet)
    BY <1>2, <1>5
  <2>2. /\ Len(AR \o B) = Len(AR) + Len(B)
        /\ \A x \in 1..Len(AR) + Len(B) : (AR \o B)[x] = IF x <= Len(AR) THEN AR[x] ELSE B[x - Len(AR)]
    BY <2>1, ConcatProperties
  <2> QED
    BY <1>2, <2>2
<1>7. /\ k \in 1..Len(A) + Len(R) /\ k \in 1..Len(AR) + Len(B) /\ k <= Len(AR)
      /\ ~(k <= Len(A)) /\ k - Len(A) = p.length /\ p.length \in 1..p.length
      /\ k \in 1..t.length
  <2>1. /\ k \in 1..Len(A) + Len(R) /\ k <= Len(AR)
        /\ ~(k <= Len(A)) /\ k - Len(A) = p.length /\ p.length \in 1..p.length
    BY <1>1, <1>3, <1>4, <1>5, SMTT(40)
  <2>2. k \in 1..Len(AR) + Len(B) /\ k \in 1..t.length
    BY <1>1, <1>3, <1>4, <1>5, <1>6, <2>1, SMTT(40)
  <2> QED
    BY <2>1, <2>2
<1> HIDE DEF k
<1>8. P[k] = R[p.length]
  BY <1>5, <1>6, <1>7
<1>9. P[k].source = p.source /\ P[k].at = p.start + p.length /\ Within(t, P[k])
  BY <1>1, <1>3, <1>7, <1>8
<1> QED
  BY <1>2, <1>9 DEF Within, p, ps

LEMMA BytesOfIs ==
  ASSUME NEW t \in TableSet, NEW p \in PieceSet,
         p.start + p.length <= Len(Buffer(t, p.source))
  PROVE  /\ BytesOf(t, p) \in Seq(Byte) /\ Len(BytesOf(t, p)) = p.length
         /\ \A k \in 1..p.length : BytesOf(t, p)[k] = Buffer(t, p.source)[p.start + k]
<1> DEFINE b == Buffer(t, p.source)
           x == p.start + 1
           y == p.start + p.length
<1>1. b \in Seq(Byte)
  BY TableIs DEF Buffer
<1>2. p.start \in Nat /\ p.length \in Nat \ {0} /\ Len(b) \in Nat
  BY <1>1, PieceIs, LenProperties
<1>3. x \in 1..Len(b) + 1 /\ y \in x - 1..Len(b) /\ y - x + 1 = p.length
  BY <1>2
<1>4. BytesOf(t, p) = SubSeq(b, x, y)
  BY DEF BytesOf
<1>5. \A k \in 1..p.length : x + k - 1 = p.start + k
  BY <1>2
<1> HIDE DEF b, x, y
<1>6. /\ SubSeq(b, x, y) \in Seq(Byte) /\ Len(SubSeq(b, x, y)) = y - x + 1
      /\ \A k \in 1..y - x + 1 : SubSeq(b, x, y)[k] = b[x + k - 1]
  BY <1>1, <1>3, SubIs
<1> QED
  BY <1>3, <1>4, <1>5, <1>6 DEF b

BuiltSet == [added : Seq(Byte), pieces : Seq(PieceSet)]

LEMMA RepackedIs ==
  ASSUME NEW t \in TableSet, NEW p \in PieceSet,
         p.start + p.length <= Len(Buffer(t, p.source)),
         NEW built \in BuiltSet, NEW P, Repacks(Places(built.pieces), P, built.added, t.added)
  PROVE  LET r == Repacked(t, built, p)
         IN r \in BuiltSet /\ Repacks(Places(r.pieces), P \o Run(p), r.added, t.added)
<1> DEFINE r == Repacked(t, built, p)
           b == built.added
           ps == built.pieces
           q == IF p.source = "added" THEN Piece("added", Len(b), p.length) ELSE p
           Z == BytesOf(t, p)
<1>1. b \in Seq(Byte) /\ ps \in Seq(PieceSet) /\ Len(b) \in Nat
  BY DEF BuiltSet
<1>2. p.source \in Sources /\ p.length \in Nat \ {0} /\ p.start \in Nat
  BY PieceIs
<1>3. q \in PieceSet
  BY <1>1, <1>2, PieceIs DEF Sources
<1>4. /\ r.added = IF p.source = "added" THEN b \o Z ELSE b
      /\ r.pieces = MergedAt(Append(ps, q), Len(ps))
      /\ r = [added |-> r.added, pieces |-> r.pieces]
  BY DEF Repacked
<1>5. Z \in Seq(Byte) /\ Len(Z) = p.length
      /\ \A k \in 1..p.length : Z[k] = Buffer(t, p.source)[p.start + k]
  BY BytesOfIs
<1>6. /\ Run(p) \in Seq(PlaceSet) /\ Len(Run(p)) = p.length
      /\ \A k \in 1..p.length : Run(p)[k].source = p.source /\ Run(p)[k].at = p.start + k
  BY RunIs
<1>7. /\ Run(q) \in Seq(PlaceSet) /\ Len(Run(q)) = q.length
      /\ \A k \in 1..q.length : Run(q)[k].source = q.source /\ Run(q)[k].at = q.start + k
  BY <1>3, RunIs
<1> HIDE DEF r, b, ps, q, Z
<1>8. r.pieces \in Seq(PieceSet) /\ Places(r.pieces) = Places(ps) \o Run(q)
  <2>1. Append(ps, q) \in Seq(PieceSet) /\ Places(Append(ps, q)) = Places(ps) \o Run(q)
    BY <1>1, <1>3, AppendProperties, PlacesAppend
  <2>2. Len(ps) \in Int
    BY <1>1, LenProperties
  <2> QED
    BY <1>4, <2>1, <2>2, MergedIs
<1>9. r.added \in Seq(Byte)
  BY <1>1, <1>4, <1>5, ConcatProperties
<1>10. r \in BuiltSet
  BY <1>4, <1>8, <1>9 DEF BuiltSet
<1>11. Repacks(Places(ps), P, b, t.added)
  BY DEF ps, b
<1>12. CASE p.source = "original"
  <2>1. q = p /\ r.added = b
    BY <1>4, <1>12 DEF q
  <2>2. \A k \in 1..Len(Run(p)) : Run(p)[k].source = "original"
    BY <1>6, <1>12
  <2>3. Repacks(Places(ps) \o Run(p), P \o Run(p), b, t.added)
    BY <1>6, <1>11, <2>2, RepackOriginal
  <2> QED
    BY <1>8, <1>10, <2>1, <2>3 DEF r
<1>13. CASE p.source = "added"
  <2>1. r.added = b \o Z /\ q = Piece("added", Len(b), p.length)
    BY <1>4, <1>13 DEF q
  <2>2. q.source = "added" /\ q.start = Len(b) /\ q.length = p.length
    BY <2>1, PieceIs
  <2>3. Buffer(t, p.source) = t.added
    BY <1>13 DEF Buffer
  <2> DEFINE R == Run(p)
             N == Run(q)
  <2>4. /\ R \in Seq(PlaceSet) /\ N \in Seq(PlaceSet) /\ Len(N) = Len(R) /\ Len(Z) = Len(R)
        /\ \A k \in 1..Len(R) : /\ R[k].source = "added" /\ N[k].source = "added"
                                /\ N[k].at = Len(b) + k /\ Z[k] = t.added[R[k].at]
    BY <1>5, <1>6, <1>7, <1>13, <2>2, <2>3
  <2> HIDE DEF R, N
  <2>5. Repacks(Places(ps) \o N, P \o R, b \o Z, t.added)
    BY <1>5, <1>11, <2>4, RepackAdded
  <2> QED
    BY <1>8, <1>10, <2>1, <2>5 DEF r, R, N
<1> QED
  BY <1>2, <1>12, <1>13 DEF Sources

LEMMA CompactedSteps ==
  ASSUME NEW t, Bare(t)
  PROVE  \E f \in [0..Len(t.pieces) -> BuiltSet] :
           /\ f[0] = [added |-> <<>>, pieces |-> <<>>]
           /\ \A i \in 1..Len(t.pieces) : f[i] = Repacked(t, f[i - 1], t.pieces[i])
           /\ Compacted(t) = [t EXCEPT !.pieces = f[Len(t.pieces)].pieces,
                                       !.added = f[Len(t.pieces)].added,
                                       !.limit = Largest(2 * Len(f[Len(t.pieces)].pieces),
                                                         CompactMinPieces)]
<1> DEFINE n == Len(t.pieces)
           V == BuiltSet
           b == [added |-> <<>>, pieces |-> <<>>]
           With(i, v) == Repacked(t, v, t.pieces[i])
           Is(f) == f = [i \in 0..n |-> IF i = 0 THEN b ELSE With(i, f[i - 1])]
           step == [i \in 1..n |-> [v \in V |-> With(i, v)]]
           k == CHOOSE f : Is(f)
<1>0. t \in TableSet /\ t.pieces \in Seq(PieceSet)
  BY TableIs DEF Bare
<1>1. n \in Nat
  BY <1>0
<1>2. Compacted(t) = [t EXCEPT !.pieces = k[n].pieces, !.added = k[n].added,
                               !.limit = Largest(2 * Len(k[n].pieces), CompactMinPieces)]
  BY DEF Compacted
<1>3. b \in V
  BY DEF BuiltSet
<1>4. step \in Steps(n, V)
  <2>1. ASSUME NEW i \in 1..n, NEW v \in V PROVE With(i, v) \in V
    <3> DEFINE p == t.pieces[i]
               q == IF p.source = "added" THEN Piece("added", Len(v.added), p.length) ELSE p
               r == With(i, v)
    <3>1. p \in PieceSet /\ p.start + p.length <= Len(Buffer(t, p.source))
      BY FitsIs
    <3>2. v.added \in Seq(Byte) /\ v.pieces \in Seq(PieceSet) /\ Len(v.added) \in Nat
      BY DEF BuiltSet
    <3>3. BytesOf(t, p) \in Seq(Byte)
      BY <1>0, <3>1, BytesOfIs
    <3>4. q \in PieceSet
      BY <3>1, <3>2, PieceIs DEF Sources
    <3>5. /\ r.added = IF p.source = "added" THEN v.added \o BytesOf(t, p) ELSE v.added
          /\ r.pieces = MergedAt(Append(v.pieces, q), Len(v.pieces))
          /\ r = [added |-> r.added, pieces |-> r.pieces]
      BY DEF Repacked
    <3> HIDE DEF p, q, r
    <3>6. r.added \in Seq(Byte)
      BY <3>2, <3>3, <3>5, ConcatProperties
    <3>7. Append(v.pieces, q) \in Seq(PieceSet) /\ Len(v.pieces) \in Int
      BY <3>2, <3>4, AppendProperties, LenProperties
    <3>8. r.pieces \in Seq(PieceSet)
      BY <3>5, <3>7, MergedIs
    <3> QED
      BY <3>5, <3>6, <3>8 DEF r, BuiltSet
  <2> HIDE DEF V, n, With
  <2> QED
    BY <2>1 DEF Steps
<1> HIDE DEF n, V, k, b, With
<1>5. PICK f \in [0..n -> V] : f[0] = b /\ \A i \in 1..n : f[i] = step[i][f[i - 1]]
  <2> HIDE DEF step
  <2>1. \E f \in [0..n -> V] : Follows(f, n, b, step)
    BY <1>1, <1>3, <1>4, Recursion
  <2> QED
    BY <2>1 DEF Follows
<1>6. ASSUME NEW i \in 1..n PROVE f[i] = With(i, f[i - 1])
  <2>1. f[i - 1] \in V
    BY <1>1
  <2>2. f[i] = step[i][f[i - 1]]
    BY <1>5
  <2> QED
    BY <2>1, <2>2
<1>7. Is(f)
  BY <1>1, <1>5, <1>6
<1>8. Is(k)
  <2> HIDE DEF Is
  <2> QED
    BY <1>7 DEF k
<1>9. k[0] = b /\ \A i \in 1..n : k[i] = With(i, k[i - 1])
  BY <1>1, <1>8
<1>10. \A i \in 0..n : k[i] = f[i]
  <2> DEFINE T == {i \in 0..n : k[i] = f[i]}
  <2>1. 0 \in T
    BY <1>1, <1>5, <1>9
  <2>2. \A i \in 0..n - 1 : i \in T => i + 1 \in T
    BY <1>1, <1>6, <1>9
  <2> HIDE DEF T
  <2>3. \A i \in 0..n : i \in T
    BY <1>1, <2>1, <2>2, Climb
  <2> QED
    BY <2>3 DEF T
<1>11. k \in [0..n -> V]
  BY <1>8, <1>10
<1> QED
  BY <1>2, <1>9, <1>11 DEF n, V, b, With

LEMMA CompactedIs ==
  ASSUME NEW t, Bare(t)
  PROVE  LET u == Compacted(t)
         IN /\ u \in TableSet /\ u.original = t.original /\ u.length = t.length
            /\ Repacks(Places(u.pieces), Places(t.pieces), u.added, t.added)
            /\ Len(u.pieces) <= u.limit
<1> DEFINE n == Len(t.pieces)
           first(i) == SubSeq(t.pieces, 1, i)
           u == Compacted(t)
<1>0. t \in TableSet /\ t.pieces \in Seq(PieceSet) /\ n \in Nat
  BY TableIs DEF Bare
<1>1. PICK f \in [0..n -> BuiltSet] :
        /\ f[0] = [added |-> <<>>, pieces |-> <<>>]
        /\ \A i \in 1..n : f[i] = Repacked(t, f[i - 1], t.pieces[i])
        /\ u = [t EXCEPT !.pieces = f[n].pieces, !.added = f[n].added,
                         !.limit = Largest(2 * Len(f[n].pieces), CompactMinPieces)]
  BY CompactedSteps
<1> DEFINE Good(i) == Repacks(Places(f[i].pieces), Places(first(i)), f[i].added, t.added)
           T == {i \in 0..n : Good(i)}
<1> HIDE DEF u
<1>2. 0 \in T
  <2>1. f[0].pieces = <<>> /\ f[0].added = <<>> /\ first(0) = <<>>
    BY <1>1, SubSeqEmpty
  <2>2. AddedOnes(<<>>) = {}
    BY DEF AddedOnes
  <2>3. /\ <<>> \in Seq(PlaceSet) /\ <<>> \in Seq(Byte) /\ Len(<<>>) = 0
        /\ IsFiniteSet({}) /\ Cardinality({}) = 0
    BY FS_EmptySet
  <2>4. Repacks(<<>>, <<>>, <<>>, t.added)
    BY <2>2, <2>3 DEF Repacks
  <2>5. Good(0)
    BY <2>1, <2>4, PlacesEmpty
  <2> QED
    BY <1>0, <2>5
<1>3. ASSUME NEW i \in 0..n - 1, i \in T PROVE i + 1 \in T
  <2>1. i + 1 \in 1..n /\ (i + 1) - 1 = i /\ i \in 0..n /\ i + 1 \in 0..n
    BY <1>0
  <2>2. /\ t.pieces[i + 1] \in PieceSet
        /\ t.pieces[i + 1].start + t.pieces[i + 1].length <= Len(Buffer(t, t.pieces[i + 1].source))
    BY <2>1, FitsIs
  <2>3. f[i] \in BuiltSet /\ f[i + 1] = Repacked(t, f[i], t.pieces[i + 1])
    BY <1>1, <2>1
  <2>4. Places(first(i + 1)) = Places(first(i)) \o Run(t.pieces[i + 1])
    BY <1>0, <2>1, PlacesFirst
  <2>5. Good(i)
    BY <1>3
  <2> HIDE DEF first, n
  <2>6. Repacks(Places(f[i + 1].pieces), Places(first(i)) \o Run(t.pieces[i + 1]),
                f[i + 1].added, t.added)
    BY <1>0, <2>2, <2>3, <2>5, RepackedIs
  <2> QED
    BY <2>1, <2>4, <2>6
<1> HIDE DEF T
<1>4. \A i \in 0..n : i \in T
  BY <1>0, <1>2, <1>3, Climb
<1>5. n \in T /\ first(n) = t.pieces /\ f[n] \in BuiltSet
  BY <1>0, <1>1, <1>4, SubSeqFull
<1>6. Repacks(Places(f[n].pieces), Places(t.pieces), f[n].added, t.added)
  BY <1>5 DEF T
<1>7. f[n].pieces \in Seq(PieceSet) /\ f[n].added \in Seq(Byte)
  BY <1>5 DEF BuiltSet
<1> DEFINE l == Len(f[n].pieces)
           m == Largest(2 * l, CompactMinPieces)
<1>8. l \in Nat /\ CompactMinPieces \in Nat
  BY <1>7, LenProperties, CompactionBounds
<1> HIDE DEF l
<1>9. m \in Nat /\ l <= m
  BY <1>8 DEF Largest
<1> HIDE DEF m
<1>10. u = [t EXCEPT !.pieces = f[n].pieces, !.added = f[n].added, !.limit = m]
  BY <1>1 DEF m, l
<1> HIDE DEF n
<1>11. /\ u \in TableSet /\ u.original = t.original /\ u.length = t.length
       /\ u.pieces = f[n].pieces /\ u.added = f[n].added /\ u.limit = m
  BY <1>0, <1>7, <1>9, <1>10 DEF TableSet
<1> QED
  BY <1>6, <1>9, <1>11 DEF u, l

LEMMA CompactedSound ==
  ASSUME NEW t, Bare(t)
  PROVE  LET u == Compacted(t)
         IN /\ Sound(u) /\ u.original = t.original /\ u.length = t.length
            /\ Content(u) = Content(t)
<1> DEFINE u == Compacted(t)
           n == t.length
           P == Places(t.pieces)
           Q == Places(u.pieces)
<1>1. /\ u \in TableSet /\ u.original = t.original /\ u.length = n
      /\ Repacks(Q, P, u.added, t.added) /\ Len(u.pieces) <= u.limit
  BY CompactedIs
<1>2. /\ t \in TableSet /\ n = Len(P) /\ n \in Nat /\ P \in Seq(PlaceSet)
      /\ \A k \in 1..n : Within(t, P[k])
  BY TableIs DEF Bare
<1> HIDE DEF u, n, P, Q
<1>3. /\ Q \in Seq(PlaceSet) /\ Len(Q) = n
      /\ \A k \in 1..n :
           /\ Q[k].source = P[k].source
           /\ Q[k].source = "original" => Q[k] = P[k]
           /\ Q[k].source = "added" => Q[k].at <= Len(u.added) /\ u.added[Q[k].at] = t.added[P[k].at]
      /\ \A j, k \in 1..n :
           j < k /\ Q[j].source = "added" /\ Q[k].source = "added" => Q[j].at < Q[k].at
      /\ IsFiniteSet(AddedOnes(Q)) /\ Cardinality(AddedOnes(Q)) = Len(u.added)
  BY <1>1, <1>2 DEF Repacks
<1>4. \A k \in 1..n : Q[k].source \in Sources /\ Q[k].at \in Nat
  <2>1. \A k \in 1..n : Q[k] \in PlaceSet
    BY <1>3
  <2> QED
    BY <2>1 DEF PlaceSet
<1>5. ASSUME NEW k \in 1..n
      PROVE  Within(u, Q[k]) /\ ByteAt(u, Q[k]) = ByteAt(t, P[k])
  <2>1. CASE Q[k].source = "original"
    <3>1. /\ Q[k] = P[k] /\ Within(t, P[k])
          /\ Buffer(u, Q[k].source) = u.original /\ Buffer(t, P[k].source) = t.original
      BY <1>2, <1>3, <2>1 DEF Buffer
    <3> QED
      BY <1>1, <3>1 DEF Within, ByteAt
  <2>2. CASE Q[k].source = "added"
    <3>1. /\ Q[k].at <= Len(u.added) /\ u.added[Q[k].at] = t.added[P[k].at]
          /\ Buffer(u, Q[k].source) = u.added /\ Buffer(t, P[k].source) = t.added
      BY <1>3, <2>2 DEF Buffer
    <3> QED
      BY <3>1 DEF Within, ByteAt
  <2> QED
    BY <1>4, <2>1, <2>2 DEF Sources
<1>6. Apart(u)
  <2> SUFFICES ASSUME NEW j \in 1..n, NEW k \in 1..n, j # k, Q[j] = Q[k]
               PROVE  Q[j].source = "original"
    BY <1>1, <1>2, <1>3, ApartIs DEF Q
  <2>1. j < k \/ k < j
    BY <1>2
  <2>2. Q[j].source # "added"
    BY <1>3, <1>4, <2>1
  <2> QED
    BY <1>4, <2>2 DEF Sources
<1>7. Bare(u)
  BY <1>1, <1>3, <1>5, <1>6 DEF Bare, Q
<1>8. Content(u) = Content(t)
  <2>1. /\ Content(t) \in Seq(Byte) /\ Len(Content(t)) = n
        /\ \A k \in 1..n : Content(t)[k] = ByteAt(t, P[k])
    BY ContentIs DEF n, P
  <2> DEFINE c == Content(t)
  <2>2. /\ c \in Seq(Byte) /\ Len(c) = u.length
        /\ \A k \in 1..u.length : ByteAt(u, Places(u.pieces)[k]) = c[k]
    BY <1>1, <1>5, <2>1 DEF Q
  <2> HIDE DEF c
  <2>3. Content(u) = c
    BY <1>7, <2>2, Contents
  <2> QED
    BY <2>3 DEF c
<1>9. ~Bloated(u)
  <2>1. Live(u.pieces) = Len(u.added)
    BY <1>3 DEF Live, AddedOnes, Q
  <2>2. Len(u.added) \in Nat /\ CompactSlack \in Nat
    BY <1>1, TableIs, CompactionBounds
  <2> QED
    BY <2>1, <2>2 DEF Bloated
<1> QED
  BY <1>1, <1>7, <1>8, <1>9 DEF Sound, n, u

LEMMA MaybeSound ==
  ASSUME NEW t, Bare(t)
  PROVE  LET u == MaybeCompacted(t)
         IN /\ Sound(u) /\ u.original = t.original /\ u.length = t.length
            /\ Content(u) = Content(t)
<1>1. CASE Bloated(t) \/ Len(t.pieces) > t.limit
  BY <1>1, CompactedSound DEF MaybeCompacted
<1>2. CASE ~(Bloated(t) \/ Len(t.pieces) > t.limit)
  <2>1. t \in TableSet
    BY DEF Bare
  <2>2. Len(t.pieces) \in Nat /\ t.limit \in Nat
    BY <2>1, TableIs, LenProperties
  <2> QED
    BY <1>2, <2>2 DEF MaybeCompacted, Sound
<1> QED
  BY <1>1, <1>2

-------------------------------------------------------------------------------
(* A sound table that holds the bytes c, over the original bytes o.        *)
Holds(t, c, o) == Sound(t) /\ Content(t) = c /\ t.original = o

LEMMA HoldsIs ==
  ASSUME NEW t, NEW c, NEW o, Holds(t, c, o)
  PROVE  /\ Bare(t) /\ t \in TableSet /\ c \in Seq(Byte) /\ o \in Seq(Byte)
         /\ t.length = Len(c) /\ Len(c) \in Nat
         /\ ~Bloated(t) /\ Len(t.pieces) <= t.limit
<1>1. Bare(t) /\ t \in TableSet /\ Content(t) = c /\ t.original = o
      /\ ~Bloated(t) /\ Len(t.pieces) <= t.limit
  BY DEF Holds, Sound, Bare
<1>2. /\ Content(t) \in Seq(Byte) /\ Len(Content(t)) = t.length /\ t.length \in Nat
  BY <1>1, ContentIs
<1>3. t.original \in Seq(Byte)
  BY <1>1, TableIs
<1> QED
  BY <1>1, <1>2, <1>3

LEMMA FreshIs ==
  ASSUME NEW data \in Seq(Byte)
  PROVE  Holds(Fresh(data), data, data)
<1> DEFINE t == Fresh(data)
           n == Len(data)
           p == Piece("original", 0, n)
           P == Places(t.pieces)
<1>1. n \in Nat /\ CompactMinPieces \in Nat \ {0} /\ CompactSlack \in Nat
  BY LenProperties, CompactionBounds
<1>2. /\ t.pieces = IF data = <<>> THEN <<>> ELSE <<p>>
      /\ t.original = data /\ t.added = <<>> /\ t.length = n /\ t.limit = CompactMinPieces
      /\ t = [pieces |-> t.pieces, original |-> data, added |-> <<>>,
              length |-> n, limit |-> CompactMinPieces]
  BY DEF Fresh
<1>3. <<>> \in Seq(PieceSet) /\ <<>> \in Seq(PlaceSet) /\ <<>> \in Seq(Byte) /\ Len(<<>>) = 0
  OBVIOUS
<1> HIDE DEF t, n, p, P
<1>4. /\ t.pieces \in Seq(PieceSet) /\ Len(t.pieces) <= 1 /\ Len(t.pieces) \in Nat
      /\ P \in Seq(PlaceSet) /\ Len(P) = n
      /\ \A k \in 1..n : P[k].source = "original" /\ P[k].at = k
  <2>1. CASE data = <<>>
    <3>1. t.pieces = <<>> /\ n = 0 /\ P = <<>>
      BY <1>2, <2>1, PlacesEmpty DEF n, P
    <3> QED
      BY <1>3, <3>1
  <2>2. CASE data # <<>>
    <3>1. n \in Nat \ {0}
      BY <2>2, EmptySeq DEF n
    <3>2. p \in PieceSet /\ p.source = "original" /\ p.start = 0 /\ p.length = n
      BY <3>1, PieceIs DEF p, Sources
    <3>3. t.pieces = <<p>> /\ <<p>> \in Seq(PieceSet) /\ P = Run(p) /\ Len(<<p>>) = 1
      BY <1>2, <2>2, <3>2, PlacesOne DEF P
    <3>4. /\ Run(p) \in Seq(PlaceSet) /\ Len(Run(p)) = n
          /\ \A k \in 1..n : Run(p)[k].source = "original" /\ Run(p)[k].at = 0 + k
      BY <3>2, RunIs
    <3>5. \A k \in 1..n : 0 + k = k
      BY <1>1
    <3> QED
      BY <3>3, <3>4, <3>5
  <2> QED
    BY <2>1, <2>2
<1>5. t \in TableSet
  BY <1>1, <1>2, <1>3, <1>4 DEF TableSet
<1>6. ASSUME NEW k \in 1..n PROVE Within(t, P[k]) /\ ByteAt(t, P[k]) = data[k]
  BY <1>1, <1>2, <1>4 DEF Within, ByteAt, Buffer, n
<1>7. Apart(t)
  BY <1>1, <1>2, <1>4, <1>5, ApartIs DEF P
<1>8. Bare(t)
  BY <1>2, <1>4, <1>5, <1>6, <1>7 DEF Bare, P
<1>9. Content(t) = data
  BY <1>2, <1>6, <1>8, Contents DEF P, n
<1>10. ~Bloated(t)
  <2>1. DOMAIN P = 1..n
    BY <1>4
  <2> DEFINE A == {k \in DOMAIN P : P[k].source = "added"}
  <2>2. A = {}
    BY <1>4, <2>1
  <2>3. Live(t.pieces) = 0
    BY <2>2, FS_EmptySet DEF Live, P
  <2> QED
    BY <1>1, <1>2, <1>3, <2>3 DEF Bloated
<1>11. Len(t.pieces) <= t.limit
  BY <1>1, <1>2, <1>4
<1> QED
  BY <1>2, <1>8, <1>9, <1>10, <1>11 DEF Holds, Sound, t

(* Nothing spliced, nothing cut, nothing written.                          *)
LEMMA Nothing ==
  ASSUME NEW c \in Seq(Byte), NEW offset \in 0..Len(c)
  PROVE  Splice(c, offset, <<>>) = c /\ Cut(c, offset, offset) = c
<1> DEFINE x == <<>>
           s == Splice(c, offset, x)
           d == Cut(c, offset, offset)
<1>1. Len(c) \in Nat /\ x \in Seq(Byte) /\ Len(x) = 0 /\ offset \in offset..Len(c)
  BY LenProperties
<1> HIDE DEF x
<1>2. /\ s \in Seq(Byte) /\ Len(s) = Len(c) + Len(x)
      /\ \A k \in 1..Len(c) + Len(x) :
           s[k] = IF k <= offset THEN c[k]
                  ELSE IF k <= offset + Len(x) THEN x[k - offset] ELSE c[k - Len(x)]
  <2>1. x \in Seq(Byte)
    BY <1>1
  <2>2. \A y \in Seq(Byte) : Splice(c, offset, y) \in Seq(Byte)
    BY SpliceIs
  <2>3. \A y \in Seq(Byte) : Len(Splice(c, offset, y)) = Len(c) + Len(y)
    BY SpliceIs
  <2>4. \A y \in Seq(Byte) : \A k \in 1..Len(c) + Len(y) :
          Splice(c, offset, y)[k] = IF k <= offset THEN c[k]
                                    ELSE IF k <= offset + Len(y) THEN y[k - offset] ELSE c[k - Len(y)]
    BY SpliceIs
  <2> QED
    BY <2>1, <2>2, <2>3, <2>4
<1>3. /\ d \in Seq(Byte) /\ Len(d) = Len(c) - (offset - offset)
      /\ \A k \in 1..Len(c) - (offset - offset) :
           d[k] = IF k <= offset THEN c[k] ELSE c[k + (offset - offset)]
  <2>1. \A e \in offset..Len(c) : Cut(c, offset, e) \in Seq(Byte)
    BY CutIs
  <2>2. \A e \in offset..Len(c) : Len(Cut(c, offset, e)) = Len(c) - (e - offset)
    BY CutIs
  <2>3. \A e \in offset..Len(c) : \A k \in 1..Len(c) - (e - offset) :
          Cut(c, offset, e)[k] = IF k <= offset THEN c[k] ELSE c[k + (e - offset)]
    BY CutIs
  <2> QED
    BY <1>1, <2>1, <2>2, <2>3
<1> HIDE DEF s, d
<1>4. Len(s) = Len(c) /\ \A k \in 1..Len(s) : s[k] = c[k]
  BY <1>1, <1>2
<1>5. Len(d) = Len(c) /\ \A k \in 1..Len(d) : d[k] = c[k]
  BY <1>1, <1>3
<1>6. s = c
  BY <1>2, <1>4, SeqEqual
<1>7. d = c
  BY <1>3, <1>5, SeqEqual
<1> QED
  BY <1>6, <1>7 DEF s, d, x

LEMMA InsertedIs ==
  ASSUME NEW t, NEW c, NEW o, Holds(t, c, o), NEW offset \in 0..Len(c), NEW data \in Seq(Byte)
  PROVE  Holds(Inserted(t, offset, data), Splice(c, offset, data), o)
<1>1. /\ Bare(t) /\ t \in TableSet /\ c \in Seq(Byte) /\ t.length = Len(c) /\ Len(c) \in Nat
      /\ Content(t) = c /\ t.original = o
  BY HoldsIs DEF Holds
<1>2. CASE data = <<>>
  BY <1>1, <1>2, Nothing DEF Inserted
<1>3. CASE data # <<>>
  <2> DEFINE n == t.length
             d == Len(data)
             e == Len(t.added)
             new == Piece("added", e, d)
             left == Upto(t, offset)
             right == Onward(t, offset)
             all == left \o <<new>> \o right
             ps == Coalesced(all, Len(left) + 1)
             u == [t EXCEPT !.pieces = ps, !.added = @ \o data, !.length = @ + d]
  <2>1. Inserted(t, offset, data) = MaybeCompacted(u)
    BY <1>3 DEF Inserted
  <2>2. /\ t.pieces \in Seq(PieceSet) /\ t.added \in Seq(Byte) /\ e \in Nat /\ n \in Nat
        /\ Places(t.pieces) \in Seq(PlaceSet) /\ n = Len(Places(t.pieces)) /\ n = Total(t.pieces)
    BY <1>1, TableIs DEF Bare, Total
  <2>3. d \in Nat \ {0}
    BY <1>3, EmptySeq
  <2>4. new \in PieceSet
    BY <2>2, <2>3, PieceIs DEF Sources
  <2>5. /\ left \in Seq(PieceSet) /\ right \in Seq(PieceSet)
        /\ Places(left) = SubSeq(Places(t.pieces), 1, offset)
        /\ Places(right) = SubSeq(Places(t.pieces), offset + 1, n)
    BY <1>1, <2>2, SidesAre
  <2> HIDE DEF left, right, new, d, e
  <2>6. /\ <<new>> \in Seq(PieceSet) /\ Places(<<new>>) = Run(new)
    BY <2>4, PlacesOne
  <2>7. left \o <<new>> \in Seq(PieceSet)
        /\ Places(left \o <<new>>) = Places(left) \o Run(new)
    BY <2>5, <2>6, PlacesConcat, ConcatProperties
  <2> DEFINE ln == left \o <<new>>
  <2> HIDE DEF ln
  <2>8. all = ln \o right
    BY DEF ln
  <2>9. all \in Seq(PieceSet) /\ Places(all) = Places(ln) \o Places(right)
    BY <2>5, <2>7, <2>8, PlacesConcat, ConcatProperties DEF ln
  <2>10. Len(left) + 1 \in Int
    BY <2>5, LenProperties
  <2> HIDE DEF all
  <2>11. ps \in Seq(PieceSet) /\ Places(ps) = Places(all)
    BY <2>9, <2>10, CoalescedIs
  <2> HIDE DEF ps
  <2>12. t.added \o data \in Seq(Byte)
    BY <2>2, ConcatProperties
  <2> DEFINE add == t.added \o data
  <2>13. /\ u \in TableSet /\ u.original = t.original /\ u.added = t.added \o data
         /\ u.length = n + d /\ u.pieces = ps
    <3>1. add \in Seq(Byte) /\ n + d \in Nat
      BY <2>2, <2>3, <2>12
    <3>2. u = [t EXCEPT !.pieces = ps, !.added = add, !.length = n + d]
      OBVIOUS
    <3> HIDE DEF u, add, n
    <3>3. u \in TableSet /\ u.original = t.original /\ u.added = add /\ u.length = n + d /\ u.pieces = ps
      BY <1>1, <2>11, <3>1, <3>2 DEF TableSet
    <3> QED
      BY <3>3 DEF add
  <2> HIDE DEF u
  <2>14. Places(u.pieces) = Splice(Places(t.pieces), offset, Run(Piece("added", Len(t.added), Len(data))))
    BY <2>2, <2>5, <2>7, <2>9, <2>11, <2>13 DEF Splice, ln, new, d, e
  <2>15. u.length = t.length + Len(data) /\ offset \in 0..t.length
    BY <1>1, <2>13 DEF d
  <2>16. Bare(u) /\ Content(u) = Splice(Content(t), offset, data)
    BY <1>1, <1>3, <2>13, <2>14, <2>15, SplicedTable
  <2>17. LET v == MaybeCompacted(u)
         IN Sound(v) /\ v.original = u.original /\ v.length = u.length /\ Content(v) = Content(u)
    BY <2>16, MaybeSound
  <2> QED
    BY <1>1, <2>1, <2>13, <2>16, <2>17 DEF Holds
<1> QED
  BY <1>2, <1>3

LEMMA DeletedIs ==
  ASSUME NEW t, NEW c, NEW o, Holds(t, c, o), NEW offset \in 0..Len(c), NEW n \in 0..Len(c) - offset
  PROVE  Holds(Deleted(t, offset, n), Cut(c, offset, offset + n), o)
<1>1. /\ Bare(t) /\ t \in TableSet /\ c \in Seq(Byte) /\ t.length = Len(c) /\ Len(c) \in Nat
      /\ Content(t) = c /\ t.original = o
  BY HoldsIs DEF Holds
<1>2. CASE n = 0 \/ offset >= t.length
  <2>1. n = 0 /\ offset + n = offset
    BY <1>1, <1>2
  <2> QED
    BY <1>1, <2>1, Nothing DEF Deleted
<1>3. CASE ~(n = 0 \/ offset >= t.length)
  <2> DEFINE end == offset + n
             left == Upto(t, offset)
             right == Onward(t, end)
             all == left \o right
             ps == Coalesced(all, Len(left))
             u == [t EXCEPT !.pieces = ps, !.length = @ - (end - offset)]
  <2>1. Smallest(offset + n, t.length) = end
    BY <1>1 DEF Smallest
  <2>2. Deleted(t, offset, n) = MaybeCompacted(u)
    BY <1>3, <2>1 DEF Deleted
  <2>3. /\ t.pieces \in Seq(PieceSet) /\ t.added \in Seq(Byte)
        /\ Places(t.pieces) \in Seq(PlaceSet) /\ t.length = Len(Places(t.pieces))
        /\ t.length = Total(t.pieces)
    BY <1>1, TableIs DEF Bare, Total
  <2>4. offset \in 0..t.length /\ end \in 0..t.length /\ end \in offset..t.length
    BY <1>1
  <2>5. /\ left \in Seq(PieceSet) /\ right \in Seq(PieceSet)
        /\ Places(left) = SubSeq(Places(t.pieces), 1, offset)
        /\ Places(right) = SubSeq(Places(t.pieces), end + 1, t.length)
    <3> HIDE DEF end
    <3> QED
      BY <1>1, <2>3, <2>4, SidesAre
  <2> HIDE DEF left, right, end
  <2>6. all \in Seq(PieceSet) /\ Places(all) = Places(left) \o Places(right)
    BY <2>5, PlacesConcat, ConcatProperties
  <2>7. Len(left) \in Int
    BY <2>5, LenProperties
  <2> HIDE DEF all
  <2>8. ps \in Seq(PieceSet) /\ Places(ps) = Places(all)
    BY <2>6, <2>7, CoalescedIs
  <2> HIDE DEF ps
  <2>9. t.length - (end - offset) \in Nat
    BY <1>1, <2>4
  <2>10. /\ u \in TableSet /\ u.original = t.original /\ u.added = t.added
         /\ u.length = t.length - (end - offset) /\ u.pieces = ps
    BY <1>1, <2>3, <2>8, <2>9 DEF TableSet
  <2> HIDE DEF u
  <2>11. Places(u.pieces) = Cut(Places(t.pieces), offset, end)
    BY <2>3, <2>5, <2>6, <2>8, <2>10 DEF Cut
  <2>12. Bare(u) /\ Content(u) = Cut(Content(t), offset, end)
    BY <1>1, <2>4, <2>10, <2>11, CutTable
  <2>13. LET v == MaybeCompacted(u)
         IN Sound(v) /\ v.original = u.original /\ v.length = u.length /\ Content(v) = Content(u)
    BY <2>12, MaybeSound
  <2> QED
    BY <1>1, <2>2, <2>10, <2>12, <2>13 DEF Holds, end
<1> QED
  BY <1>2, <1>3

-------------------------------------------------------------------------------
(* Bytes written over a range, where they lie or cut out and inserted.     *)
LEMMA PatchedIs ==
  ASSUME NEW c \in Seq(Byte), NEW data \in Seq(Byte), NEW start \in Nat
  PROVE  /\ Patched(c, start, data) \in Seq(Byte)
         /\ Len(Patched(c, start, data)) = Len(c)
         /\ \A k \in 1..Len(c) :
              Patched(c, start, data)[k] = IF start < k /\ k <= start + Len(data)
                                           THEN data[k - start] ELSE c[k]
<1> DEFINE n == Len(c)
           d == Len(data)
           e(k) == IF k \in (start + 1)..(start + d) THEN data[k - start] ELSE c[k]
           r == [k \in 1..n |-> e(k)]
<1>1. n \in Nat /\ d \in Nat /\ DOMAIN c = 1..n
  BY LenProperties
<1>2. Patched(c, start, data) = r
  BY <1>1 DEF Patched
<1> HIDE DEF n, d
<1>3. ASSUME NEW k \in 1..n
      PROVE  e(k) \in Byte /\ e(k) = IF start < k /\ k <= start + d THEN data[k - start] ELSE c[k]
  <2>1. c[k] \in Byte
    BY DEF n
  <2>2. CASE k \in (start + 1)..(start + d)
    <3>1. k - start \in 1..d /\ start < k /\ k <= start + d
      BY <1>1, <2>2
    <3>2. data[k - start] \in Byte
      BY <3>1 DEF d
    <3> QED
      BY <2>2, <3>1, <3>2
  <2>3. CASE ~(k \in (start + 1)..(start + d))
    <3>1. ~(start < k /\ k <= start + d)
      BY <1>1, <2>3
    <3> QED
      BY <2>1, <2>3, <3>1
  <2> QED
    BY <2>2, <2>3
<1> HIDE DEF e
<1>4. r \in Seq(Byte) /\ Len(r) = n
  BY <1>1, <1>3, IsASeq
<1>5. \A k \in 1..n : r[k] = IF start < k /\ k <= start + d THEN data[k - start] ELSE c[k]
  BY <1>3
<1> QED
  BY <1>2, <1>4, <1>5 DEF n, d

IsPatched(z, c, start, data) ==
  /\ z \in Seq(Byte) /\ Len(z) = Len(c)
  /\ \A k \in 1..Len(c) :
       z[k] = IF start < k /\ k <= start + Len(data) THEN data[k - start] ELSE c[k]

LEMMA PatchedAs ==
  ASSUME NEW c \in Seq(Byte), NEW data \in Seq(Byte), NEW start \in Nat
  PROVE  IsPatched(Patched(c, start, data), c, start, data)
BY PatchedIs DEF IsPatched

LEMMA PlaceOf ==
  ASSUME NEW ps \in Seq(PieceSet), NEW i \in 1..Len(ps), NEW y \in 1..ps[i].length
  PROVE  LET k == Total(SubSeq(ps, 1, i - 1)) + y
         IN /\ k \in 1..Len(Places(ps))
            /\ Places(ps)[k].source = ps[i].source /\ Places(ps)[k].at = ps[i].start + y
<1> DEFINE p == ps[i]
           P == Places(ps)
           a == SubSeq(ps, 1, i - 1)
           A == Places(a)
           R == Run(p)
           B == Places(SubSeq(ps, i + 1, Len(ps)))
           AR == A \o R
           k == Len(A) + y
<1>1. A \in Seq(PlaceSet) /\ B \in Seq(PlaceSet) /\ p \in PieceSet /\ P = AR \o B /\ Total(a) = Len(A)
  BY Around, PlacesType
<1>2. /\ R \in Seq(PlaceSet) /\ Len(R) = p.length /\ p.length \in Nat \ {0}
      /\ \A x \in 1..p.length : R[x].source = p.source /\ R[x].at = p.start + x
  BY <1>1, RunIs, PieceIs
<1>3. y \in 1..p.length
  OBVIOUS
<1> HIDE DEF p, P, A, R, B, a
<1>4. Len(A) \in Nat /\ Len(B) \in Nat
  BY <1>1, LenProperties
<1>5. /\ AR \in Seq(PlaceSet) /\ Len(AR) = Len(A) + Len(R)
      /\ \A x \in 1..Len(A) + Len(R) : AR[x] = IF x <= Len(A) THEN A[x] ELSE R[x - Len(A)]
  <2>1. IsJoin(AR, PlaceSet, A, R)
    BY <1>1, <1>2, Joined
  <2> QED
    BY <2>1 DEF IsJoin
<1> HIDE DEF AR
<1>6. /\ Len(P) = Len(AR) + Len(B)
      /\ \A x \in 1..Len(AR) + Len(B) : P[x] = IF x <= Len(AR) THEN AR[x] ELSE B[x - Len(AR)]
  <2>1. AR \in Seq(PlaceSet) /\ B \in Seq(PlaceSet)
    BY <1>1, <1>5
  <2>2. /\ Len(AR \o B) = Len(AR) + Len(B)
        /\ \A x \in 1..Len(AR) + Len(B) : (AR \o B)[x] = IF x <= Len(AR) THEN AR[x] ELSE B[x - Len(AR)]
    BY <2>1, ConcatProperties
  <2> QED
    BY <1>1, <2>2
<1>7. /\ k \in 1..Len(A) + Len(R) /\ k \in 1..Len(AR) + Len(B) /\ k <= Len(AR)
      /\ ~(k <= Len(A)) /\ k - Len(A) = y /\ k \in 1..Len(P)
  <2> DEFINE l == p.length
             la == Len(A)
             lb == Len(B)
  <2>1. l \in Nat /\ y \in 1..l /\ la \in Nat /\ lb \in Nat
        /\ Len(R) = l /\ Len(AR) = la + l /\ Len(P) = la + l + lb
    BY <1>2, <1>3, <1>4, <1>5, <1>6
  <2> HIDE DEF l, la, lb
  <2>2. la + y \in 1..la + l /\ la + y \in 1..la + l + lb /\ ~(la + y <= la) /\ (la + y) - la = y
    BY <2>1
  <2>3. k = la + y
    BY DEF la
  <2> QED
    BY <2>1, <2>2, <2>3 DEF la, lb
<1> HIDE DEF k
<1>8. P[k] = R[y]
  BY <1>5, <1>6, <1>7
<1>9. P[k].source = p.source /\ P[k].at = p.start + y
  BY <1>2, <1>3, <1>8
<1> QED
  BY <1>1, <1>7, <1>9 DEF k, p, P, a

(* Bytes of the add buffer that one piece alone reads, written in place.   *)
LEMMA PatchedTable ==
  ASSUME NEW t, NEW c, NEW o, Holds(t, c, o), NEW offset \in 0..Len(c),
         NEW data \in Seq(Byte), Len(data) <= Len(c) - offset, offset < Len(c),
         InPlace(t.pieces, Located(t.pieces, offset), Len(data))
  PROVE  LET at == Located(t.pieces, offset)
         IN Holds([t EXCEPT !.added = Patched(@, t.pieces[at.piece].start + at.inner, data)],
                  Patched(c, offset, data), o)
<1> DEFINE ps == t.pieces
           at == Located(ps, offset)
           i == at.piece
           x == at.inner
           p == ps[i]
           d == Len(data)
           n == t.length
           start == p.start + x
           A == t.added
           B == Patched(A, start, data)
           u == [t EXCEPT !.added = B]
           P == Places(ps)
           s == Patched(c, offset, data)
<1>1. /\ Bare(t) /\ t \in TableSet /\ c \in Seq(Byte) /\ t.length = Len(c) /\ Len(c) \in Nat
      /\ Content(t) = c /\ t.original = o /\ ~Bloated(t) /\ Len(t.pieces) <= t.limit
  BY HoldsIs DEF Holds
<1>2. /\ ps \in Seq(PieceSet) /\ A \in Seq(Byte) /\ Len(A) \in Nat /\ P \in Seq(PlaceSet)
      /\ n = Len(P) /\ n = Total(ps) /\ n \in Nat
      /\ \A k \in 1..n : Within(t, P[k])
  BY <1>1, TableIs DEF Bare, Total
<1>3. /\ i \in 1..Len(ps) /\ x \in Nat /\ x < p.length
      /\ offset = Total(SubSeq(ps, 1, i - 1)) + x
  <2>1. offset \in Nat /\ offset < Total(ps)
    BY <1>1, <1>2
  <2> QED
    BY <1>2, <2>1, LocatedIs
<1>4. p.source = "added" /\ x + d <= p.length
  BY DEF InPlace
<1>5. d \in Nat
  BY LenProperties
<1>6. p \in PieceSet /\ p.start \in Nat /\ p.length \in Nat \ {0} /\ p.start + p.length <= Len(A)
  <2>1. p \in PieceSet /\ p.start + p.length <= Len(Buffer(t, p.source))
    BY <1>1, <1>3, FitsIs
  <2>2. Buffer(t, p.source) = A
    BY <1>4 DEF Buffer
  <2> QED
    BY <2>1, <2>2, PieceIs
<1>7. ASSUME NEW j \in 1..d
      PROVE  offset + j \in 1..n /\ P[offset + j].source = "added" /\ P[offset + j].at = start + j
  <2>1. x + j \in 1..p.length
    <3> DEFINE l == p.length
    <3>1. x \in Nat /\ l \in Nat /\ d \in Nat /\ x + d <= l
      BY <1>3, <1>4, <1>5, <1>6
    <3> HIDE DEF l, x, d
    <3>2. x + j \in 1..l
      BY <3>1
    <3> QED
      BY <3>2 DEF l
  <2> DEFINE m == Total(SubSeq(ps, 1, i - 1))
  <2>2. LET k == m + (x + j)
        IN k \in 1..Len(P) /\ P[k].source = p.source /\ P[k].at = p.start + (x + j)
    <3> HIDE DEF i, x
    <3> QED
      BY <1>2, <1>3, <2>1, PlaceOf
  <2>3. m \in Nat
    <3>1. SubSeq(ps, 1, i - 1) \in Seq(PieceSet)
      BY <1>2, <1>3, Around
    <3> QED
      BY <3>1, PlacesType
  <2>4. offset = m + x
    BY <1>3
  <2> HIDE DEF m, at, i, x, p
  <2>5. m + (x + j) = offset + j /\ p.start + (x + j) = start + j
    <3>1. x \in Nat /\ p.start \in Nat /\ j \in Nat
      BY <1>3, <1>5, <1>6
    <3> QED
      BY <2>3, <2>4, <3>1
  <2> QED
    BY <1>2, <1>4, <2>2, <2>5
<1>8. start \in Nat /\ start + d <= Len(A)
  <2> DEFINE l == p.length
             b == p.start
             la == Len(A)
  <2>1. x \in Nat /\ l \in Nat /\ d \in Nat /\ x + d <= l /\ b \in Nat /\ b + l <= la /\ la \in Nat
    BY <1>2, <1>3, <1>4, <1>5, <1>6
  <2> HIDE DEF l, x, d, b, la
  <2>2. b + x \in Nat /\ (b + x) + d <= la
    BY <2>1
  <2> QED
    BY <2>2 DEF b, la
<1> HIDE DEF ps, at, i, x, p, d, n, start, A, P, s
<1>9. /\ B \in Seq(Byte) /\ Len(B) = Len(A)
      /\ \A k \in 1..Len(A) : B[k] = IF start < k /\ k <= start + d THEN data[k - start] ELSE A[k]
  BY <1>2, <1>8, PatchedIs DEF d
<1>10. /\ s \in Seq(Byte) /\ Len(s) = n
       /\ \A k \in 1..n : s[k] = IF offset < k /\ k <= offset + d THEN data[k - offset] ELSE c[k]
  <2>1. offset \in Nat
    BY <1>1
  <2>2. /\ s \in Seq(Byte) /\ Len(s) = Len(c)
        /\ \A k \in 1..Len(c) : s[k] = IF offset < k /\ k <= offset + d THEN data[k - offset] ELSE c[k]
    BY <1>1, <2>1, PatchedIs DEF s, d
  <2>3. n = Len(c)
    BY <1>1 DEF n
  <2> QED
    BY <2>2, <2>3
<1> HIDE DEF B
<1>11. /\ u \in TableSet /\ u.pieces = ps /\ u.original = t.original /\ u.added = B
       /\ u.length = n /\ u.limit = t.limit
  BY <1>1, <1>9 DEF TableSet, ps, n
<1> HIDE DEF u
<1>12. /\ \A k \in 1..n : c[k] = ByteAt(t, P[k])
  BY <1>1, ContentIs DEF n, P, ps
<1>13. \A j, k \in 1..n : j # k /\ P[j] = P[k] => P[j].source = "original"
  <2>1. Apart(t) /\ n = Len(Places(t.pieces))
    BY <1>1, <1>2 DEF Bare, P, ps
  <2> QED
    BY <1>1, <1>2, <2>1, ApartIs DEF P, ps
<1>14. ASSUME NEW k \in 1..n
       PROVE  Within(u, P[k]) /\ ByteAt(u, P[k]) = s[k]
  <2>1. P[k] \in PlaceSet /\ Within(t, P[k]) /\ P[k].at \in Nat \ {0} /\ P[k].source \in Sources
    <3>1. P \in Seq(PlaceSet) /\ k \in 1..Len(P) /\ Within(t, P[k])
      BY <1>2
    <3>2. P[k] \in PlaceSet
      BY <3>1, ElementOfSeq
    <3> QED
      BY <3>1, <3>2 DEF PlaceSet
  <2>2. CASE offset < k /\ k <= offset + d
    <3>1. k - offset \in 1..d /\ offset + (k - offset) = k
      BY <1>1, <1>2, <1>5, <2>2
    <3>2. P[k].source = "added" /\ P[k].at = start + (k - offset)
      BY <1>7, <3>1
    <3> DEFINE y == P[k].at
               j == k - offset
    <3>3. j \in 1..d /\ y = start + j
      BY <3>1, <3>2
    <3> HIDE DEF y, j
    <3>4. y \in 1..Len(A) /\ start < y /\ y <= start + d /\ y - start = j
      BY <1>2, <1>5, <1>8, <3>3
    <3>5. B[y] = data[j]
      BY <1>9, <3>4
    <3>6. s[k] = data[j]
      BY <1>10, <2>2 DEF j
    <3> QED
      BY <1>9, <1>11, <3>2, <3>4, <3>5, <3>6 DEF Within, ByteAt, Buffer, y
  <2>3. CASE ~(offset < k /\ k <= offset + d)
    <3>1. s[k] = c[k] /\ c[k] = ByteAt(t, P[k])
      BY <1>10, <1>12, <2>3
    <3>2. CASE P[k].source = "original"
      BY <1>11, <2>1, <3>1, <3>2 DEF Within, ByteAt, Buffer
    <3>3. CASE P[k].source = "added"
      <4> DEFINE y == P[k].at
      <4>1. y <= Len(A) /\ y \in Nat \ {0} /\ ByteAt(t, P[k]) = A[y]
        BY <2>1, <3>3 DEF Within, ByteAt, Buffer, A
      <4>2. ~(start < y /\ y <= start + d)
        <5>1. SUFFICES ASSUME start < y /\ y <= start + d PROVE FALSE
          OBVIOUS
        <5> DEFINE j == y - start
        <5>2. j \in 1..d /\ start + j = y
          <6>1. start \in Nat /\ d \in Nat /\ y \in Nat
            BY <1>5, <1>8, <4>1
          <6> HIDE DEF y
          <6> QED
            BY <5>1, <6>1
        <5> HIDE DEF j
        <5>3. offset + j \in 1..n /\ P[offset + j].source = "added" /\ P[offset + j].at = y
          BY <1>7, <5>2
        <5>4. P[offset + j] \in PlaceSet
          <6>1. P \in Seq(PlaceSet) /\ offset + j \in 1..Len(P)
            BY <1>2, <5>3
          <6> QED
            BY <6>1, ElementOfSeq
        <5>5. P[offset + j] = P[k]
          BY <2>1, <3>3, <5>3, <5>4 DEF PlaceSet
        <5>6. offset + j # k
          BY <1>1, <1>5, <2>3, <5>2
        <5> QED
          BY <1>13, <3>3, <5>3, <5>5, <5>6
      <4> HIDE DEF y
      <4>3. y \in 1..Len(A) /\ B[y] = A[y]
        BY <1>2, <1>9, <4>1, <4>2
      <4> QED
        BY <1>9, <1>11, <3>1, <3>3, <4>1, <4>3 DEF Within, ByteAt, Buffer, y
    <3> QED
      BY <2>1, <3>2, <3>3 DEF Sources
  <2> QED
    BY <2>2, <2>3
<1>15. Apart(u)
  BY <1>2, <1>11, <1>13, ApartIs DEF P
<1>16. Bare(u)
  BY <1>2, <1>11, <1>14, <1>15 DEF Bare, P
<1>17. Content(u) = s
  BY <1>10, <1>11, <1>14, <1>16, Contents DEF P
<1>18. ~Bloated(u) /\ Len(u.pieces) <= u.limit
  BY <1>1, <1>9, <1>11 DEF Bloated, A, ps
<1> QED
  BY <1>1, <1>11, <1>16, <1>17, <1>18 DEF Holds, Sound, u, B, A, start, p, ps, i, x, at, s

(* The bytes are cut out and the new ones put in their place.              *)
LEMMA Replaced ==
  ASSUME NEW c \in Seq(Byte), NEW offset \in 0..Len(c), NEW data \in Seq(Byte),
         Len(data) <= Len(c) - offset
  PROVE  Splice(Cut(c, offset, offset + Len(data)), offset, data) = Patched(c, offset, data)
<1> DEFINE n == Len(c)
           d == Len(data)
           to == offset + d
           a == Cut(c, offset, to)
           s == Splice(a, offset, data)
           r == Patched(c, offset, data)
<1>1. n \in Nat /\ d \in Nat /\ offset \in Nat /\ to \in offset..n
  BY LenProperties
<1> HIDE DEF n, d, a, s, r
<1>2. /\ a \in Seq(Byte) /\ Len(a) = n - (to - offset)
      /\ \A k \in 1..n - (to - offset) : a[k] = IF k <= offset THEN c[k] ELSE c[k + (to - offset)]
  <2> HIDE DEF to
  <2>1. IsCut(a, Byte, c, offset, to)
    BY <1>1, CutOut DEF a, n
  <2> QED
    BY <2>1 DEF IsCut, n
<1>3. to - offset = d
  BY <1>1
<1>4. offset \in 0..Len(a) /\ Len(a) \in Nat
  BY <1>1, <1>2, <1>3
<1>5. /\ s \in Seq(Byte) /\ Len(s) = Len(a) + d
      /\ \A k \in 1..Len(a) + d : s[k] = IF k <= offset THEN a[k]
                                         ELSE IF k <= offset + d THEN data[k - offset]
                                         ELSE a[k - d]
  <2>1. a \in Seq(Byte) /\ offset \in 0..Len(a)
    BY <1>2, <1>4
  <2>2. s = Splice(a, offset, data) /\ Len(data) = d
    BY DEF s, d
  <2>3. /\ s \in Seq(Byte) /\ Len(s) = Len(a) + Len(data)
        /\ \A k \in 1..Len(a) + Len(data) : s[k] = IF k <= offset THEN a[k]
                                           ELSE IF k <= offset + Len(data) THEN data[k - offset]
                                           ELSE a[k - Len(data)]
    <3> DEFINE x == data
    <3>1. x \in Seq(Byte)
      OBVIOUS
    <3> HIDE DEF x
    <3>2. /\ Splice(a, offset, x) \in Seq(Byte)
          /\ Len(Splice(a, offset, x)) = Len(a) + Len(x)
          /\ \A k \in 1..Len(a) + Len(x) :
               Splice(a, offset, x)[k] = IF k <= offset THEN a[k]
                                         ELSE IF k <= offset + Len(x) THEN x[k - offset]
                                         ELSE a[k - Len(x)]
      BY <2>1, <3>1, SpliceIs
    <3> QED
      BY <2>2, <3>2 DEF x
  <2> QED
    BY <2>2, <2>3
<1>6. /\ r \in Seq(Byte) /\ Len(r) = n
      /\ \A k \in 1..n : r[k] = IF offset < k /\ k <= offset + d THEN data[k - offset] ELSE c[k]
  BY <1>1, PatchedIs DEF r, n, d
<1>7. Len(s) = n
  BY <1>1, <1>2, <1>3, <1>5
<1>8. ASSUME NEW k \in 1..n PROVE s[k] = r[k]
  <2>1. k \in 1..Len(a) + d
    BY <1>5, <1>7
  <2>2. CASE k <= offset
    <3>1. k \in 1..n - d /\ a[k] = c[k]
      BY <1>1, <1>2, <1>3, <1>4, <2>2
    <3> QED
      BY <1>1, <1>5, <1>6, <2>1, <2>2, <3>1
  <2>3. CASE offset < k /\ k <= offset + d
    BY <1>1, <1>5, <1>6, <2>1, <2>3
  <2>4. CASE offset + d < k
    <3> DEFINE j == k - d
    <3>1. j \in 1..n - d /\ ~(j <= offset) /\ j + d = k
      BY <1>1, <2>4
    <3>2. a[j] = c[j + d]
      BY <1>2, <1>3, <3>1
    <3>3. s[k] = a[j]
      BY <1>1, <1>5, <2>1, <2>4
    <3>4. r[k] = c[k]
      BY <1>1, <1>6, <2>4
    <3> QED
      BY <3>1, <3>2, <3>3, <3>4
  <2> QED
    BY <1>1, <2>2, <2>3, <2>4
<1>9. s = r
  BY <1>5, <1>6, <1>7, <1>8, SeqEqual
<1> QED
  BY <1>9 DEF s, r, a, to, d

LEMMA OverwrittenIs ==
  ASSUME NEW t, NEW c, NEW o, Holds(t, c, o), NEW offset \in 0..Len(c),
         NEW data \in Seq(Byte), Len(data) <= Len(c) - offset
  PROVE  Holds(Overwritten(t, offset, data), Patched(c, offset, data), o)
<1> DEFINE d == Len(data)
<1>1. /\ c \in Seq(Byte) /\ t.length = Len(c) /\ Len(c) \in Nat /\ d \in Nat
  BY HoldsIs, LenProperties
<1>2. CASE data = <<>> \/ offset >= t.length
  <2>1. d = 0 /\ data = <<>>
    <3>1. CASE data = <<>>
      BY <3>1
    <3>2. CASE offset >= t.length
      <4>1. d = 0
        BY <1>1, <3>2
      <4> QED
        BY <4>1, EmptySeq
    <3> QED
      BY <1>2, <3>1, <3>2
  <2> DEFINE s == Patched(c, offset, data)
  <2>2. /\ s \in Seq(Byte) /\ Len(s) = Len(c)
        /\ \A k \in 1..Len(c) : s[k] = IF offset < k /\ k <= offset + d THEN data[k - offset] ELSE c[k]
    BY <1>1, PatchedIs
  <2> HIDE DEF s
  <2>3. \A k \in 1..Len(s) : s[k] = c[k]
    BY <1>1, <2>1, <2>2
  <2>4. s = c
    BY <1>1, <2>2, <2>3, SeqEqual
  <2> QED
    BY <1>2, <2>4 DEF Overwritten, s
<1>3. CASE ~(data = <<>> \/ offset >= t.length)
  <2> DEFINE at == Located(t.pieces, offset)
             bytes == SubSeq(data, 1, Smallest(Len(data), t.length - offset))
  <2>1. bytes = data
    <3>1. Smallest(Len(data), t.length - offset) = Len(data)
      BY <1>1 DEF Smallest
    <3> QED
      BY <3>1, SubSeqFull
  <2>2. CASE InPlace(t.pieces, at, d)
    <3>1. Overwritten(t, offset, data) =
            [t EXCEPT !.added = Patched(@, t.pieces[at.piece].start + at.inner, data)]
      BY <1>3, <2>1, <2>2 DEF Overwritten
    <3>2. offset < Len(c)
      BY <1>1, <1>3
    <3> QED
      BY <2>2, <3>1, <3>2, PatchedTable
  <2>3. CASE ~InPlace(t.pieces, at, d)
    <3> DEFINE e == Deleted(t, offset, d)
               a == Cut(c, offset, offset + d)
    <3>1. Overwritten(t, offset, data) = Inserted(e, offset, data)
      BY <1>3, <2>1, <2>3 DEF Overwritten
    <3>2. d \in 0..Len(c) - offset
      BY <1>1
    <3>3. Holds(e, a, o)
      <4> HIDE DEF d
      <4> QED
        BY <3>2, DeletedIs
    <3>4. offset \in 0..Len(a)
      <4> DEFINE to == offset + d
      <4>1. to \in offset..Len(c) /\ to - offset = d
        BY <1>1, <3>2
      <4> HIDE DEF to
      <4>2. Len(Cut(c, offset, to)) = Len(c) - (to - offset)
        <5>1. IsCut(Cut(c, offset, to), Byte, c, offset, to)
          BY <1>1, <4>1, CutOut
        <5> QED
          BY <5>1 DEF IsCut
      <4> QED
        BY <1>1, <3>2, <4>1, <4>2 DEF to
    <3> HIDE DEF e, a
    <3>5. Holds(Inserted(e, offset, data), Splice(a, offset, data), o)
      BY <3>3, <3>4, InsertedIs
    <3>6. Splice(a, offset, data) = Patched(c, offset, data)
      BY <1>1, Replaced DEF a
    <3> QED
      BY <3>1, <3>5, <3>6
  <2> QED
    BY <2>2, <2>3
<1> QED
  BY <1>2, <1>3

-------------------------------------------------------------------------------
(* Spans written one after the other.                                      *)
Spans(n) == {s \in [offset : Nat, data : Seq(Byte)] : s.offset + Len(s.data) <= n}

Covers(s, k) == s.offset < k /\ k <= s.offset + Len(s.data)

LEMMA SpanIs ==
  /\ \A n \in Nat : \A s \in Spans(n) :
       /\ s.offset \in Nat /\ s.data \in Seq(Byte) /\ Len(s.data) \in Nat
       /\ s.offset + Len(s.data) <= n /\ s.offset \in 0..n /\ Len(s.data) <= n - s.offset
  /\ \A n \in Nat : \A offset \in Nat : \A data \in Seq(Byte) :
       offset + Len(data) <= n => Span(offset, data) \in Spans(n)
  /\ \A offset, data : Span(offset, data).offset = offset /\ Span(offset, data).data = data
<1>1. ASSUME NEW n \in Nat, NEW s \in Spans(n)
      PROVE  /\ s.offset \in Nat /\ s.data \in Seq(Byte) /\ Len(s.data) \in Nat
             /\ s.offset + Len(s.data) <= n /\ s.offset \in 0..n /\ Len(s.data) <= n - s.offset
  <2>1. s.offset \in Nat /\ s.data \in Seq(Byte) /\ s.offset + Len(s.data) <= n
    BY DEF Spans
  <2>2. Len(s.data) \in Nat
    BY <2>1, LenProperties
  <2> QED
    BY <2>1, <2>2
<1>2. ASSUME NEW n \in Nat, NEW offset \in Nat, NEW data \in Seq(Byte), offset + Len(data) <= n
      PROVE  Span(offset, data) \in Spans(n)
  BY <1>2 DEF Span, Spans
<1>3. \A offset, data : Span(offset, data).offset = offset /\ Span(offset, data).data = data
  BY DEF Span
<1> QED
  BY <1>1, <1>2, <1>3

LEMMA OverlaidSteps ==
  ASSUME NEW c \in Seq(Byte), NEW spans \in Seq(Spans(Len(c)))
  PROVE  \E f \in [0..Len(spans) -> {s \in Seq(Byte) : Len(s) = Len(c)}] :
           /\ f[0] = c
           /\ \A i \in 1..Len(spans) :
                f[i] = Patched(f[i - 1], spans[i].offset, spans[i].data)
           /\ Overlaid(c, spans) = f[Len(spans)]
<1> DEFINE n == Len(spans)
           V == {s \in Seq(Byte) : Len(s) = Len(c)}
           b == c
           With(i, v) == Patched(v, spans[i].offset, spans[i].data)
           Is(f) == f = [i \in 0..n |-> IF i = 0 THEN b ELSE With(i, f[i - 1])]
           step == [i \in 1..n |-> [v \in V |-> With(i, v)]]
           k == CHOOSE f : Is(f)
<1>1. n \in Nat
  BY LenProperties
<1>2. Overlaid(c, spans) = k[n]
  BY DEF Overlaid
<1>3. b \in V
  OBVIOUS
<1>4. step \in Steps(n, V)
  <2>1. ASSUME NEW i \in 1..n, NEW v \in V PROVE With(i, v) \in V
    <3>1. spans[i] \in Spans(Len(c)) /\ Len(c) \in Nat
      BY LenProperties, ElementOfSeq
    <3>2. spans[i].offset \in Nat /\ spans[i].data \in Seq(Byte)
      BY <3>1, SpanIs
    <3> QED
      BY <3>2, PatchedIs
  <2> HIDE DEF V, n, With
  <2> QED
    BY <2>1 DEF Steps
<1> HIDE DEF n, V, k, b, With
<1>5. PICK f \in [0..n -> V] : f[0] = b /\ \A i \in 1..n : f[i] = step[i][f[i - 1]]
  <2> HIDE DEF step
  <2>1. \E f \in [0..n -> V] : Follows(f, n, b, step)
    BY <1>1, <1>3, <1>4, Recursion
  <2> QED
    BY <2>1 DEF Follows
<1>6. ASSUME NEW i \in 1..n PROVE f[i] = With(i, f[i - 1])
  <2>1. f[i - 1] \in V
    BY <1>1
  <2>2. f[i] = step[i][f[i - 1]]
    BY <1>5
  <2> QED
    BY <2>1, <2>2
<1>7. Is(f)
  BY <1>1, <1>5, <1>6
<1>8. Is(k)
  <2> HIDE DEF Is
  <2> QED
    BY <1>7 DEF k
<1>9. k[0] = b /\ \A i \in 1..n : k[i] = With(i, k[i - 1])
  BY <1>1, <1>8
<1>10. \A i \in 0..n : k[i] = f[i]
  <2> DEFINE T == {i \in 0..n : k[i] = f[i]}
  <2>1. 0 \in T
    BY <1>1, <1>5, <1>9
  <2>2. \A i \in 0..n - 1 : i \in T => i + 1 \in T
    BY <1>1, <1>6, <1>9
  <2> HIDE DEF T
  <2>3. \A i \in 0..n : i \in T
    BY <1>1, <2>1, <2>2, Climb
  <2> QED
    BY <2>3 DEF T
<1>11. k \in [0..n -> V]
  BY <1>8, <1>10
<1> QED
  BY <1>2, <1>9, <1>11 DEF n, V, b, With

(* The tables between the spans of Written, each of the same length.       *)
Tables(n) == {t \in TableSet : Sound(t) /\ t.length = n}

LEMMA WrittenSteps ==
  ASSUME NEW m \in Nat, NEW t \in Tables(m), NEW spans \in Seq(Spans(m))
  PROVE  \E f \in [0..Len(spans) -> Tables(m)] :
           /\ f[0] = t
           /\ \A i \in 1..Len(spans) :
                f[i] = Overwritten(f[i - 1], spans[i].offset, spans[i].data)
           /\ Written(t, spans) = f[Len(spans)]
<1> DEFINE n == Len(spans)
           V == Tables(m)
           b == t
           With(i, v) == Overwritten(v, spans[i].offset, spans[i].data)
           Is(f) == f = [i \in 0..n |-> IF i = 0 THEN b ELSE With(i, f[i - 1])]
           step == [i \in 1..n |-> [v \in V |-> With(i, v)]]
           k == CHOOSE f : Is(f)
<1>1. n \in Nat
  BY LenProperties
<1>2. Written(t, spans) = k[n]
  BY DEF Written
<1>3. b \in V
  OBVIOUS
<1>4. step \in Steps(n, V)
  <2>1. ASSUME NEW i \in 1..n, NEW v \in V PROVE With(i, v) \in V
    <3> DEFINE c == Content(v)
               offset == spans[i].offset
               data == spans[i].data
               s == Patched(c, offset, data)
               u == Overwritten(v, offset, data)
    <3>1. spans[i] \in Spans(m)
      BY ElementOfSeq
    <3>2. /\ offset \in Nat /\ data \in Seq(Byte) /\ offset \in 0..m /\ Len(data) <= m - offset
      BY <3>1, SpanIs
    <3>3. Sound(v) /\ v.length = m
      BY DEF Tables
    <3>4. Holds(v, c, v.original)
      BY <3>3 DEF Holds
    <3> HIDE DEF c, offset, data, u
    <3>5. c \in Seq(Byte) /\ Len(c) = m
      BY <3>3, <3>4, HoldsIs
    <3>6. Holds(u, s, v.original)
      BY <3>2, <3>4, <3>5, OverwrittenIs DEF u
    <3>7. Len(s) = m
      BY <3>2, <3>5, PatchedIs
    <3> HIDE DEF s
    <3>8. u \in TableSet /\ u.length = m /\ Sound(u)
      BY <3>6, <3>7, HoldsIs DEF Holds
    <3> QED
      BY <3>8 DEF Tables, u, offset, data
  <2> HIDE DEF V, n, With
  <2> QED
    BY <2>1 DEF Steps
<1> HIDE DEF n, V, k, b, With
<1>5. PICK f \in [0..n -> V] : f[0] = b /\ \A i \in 1..n : f[i] = step[i][f[i - 1]]
  <2> HIDE DEF step
  <2>1. \E f \in [0..n -> V] : Follows(f, n, b, step)
    BY <1>1, <1>3, <1>4, Recursion
  <2> QED
    BY <2>1 DEF Follows
<1>6. ASSUME NEW i \in 1..n PROVE f[i] = With(i, f[i - 1])
  <2>1. f[i - 1] \in V
    BY <1>1
  <2>2. f[i] = step[i][f[i - 1]]
    BY <1>5
  <2> QED
    BY <2>1, <2>2
<1>7. Is(f)
  BY <1>1, <1>5, <1>6
<1>8. Is(k)
  <2> HIDE DEF Is
  <2> QED
    BY <1>7 DEF k
<1>9. k[0] = b /\ \A i \in 1..n : k[i] = With(i, k[i - 1])
  BY <1>1, <1>8
<1>10. \A i \in 0..n : k[i] = f[i]
  <2> DEFINE T == {i \in 0..n : k[i] = f[i]}
  <2>1. 0 \in T
    BY <1>1, <1>5, <1>9
  <2>2. \A i \in 0..n - 1 : i \in T => i + 1 \in T
    BY <1>1, <1>6, <1>9
  <2> HIDE DEF T
  <2>3. \A i \in 0..n : i \in T
    BY <1>1, <2>1, <2>2, Climb
  <2> QED
    BY <2>3 DEF T
<1>11. k \in [0..n -> V]
  BY <1>8, <1>10
<1> QED
  BY <1>2, <1>9, <1>11 DEF n, V, b, With

LEMMA OverlaidType ==
  ASSUME NEW c \in Seq(Byte), NEW spans \in Seq(Spans(Len(c)))
  PROVE  Overlaid(c, spans) \in Seq(Byte) /\ Len(Overlaid(c, spans)) = Len(c)
<1>1. Len(spans) \in 0..Len(spans)
  BY LenProperties
<1> DEFINE V == {s \in Seq(Byte) : Len(s) = Len(c)}
<1>2. Overlaid(c, spans) \in V
  BY <1>1, OverlaidSteps
<1> QED
  BY <1>2

LEMMA WrittenIs ==
  ASSUME NEW t, NEW c, NEW o, Holds(t, c, o), NEW spans \in Seq(Spans(Len(c)))
  PROVE  Holds(Written(t, spans), Overlaid(c, spans), o)
<1> DEFINE n == Len(spans)
           m == Len(c)
<1>1. /\ t \in TableSet /\ c \in Seq(Byte) /\ t.length = m /\ m \in Nat /\ Sound(t)
  BY HoldsIs DEF Holds
<1>2. n \in Nat
  BY LenProperties
<1>3. t \in Tables(m)
  BY <1>1 DEF Tables
<1>4. PICK f \in [0..n -> Tables(m)] :
        /\ f[0] = t
        /\ \A i \in 1..n : f[i] = Overwritten(f[i - 1], spans[i].offset, spans[i].data)
        /\ Written(t, spans) = f[n]
  <2> HIDE DEF m
  <2>1. spans \in Seq(Spans(m))
    BY DEF m
  <2> QED
    BY <1>1, <1>3, <2>1, WrittenSteps
<1>5. PICK g \in [0..n -> {s \in Seq(Byte) : Len(s) = m}] :
        /\ g[0] = c
        /\ \A i \in 1..n : g[i] = Patched(g[i - 1], spans[i].offset, spans[i].data)
        /\ Overlaid(c, spans) = g[n]
  BY <1>1, OverlaidSteps
<1> HIDE DEF m
<1> DEFINE T == {i \in 0..n : Holds(f[i], g[i], o)}
<1>6. 0 \in T
  BY <1>2, <1>4, <1>5
<1>7. ASSUME NEW i \in 0..n - 1, i \in T PROVE i + 1 \in T
  <2>1. i + 1 \in 1..n /\ (i + 1) - 1 = i /\ i + 1 \in 0..n /\ i \in 0..n
    BY <1>2
  <2> DEFINE offset == spans[i + 1].offset
             data == spans[i + 1].data
  <2>2. f[i + 1] = Overwritten(f[i], offset, data) /\ g[i + 1] = Patched(g[i], offset, data)
    BY <1>4, <1>5, <2>1
  <2>3. spans[i + 1] \in Spans(m)
    BY <2>1, ElementOfSeq DEF m
  <2>4. offset \in 0..m /\ data \in Seq(Byte) /\ Len(data) <= m - offset
    BY <1>1, <2>3, SpanIs
  <2>5. Holds(f[i], g[i], o) /\ Len(g[i]) = m
    BY <1>5, <1>7, <2>1
  <2> HIDE DEF offset, data
  <2>6. Holds(Overwritten(f[i], offset, data), Patched(g[i], offset, data), o)
    BY <2>4, <2>5, OverwrittenIs
  <2> QED
    BY <2>1, <2>2, <2>6
<1> HIDE DEF T
<1>8. \A i \in 0..n : i \in T
  BY <1>2, <1>6, <1>7, Climb
<1>9. n \in T
  BY <1>2, <1>8
<1> QED
  BY <1>4, <1>5, <1>9 DEF T

(* A byte after the last span that covers it.                              *)
LEMMA OverlaidLast ==
  ASSUME NEW c \in Seq(Byte), NEW spans \in Seq(Spans(Len(c))), NEW k \in 1..Len(c)
  PROVE  /\ (\A i \in 1..Len(spans) : ~Covers(spans[i], k)) => Overlaid(c, spans)[k] = c[k]
         /\ \A i \in 1..Len(spans) :
              Covers(spans[i], k) /\ (\A j \in i + 1..Len(spans) : ~Covers(spans[j], k))
                => Overlaid(c, spans)[k] = spans[i].data[k - spans[i].offset]
<1> DEFINE n == Len(spans)
           m == Len(c)
           offset(i) == spans[i].offset
           data(i) == spans[i].data
<1>1. n \in Nat /\ m \in Nat
  BY LenProperties
<1>2. PICK g \in [0..n -> {s \in Seq(Byte) : Len(s) = m}] :
        /\ g[0] = c
        /\ \A i \in 1..n : g[i] = Patched(g[i - 1], spans[i].offset, spans[i].data)
        /\ Overlaid(c, spans) = g[n]
  BY OverlaidSteps
<1>3. ASSUME NEW i \in 1..n
      PROVE  g[i][k] = IF Covers(spans[i], k) THEN data(i)[k - offset(i)] ELSE g[i - 1][k]
  <2>1. spans[i] \in Spans(m)
    BY ElementOfSeq
  <2>2. offset(i) \in Nat /\ data(i) \in Seq(Byte)
    BY <1>1, <2>1, SpanIs
  <2>3. i - 1 \in 0..n
    BY <1>1
  <2>4. g[i - 1] \in Seq(Byte) /\ Len(g[i - 1]) = m
    BY <1>2, <2>3
  <2>5. g[i] = Patched(g[i - 1], offset(i), data(i))
    BY <1>2
  <2> HIDE DEF offset, data, m
  <2>6. g[i][k] = IF offset(i) < k /\ k <= offset(i) + Len(data(i))
                  THEN data(i)[k - offset(i)] ELSE g[i - 1][k]
    BY <2>2, <2>4, <2>5, PatchedIs DEF m
  <2> QED
    BY <2>6 DEF Covers, offset, data
<1> HIDE DEF offset, data
<1>4. ASSUME NEW i \in 0..n, \A j \in i + 1..n : ~Covers(spans[j], k)
      PROVE  g[n][k] = g[i][k]
  <2> DEFINE T == {j \in 0..n : j >= i => g[j][k] = g[i][k]}
  <2>1. 0 \in T
    BY <1>1
  <2>2. ASSUME NEW j \in 0..n - 1, j \in T PROVE j + 1 \in T
    <3>1. j + 1 \in 1..n /\ (j + 1) - 1 = j /\ j \in 0..n /\ j + 1 \in 0..n
      BY <1>1
    <3>2. CASE j + 1 > i
      <4>1. j + 1 \in i + 1..n /\ j >= i
        BY <1>1, <3>1, <3>2
      <4>2. g[j + 1][k] = g[j][k]
        BY <1>3, <1>4, <3>1, <4>1
      <4> QED
        BY <2>2, <3>1, <4>1, <4>2
    <3>3. CASE j + 1 = i
      BY <3>1, <3>3
    <3>4. CASE j + 1 < i
      BY <3>1, <3>4
    <3> QED
      BY <1>1, <3>1, <3>2, <3>3, <3>4
  <2> HIDE DEF T
  <2>3. \A j \in 0..n : j \in T
    BY <1>1, <2>1, <2>2, Climb
  <2>4. n \in T /\ n >= i
    BY <1>1, <2>3
  <2> QED
    BY <2>4 DEF T
<1>5. ASSUME \A i \in 1..n : ~Covers(spans[i], k) PROVE g[n][k] = c[k]
  <2>1. 0 \in 0..n /\ \A j \in 0 + 1..n : ~Covers(spans[j], k)
    BY <1>1, <1>5
  <2>2. g[n][k] = g[0][k]
    BY <1>4, <2>1
  <2> QED
    BY <1>2, <2>2
<1>6. ASSUME NEW i \in 1..n, Covers(spans[i], k), \A j \in i + 1..n : ~Covers(spans[j], k)
      PROVE  g[n][k] = data(i)[k - offset(i)]
  <2>1. i \in 0..n
    OBVIOUS
  <2>2. g[n][k] = g[i][k]
    BY <1>4, <1>6, <2>1
  <2> QED
    BY <1>3, <1>6, <2>2
<1> QED
  BY <1>2, <1>5, <1>6 DEF data, offset

(* Every span carries the bytes of v.                                      *)
Carries(spans, v) ==
  \A i \in 1..Len(spans) : \A k \in 1..Len(v) :
    Covers(spans[i], k) => spans[i].data[k - spans[i].offset] = v[k]

LEMMA OverlaidIs ==
  ASSUME NEW c \in Seq(Byte), NEW spans \in Seq(Spans(Len(c))), NEW v \in Seq(Byte),
         Len(v) = Len(c), Carries(spans, v), NEW k \in 1..Len(c)
  PROVE  Overlaid(c, spans)[k] = IF \E i \in 1..Len(spans) : Covers(spans[i], k)
                                 THEN v[k] ELSE c[k]
<1>1. CASE \A i \in 1..Len(spans) : ~Covers(spans[i], k)
  BY <1>1, OverlaidLast
<1>2. CASE \E i \in 1..Len(spans) : Covers(spans[i], k)
  <2> DEFINE n == Len(spans)
             T == {i \in 0..n : \E j \in 1..n : Covers(spans[j], k) /\ j + i = n}
  <2>1. n \in Nat
    BY LenProperties
  <2>2. T \subseteq Nat
    BY <2>1
  <2>3. PICK a \in 1..n : Covers(spans[a], k)
    BY <1>2
  <2>4. n - a \in T
    BY <2>1, <2>3
  <2>5. PICK i \in T : \A x \in T : i <= x
    <3> HIDE DEF T
    <3> QED
      BY <2>2, <2>4, Least
  <2>6. PICK j \in 1..n : Covers(spans[j], k) /\ j + i = n
    OBVIOUS
  <2>7. ASSUME NEW x \in j + 1..n PROVE ~Covers(spans[x], k)
    <3>1. SUFFICES ASSUME Covers(spans[x], k) PROVE FALSE
      OBVIOUS
    <3>2. x \in 1..n /\ n - x \in 0..n /\ x + (n - x) = n
      BY <2>1, SMTT(40)
    <3>3. n - x \in T
      BY <3>1, <3>2
    <3>5. j \in Int /\ x \in Int /\ i \in Int /\ j < x
      BY <2>1, <2>2
    <3> HIDE DEF n, T
    <3>4. i <= n - x
      BY <2>5, <3>3, Zenon
    <3> QED
      BY <2>1, <2>6, <3>4, <3>5
  <2>8. Overlaid(c, spans)[k] = spans[j].data[k - spans[j].offset]
    BY <2>6, <2>7, OverlaidLast, ZenonT(60)
  <2> QED
    BY <1>2, <2>6, <2>8 DEF Carries
<1> QED
  BY <1>1, <1>2

(* Spans that put back what the others covered.                            *)
LEMMA Restored ==
  ASSUME NEW c \in Seq(Byte), NEW spans \in Seq(Spans(Len(c))), NEW back \in Seq(Spans(Len(c))),
         Carries(back, c),
         \A i \in 1..Len(spans) : \A k \in 1..Len(c) :
           Covers(spans[i], k) => \E j \in 1..Len(back) : Covers(back[j], k)
  PROVE  Overlaid(Overlaid(c, spans), back) = c
<1> DEFINE d == Overlaid(c, spans)
           r == Overlaid(d, back)
<1>1. d \in Seq(Byte) /\ Len(d) = Len(c)
  BY OverlaidType
<1> HIDE DEF d
<1>2. back \in Seq(Spans(Len(d)))
  BY <1>1
<1>3. r \in Seq(Byte) /\ Len(r) = Len(c)
  BY <1>1, <1>2, OverlaidType
<1>4. ASSUME NEW k \in 1..Len(c) PROVE r[k] = c[k]
  <2>1. r[k] = IF \E i \in 1..Len(back) : Covers(back[i], k) THEN c[k] ELSE d[k]
    BY <1>1, <1>2, OverlaidIs
  <2>2. CASE \E i \in 1..Len(back) : Covers(back[i], k)
    BY <2>1, <2>2
  <2>3. CASE ~\E i \in 1..Len(back) : Covers(back[i], k)
    <3>1. \A i \in 1..Len(spans) : ~Covers(spans[i], k)
      BY <2>3
    <3>2. d[k] = c[k]
      BY <3>1, OverlaidLast DEF d
    <3> QED
      BY <2>1, <2>3, <3>2
  <2> QED
    BY <2>2, <2>3
<1> HIDE DEF r
<1>5. r = c
  BY <1>3, <1>4, SeqEqual
<1> QED
  BY <1>5 DEF r, d

(* Spans that carry the bytes already there.                               *)
LEMMA Unchanged ==
  ASSUME NEW c \in Seq(Byte), NEW spans \in Seq(Spans(Len(c))), Carries(spans, c)
  PROVE  Overlaid(c, spans) = c
<1> DEFINE d == Overlaid(c, spans)
<1>1. d \in Seq(Byte) /\ Len(d) = Len(c)
  BY OverlaidType
<1>2. \A k \in 1..Len(c) : d[k] = c[k]
  BY OverlaidIs
<1> HIDE DEF d
<1>3. d = c
  BY <1>1, <1>2, SeqEqual
<1> QED
  BY <1>3 DEF d

-------------------------------------------------------------------------------
(* What an operation does: on every table that holds a, whatever its       *)
(* layout, it leaves one that holds b, and undoing it on every table that  *)
(* holds b leaves one that holds a.                                        *)
Turns(op, a, b) ==
  /\ a \in Seq(Byte) /\ b \in Seq(Byte)
  /\ \A t, o : Holds(t, a, o) => Holds(Applied(op, t), b, o)
  /\ \A t, o : Holds(t, b, o) => Holds(Reverted(op, t), a, o)

LEMMA SubAt ==
  ASSUME NEW c \in Seq(Byte), NEW offset \in 0..Len(c), NEW n \in 0..Len(c) - offset
  PROVE  /\ SubSeq(c, offset + 1, offset + n) \in Seq(Byte)
         /\ Len(SubSeq(c, offset + 1, offset + n)) = n
         /\ \A j \in 1..n : SubSeq(c, offset + 1, offset + n)[j] = c[offset + j]
<1> DEFINE x == offset + 1
           y == offset + n
<1>1. Len(c) \in Nat
  BY LenProperties
<1>2. x \in 1..Len(c) + 1 /\ y \in x - 1..Len(c) /\ y - x + 1 = n /\ \A j \in 1..n : x + j - 1 = offset + j
  BY <1>1
<1> HIDE DEF x, y
<1>3. /\ SubSeq(c, x, y) \in Seq(Byte) /\ Len(SubSeq(c, x, y)) = y - x + 1
      /\ \A j \in 1..y - x + 1 : SubSeq(c, x, y)[j] = c[x + j - 1]
  BY <1>2, SubIs
<1> QED
  BY <1>2, <1>3 DEF x, y

LEMMA ReadIs ==
  ASSUME NEW t, NEW c, NEW o, Holds(t, c, o), NEW offset \in 0..Len(c), NEW n \in Nat
  PROVE  /\ Read(t, offset, n) = SubSeq(c, offset + 1, Smallest(offset + n, Len(c)))
         /\ n <= Len(c) - offset =>
              /\ Read(t, offset, n) = SubSeq(c, offset + 1, offset + n)
              /\ Read(t, offset, n) \in Seq(Byte) /\ Len(Read(t, offset, n)) = n
              /\ \A j \in 1..n : Read(t, offset, n)[j] = c[offset + j]
<1>1. c \in Seq(Byte) /\ t.length = Len(c) /\ Len(c) \in Nat /\ Content(t) = c
  BY HoldsIs DEF Holds
<1>2. Read(t, offset, n) = SubSeq(c, offset + 1, Smallest(offset + n, Len(c)))
  BY <1>1 DEF Read
<1>3. ASSUME n <= Len(c) - offset
      PROVE  /\ Read(t, offset, n) = SubSeq(c, offset + 1, offset + n)
             /\ Read(t, offset, n) \in Seq(Byte) /\ Len(Read(t, offset, n)) = n
             /\ \A j \in 1..n : Read(t, offset, n)[j] = c[offset + j]
  <2>1. Smallest(offset + n, Len(c)) = offset + n /\ n \in 0..Len(c) - offset
    BY <1>1, <1>3 DEF Smallest
  <2>2. Read(t, offset, n) = SubSeq(c, offset + 1, offset + n)
    BY <1>2, <2>1
  <2>3. /\ SubSeq(c, offset + 1, offset + n) \in Seq(Byte)
        /\ Len(SubSeq(c, offset + 1, offset + n)) = n
        /\ \A j \in 1..n : SubSeq(c, offset + 1, offset + n)[j] = c[offset + j]
    BY <1>1, <2>1, SubAt
  <2> QED
    BY <2>2, <2>3
<1> QED
  BY <1>2, <1>3

LEMMA CutSplice ==
  ASSUME NEW c \in Seq(Byte), NEW offset \in 0..Len(c), NEW data \in Seq(Byte)
  PROVE  /\ offset \in 0..Len(Splice(c, offset, data))
         /\ Len(data) \in 0..Len(Splice(c, offset, data)) - offset
         /\ Cut(Splice(c, offset, data), offset, offset + Len(data)) = c
<1> DEFINE n == Len(c)
           d == Len(data)
           s == Splice(c, offset, data)
           to == offset + d
           r == Cut(s, offset, to)
<1>1. n \in Nat /\ d \in Nat /\ offset \in Nat /\ offset <= n
  BY LenProperties
<1>2. /\ s \in Seq(Byte) /\ Len(s) = n + d
      /\ \A k \in 1..n + d : s[k] = IF k <= offset THEN c[k]
                                    ELSE IF k <= offset + d THEN data[k - offset]
                                    ELSE c[k - d]
  BY SpliceIs
<1> HIDE DEF n, d, s, r
<1>3. offset \in 0..Len(s) /\ to \in offset..Len(s) /\ to - offset = d /\ d \in 0..Len(s) - offset
  BY <1>1, <1>2
<1> HIDE DEF to
<1>4. /\ r \in Seq(Byte) /\ Len(r) = Len(s) - (to - offset)
      /\ \A k \in 1..Len(s) - (to - offset) : r[k] = IF k <= offset THEN s[k] ELSE s[k + (to - offset)]
  <2>1. s \in Seq(Byte) /\ r = Cut(s, offset, to)
    BY <1>2 DEF r
  <2> QED
    BY <1>3, <2>1, CutIs, ZenonT(60)
<1>5. Len(r) = n /\ \A k \in 1..n : r[k] = IF k <= offset THEN s[k] ELSE s[k + d]
  <2>1. Len(s) - (to - offset) = n
    BY <1>1, <1>2, <1>3
  <2> QED
    BY <1>3, <1>4, <2>1
<1>6. ASSUME NEW k \in 1..n PROVE r[k] = c[k]
  <2>1. CASE k <= offset
    <3>1. k \in 1..n + d
      BY <1>1
    <3> QED
      BY <1>2, <1>5, <2>1, <3>1
  <2>2. CASE ~(k <= offset)
    <3> DEFINE j == k + d
    <3>1. j \in 1..n + d /\ ~(j <= offset) /\ ~(j <= offset + d) /\ j - d = k
      BY <1>1, <2>2
    <3> HIDE DEF j
    <3>2. s[j] = c[k]
      BY <1>2, <3>1
    <3> QED
      BY <1>5, <2>2, <3>2 DEF j
  <2> QED
    BY <2>1, <2>2
<1>7. r = c
  BY <1>4, <1>5, <1>6, SeqEqual DEF n
<1> QED
  BY <1>3, <1>7 DEF r, s, to, d

LEMMA SpliceCut ==
  ASSUME NEW c \in Seq(Byte), NEW offset \in 0..Len(c), NEW n \in 0..Len(c) - offset
  PROVE  /\ Cut(c, offset, offset + n) \in Seq(Byte)
         /\ Len(Cut(c, offset, offset + n)) = Len(c) - n
         /\ offset \in 0..Len(c) - n
         /\ Splice(Cut(c, offset, offset + n), offset, SubSeq(c, offset + 1, offset + n)) = c
<1> DEFINE m == Len(c)
           to == offset + n
           s == Cut(c, offset, to)
           data == SubSeq(c, offset + 1, offset + n)
           r == Splice(s, offset, data)
<1>1. m \in Nat /\ offset \in Nat /\ n \in Nat /\ offset + n <= m
  BY LenProperties
<1>2. /\ data \in Seq(Byte) /\ Len(data) = n /\ \A j \in 1..n : data[j] = c[offset + j]
  BY SubAt
<1> HIDE DEF m, data, s, r
<1>3. to \in offset..m /\ to - offset = n /\ offset \in 0..m - n /\ m - n \in Nat
  BY <1>1
<1> HIDE DEF to
<1>4. /\ s \in Seq(Byte) /\ Len(s) = m - (to - offset)
      /\ \A k \in 1..m - (to - offset) : s[k] = IF k <= offset THEN c[k] ELSE c[k + (to - offset)]
  BY <1>3, CutIs DEF s, m
<1>5. Len(s) = m - n /\ \A k \in 1..m - n : s[k] = IF k <= offset THEN c[k] ELSE c[k + n]
  BY <1>3, <1>4
<1>6. offset \in 0..Len(s)
  BY <1>3, <1>5
<1>7. /\ r \in Seq(Byte) /\ Len(r) = Len(s) + Len(data)
      /\ \A k \in 1..Len(s) + Len(data) : r[k] = IF k <= offset THEN s[k]
                                    ELSE IF k <= offset + Len(data) THEN data[k - offset]
                                    ELSE s[k - Len(data)]
  <2>1. r = Splice(s, offset, data) /\ data \in Seq(Byte) /\ s \in Seq(Byte)
    BY <1>2, <1>4 DEF r
  <2> QED
    BY <1>6, <2>1, SpliceIs
<1>8. /\ Len(r) = m
      /\ \A k \in 1..m : r[k] = IF k <= offset THEN s[k]
                                ELSE IF k <= offset + n THEN data[k - offset] ELSE s[k - n]
  BY <1>1, <1>2, <1>5, <1>7
<1>9. ASSUME NEW k \in 1..m PROVE r[k] = c[k]
  <2>1. CASE k <= offset
    <3>1. k \in 1..m - n
      BY <1>1, <2>1
    <3> QED
      BY <1>5, <1>8, <2>1, <3>1
  <2>2. CASE ~(k <= offset) /\ k <= offset + n
    <3>1. k - offset \in 1..n /\ offset + (k - offset) = k
      BY <1>1, <2>2
    <3>2. data[k - offset] = c[offset + (k - offset)]
      BY <1>2, <3>1
    <3> QED
      BY <1>8, <2>2, <3>1, <3>2
  <2>3. CASE ~(k <= offset) /\ ~(k <= offset + n)
    <3> DEFINE j == k - n
    <3>1. j \in 1..m - n /\ ~(j <= offset) /\ j + n = k
      BY <1>1, <2>3
    <3> HIDE DEF j
    <3>2. s[j] = c[k]
      BY <1>5, <3>1
    <3> QED
      BY <1>8, <2>3, <3>2 DEF j
  <2> QED
    BY <2>1, <2>2, <2>3
<1>10. r = c
  BY <1>7, <1>8, <1>9, SeqEqual DEF m
<1> QED
  BY <1>3, <1>4, <1>5, <1>10 DEF r, s, data, to, m

LEMMA InsertTurns ==
  ASSUME NEW a \in Seq(Byte), NEW offset \in 0..Len(a), NEW data \in Seq(Byte),
         NEW op, op = [kind |-> "insert", offset |-> offset, new |-> data]
  PROVE  Turns(op, a, Splice(a, offset, data)) /\ (ChangesBytes(op) <=> Splice(a, offset, data) # a)
<1> DEFINE b == Splice(a, offset, data)
<1>1. op.kind = "insert" /\ op.offset = offset /\ op.new = data
  OBVIOUS
<1>2. /\ \A t : Applied(op, t) = Inserted(t, offset, data)
      /\ \A t : Reverted(op, t) = Deleted(t, offset, Len(data))
      /\ ChangesBytes(op) <=> data # <<>>
  BY <1>1 DEF Applied, Reverted, ChangesBytes
<1>3. b \in Seq(Byte) /\ Len(b) = Len(a) + Len(data)
  BY SpliceIs
<1>4. /\ offset \in 0..Len(b) /\ Len(data) \in 0..Len(b) - offset
      /\ Cut(b, offset, offset + Len(data)) = a
  BY CutSplice
<1> HIDE DEF b
<1>5. ASSUME NEW t, NEW o, Holds(t, a, o) PROVE Holds(Applied(op, t), b, o)
  BY <1>2, <1>5, InsertedIs DEF b
<1>6. ASSUME NEW t, NEW o, Holds(t, b, o) PROVE Holds(Reverted(op, t), a, o)
  <2> DEFINE n == Len(data)
  <2> HIDE DEF n
  <2>1. n \in 0..Len(b) - offset /\ Cut(b, offset, offset + n) = a /\ Reverted(op, t) = Deleted(t, offset, n)
    BY <1>2, <1>4 DEF n
  <2>2. Holds(Deleted(t, offset, n), Cut(b, offset, offset + n), o)
    BY <1>4, <1>6, <2>1, DeletedIs
  <2> QED
    BY <2>1, <2>2
<1>7. data # <<>> <=> b # a
  <2>1. CASE data = <<>>
    <3>1. b = a
      BY <2>1, Nothing DEF b
    <3> QED
      BY <2>1, <3>1
  <2>2. CASE data # <<>>
    <3>1. Len(data) \in Nat \ {0} /\ Len(a) \in Nat
      BY <2>2, EmptySeq, LenProperties
    <3> QED
      BY <1>3, <2>2, <3>1
  <2> QED
    BY <2>1, <2>2
<1> QED
  BY <1>2, <1>3, <1>5, <1>6, <1>7 DEF Turns, b

LEMMA DeleteTurns ==
  ASSUME NEW a \in Seq(Byte), NEW offset \in 0..Len(a), NEW n \in 0..Len(a) - offset,
         NEW op, op = [kind |-> "delete", offset |-> offset, old |-> SubSeq(a, offset + 1, offset + n)]
  PROVE  Turns(op, a, Cut(a, offset, offset + n)) /\ (ChangesBytes(op) <=> Cut(a, offset, offset + n) # a)
<1> DEFINE b == Cut(a, offset, offset + n)
           old == SubSeq(a, offset + 1, offset + n)
<1>1. op.kind = "delete" /\ op.offset = offset /\ op.old = old
  OBVIOUS
<1>2. old \in Seq(Byte) /\ Len(old) = n
  BY SubAt
<1>3. b \in Seq(Byte) /\ Len(b) = Len(a) - n /\ offset \in 0..Len(b) /\ Splice(b, offset, old) = a
  BY SpliceCut
<1> HIDE DEF b, old
<1>4. /\ \A t : Applied(op, t) = Deleted(t, offset, n)
      /\ \A t : Reverted(op, t) = Inserted(t, offset, old)
      /\ ChangesBytes(op) <=> old # <<>>
  BY <1>1, <1>2 DEF Applied, Reverted, ChangesBytes
<1>5. ASSUME NEW t, NEW o, Holds(t, a, o) PROVE Holds(Applied(op, t), b, o)
  BY <1>4, <1>5, DeletedIs DEF b
<1>6. ASSUME NEW t, NEW o, Holds(t, b, o) PROVE Holds(Reverted(op, t), a, o)
  BY <1>2, <1>3, <1>4, <1>6, InsertedIs
<1>7. old # <<>> <=> b # a
  <2>1. CASE old = <<>>
    <3>1. n = 0 /\ offset + n = offset
      BY <1>2, <2>1
    <3>2. b = a
      BY <3>1, Nothing DEF b
    <3> QED
      BY <2>1, <3>2
  <2>2. CASE old # <<>>
    <3>1. n \in Nat \ {0} /\ Len(a) \in Nat
      BY <1>2, <2>2, EmptySeq, LenProperties
    <3> QED
      BY <1>3, <2>2, <3>1
  <2> QED
    BY <2>1, <2>2
<1> QED
  BY <1>3, <1>4, <1>5, <1>6, <1>7 DEF Turns, b

LEMMA OverwriteTurns ==
  ASSUME NEW a \in Seq(Byte), NEW offset \in 0..Len(a), NEW data \in Seq(Byte),
         Len(data) <= Len(a) - offset,
         NEW op, op = [kind |-> "overwrite", offset |-> offset,
                       old |-> SubSeq(a, offset + 1, offset + Len(data)), new |-> data]
  PROVE  Turns(op, a, Patched(a, offset, data)) /\ (ChangesBytes(op) <=> Patched(a, offset, data) # a)
<1> DEFINE b == Patched(a, offset, data)
           n == Len(data)
           m == Len(a)
           old == SubSeq(a, offset + 1, offset + n)
           r == Patched(b, offset, old)
<1>1. op.kind = "overwrite" /\ op.offset = offset /\ op.old = old /\ op.new = data
  OBVIOUS
<1>2. n \in Nat /\ m \in Nat /\ offset \in Nat /\ n \in 0..m - offset
  BY LenProperties
<1>3. old \in Seq(Byte) /\ Len(old) = n /\ \A j \in 1..n : old[j] = a[offset + j]
  <2> HIDE DEF n
  <2> QED
    BY <1>2, SubAt
<1> HIDE DEF b, n, m, old, r
<1>4. /\ \A t : Applied(op, t) = Overwritten(t, offset, data)
      /\ \A t : Reverted(op, t) = Overwritten(t, offset, old)
      /\ ChangesBytes(op) <=> old # data
  BY <1>1 DEF Applied, Reverted, ChangesBytes
<1>5. /\ b \in Seq(Byte) /\ Len(b) = m
      /\ \A k \in 1..m : b[k] = IF offset < k /\ k <= offset + n THEN data[k - offset] ELSE a[k]
  BY <1>2, PatchedIs DEF b, m, n
<1>6. /\ r \in Seq(Byte) /\ Len(r) = m
      /\ \A k \in 1..m : r[k] = IF offset < k /\ k <= offset + n THEN old[k - offset] ELSE b[k]
  <2>1. /\ r \in Seq(Byte) /\ Len(r) = Len(b)
        /\ \A k \in 1..Len(b) : r[k] = IF offset < k /\ k <= offset + Len(old)
                                       THEN old[k - offset] ELSE b[k]
    <3>1. IsPatched(r, b, offset, old)
      BY <1>2, <1>3, <1>5, PatchedAs DEF r
    <3> QED
      BY <3>1 DEF IsPatched
  <2> QED
    BY <1>3, <1>5, <2>1
<1>7. r = a
  <2>1. ASSUME NEW k \in 1..m PROVE r[k] = a[k]
    <3>1. CASE offset < k /\ k <= offset + n
      <4>1. k - offset \in 1..n /\ offset + (k - offset) = k
        BY <1>2, <3>1
      <4>2. old[k - offset] = a[offset + (k - offset)]
        BY <1>3, <4>1
      <4> QED
        BY <1>6, <3>1, <4>1, <4>2
    <3>2. CASE ~(offset < k /\ k <= offset + n)
      BY <1>5, <1>6, <3>2
    <3> QED
      BY <3>1, <3>2
  <2> QED
    BY <1>6, <2>1, SeqEqual DEF m
<1>8. ASSUME NEW t, NEW o, Holds(t, a, o) PROVE Holds(Applied(op, t), b, o)
  BY <1>2, <1>4, <1>8, OverwrittenIs DEF b, n, m
<1>9. ASSUME NEW t, NEW o, Holds(t, b, o) PROVE Holds(Reverted(op, t), a, o)
  <2>1. offset \in 0..Len(b) /\ Len(old) <= Len(b) - offset
    BY <1>2, <1>3, <1>5
  <2>2. Holds(Overwritten(t, offset, old), r, o)
    BY <1>3, <1>9, <2>1, OverwrittenIs DEF r
  <2> QED
    BY <1>4, <1>7, <2>2
<1>10. CASE old = data
  <2>1. \A k \in 1..Len(b) : b[k] = a[k]
    <3>1. ASSUME NEW k \in 1..m PROVE b[k] = a[k]
      <4>1. r[k] = b[k]
        BY <1>5, <1>6, <1>10
      <4> QED
        BY <1>7, <4>1
    <3> QED
      BY <1>5, <3>1
  <2>2. b = a
    BY <1>5, <2>1, SeqEqual DEF m
  <2> QED
    BY <1>4, <1>5, <1>8, <1>9, <1>10, <2>2 DEF Turns, b
<1>11. CASE old # data
  <2>1. b # a
    <3>1. SUFFICES ASSUME b = a PROVE FALSE
      OBVIOUS
    <3>2. ASSUME NEW j \in 1..n PROVE old[j] = data[j]
      <4> DEFINE k == offset + j
      <4>1. k \in 1..m /\ offset < k /\ k <= offset + n /\ k - offset = j
        BY <1>2
      <4> HIDE DEF k
      <4>2. b[k] = data[j]
        BY <1>5, <4>1
      <4>3. old[j] = a[k]
        BY <1>3 DEF k
      <4> QED
        BY <3>1, <4>2, <4>3
    <3>3. Len(data) = n
      BY DEF n
    <3>4. old = data
      BY <1>3, <3>2, <3>3, SeqEqual
    <3> QED
      BY <1>11, <3>4
  <2> QED
    BY <1>4, <1>5, <1>8, <1>9, <1>11, <2>1 DEF Turns, b
<1> QED
  BY <1>10, <1>11

LEMMA RefilledIs ==
  ASSUME NEW t, NEW c, NEW o, Holds(t, c, o), NEW data \in Seq(Byte)
  PROVE  Holds(Refilled(t, data), data, o)
<1> DEFINE n == Len(c)
           u == Deleted(t, 0, n)
           e == Cut(c, 0, 0 + n)
           s == Splice(e, 0, data)
<1>1. c \in Seq(Byte) /\ t.length = n /\ n \in Nat
  BY HoldsIs
<1>2. Refilled(t, data) = Inserted(u, 0, data)
  BY <1>1 DEF Refilled
<1>3. 0 \in 0..Len(c) /\ n \in 0..Len(c) - 0
  BY <1>1
<1>4. e \in Seq(Byte) /\ Len(e) = Len(c) - n
  <2> HIDE DEF n
  <2> QED
    BY <1>1, <1>3, SpliceCut
<1>5. Holds(u, e, o)
  <2> HIDE DEF n
  <2> QED
    BY <1>3, DeletedIs
<1>6. Len(e) = 0 /\ 0 \in 0..Len(e)
  BY <1>1, <1>4
<1> HIDE DEF u, e, n, s
<1>7. Holds(Inserted(u, 0, data), s, o)
  BY <1>5, <1>6, InsertedIs DEF s
<1>8. s = data
  <2> DEFINE d == Len(data)
  <2>1. /\ s \in Seq(Byte) /\ Len(s) = Len(e) + d
        /\ \A k \in 1..Len(e) + d : s[k] = IF k <= 0 THEN e[k]
                                           ELSE IF k <= 0 + d THEN data[k - 0] ELSE e[k - d]
    <3> DEFINE z == 0
               x == data
    <3>1. z \in 0..Len(e) /\ x \in Seq(Byte) /\ e \in Seq(Byte)
      BY <1>4, <1>6
    <3> HIDE DEF z, x
    <3>2. /\ Splice(e, z, x) \in Seq(Byte) /\ Len(Splice(e, z, x)) = Len(e) + Len(x)
          /\ \A k \in 1..Len(e) + Len(x) :
               Splice(e, z, x)[k] = IF k <= z THEN e[k]
                                    ELSE IF k <= z + Len(x) THEN x[k - z] ELSE e[k - Len(x)]
      BY <3>1, SpliceIs
    <3> QED
      BY <3>2 DEF s, z, x
  <2>2. d \in Nat
    BY LenProperties
  <2> HIDE DEF d
  <2>3. Len(s) = d /\ \A k \in 1..d : s[k] = data[k]
    BY <1>6, <2>1, <2>2
  <2> QED
    BY <2>1, <2>3, SeqEqual DEF d
<1> QED
  BY <1>2, <1>7, <1>8

LEMMA ReplaceTurns ==
  ASSUME NEW a \in Seq(Byte), NEW b \in Seq(Byte),
         NEW op, op = [kind |-> "replace", old |-> a, new |-> b]
  PROVE  Turns(op, a, b) /\ (ChangesBytes(op) <=> b # a)
<1>1. op.kind = "replace" /\ op.old = a /\ op.new = b
  OBVIOUS
<1>2. /\ \A t : Applied(op, t) = Refilled(t, b)
      /\ \A t : Reverted(op, t) = Refilled(t, a)
      /\ ChangesBytes(op) <=> a # b
  BY <1>1 DEF Applied, Reverted, ChangesBytes
<1> QED
  BY <1>2, RefilledIs DEF Turns

-------------------------------------------------------------------------------
(* Two blocks of n bytes that share none.                                  *)
Blocks(c, n, x, y) ==
  /\ c \in Seq(Byte) /\ n \in Nat /\ x \in Nat /\ y \in Nat
  /\ x + n <= Len(c) /\ y + n <= Len(c) /\ ~Overlap(x, y, n)

Block(p, n) == p \in Seq(Byte) /\ Len(p) = n

\* d is c with p at x and q at y.
Laid(d, c, n, x, p, y, q) ==
  /\ d \in Seq(Byte) /\ Len(d) = Len(c)
  /\ \A k \in 1..Len(c) :
       /\ x < k /\ k <= x + n => d[k] = p[k - x]
       /\ y < k /\ k <= y + n => d[k] = q[k - y]
       /\ ~(x < k /\ k <= x + n) /\ ~(y < k /\ k <= y + n) => d[k] = c[k]

LEMMA TwoSpans ==
  ASSUME NEW c, NEW n, NEW x, NEW y, Blocks(c, n, x, y),
         NEW p, NEW q, Block(p, n), Block(q, n)
  PROVE  /\ <<Span(x, p), Span(y, q)>> \in Seq(Spans(Len(c)))
         /\ Laid(Overlaid(c, <<Span(x, p), Span(y, q)>>), c, n, x, p, y, q)
<1> DEFINE s1 == Span(x, p)
           s2 == Span(y, q)
           spans == <<s1, s2>>
           d == Overlaid(c, spans)
           m == Len(c)
<1>0. /\ c \in Seq(Byte) /\ n \in Nat /\ x \in Nat /\ y \in Nat
      /\ x + n <= m /\ y + n <= m /\ ~Overlap(x, y, n)
      /\ p \in Seq(Byte) /\ Len(p) = n /\ q \in Seq(Byte) /\ Len(q) = n
  BY DEF Blocks, Block
<1>1. m \in Nat
  BY <1>0, LenProperties
<1>2. /\ s1 \in Spans(m) /\ s2 \in Spans(m)
      /\ s1.offset = x /\ s1.data = p /\ s2.offset = y /\ s2.data = q
  <2>1. x + Len(p) <= m /\ y + Len(q) <= m
    BY <1>0
  <2> HIDE DEF m
  <2> QED
    BY <1>0, <1>1, <2>1, SpanIs
<1> HIDE DEF s1, s2, m
<1>3. spans \in Seq(Spans(m)) /\ Len(spans) = 2 /\ spans[1] = s1 /\ spans[2] = s2
  BY <1>2
<1> HIDE DEF spans, d
<1>4. d \in Seq(Byte) /\ Len(d) = m
  BY <1>0, <1>3, OverlaidType DEF d, m
<1>5. ASSUME NEW k \in 1..m
      PROVE  /\ Covers(spans[1], k) <=> x < k /\ k <= x + n
             /\ Covers(spans[2], k) <=> y < k /\ k <= y + n
  BY <1>0, <1>2, <1>3 DEF Covers
<1>6. ASSUME NEW k \in 1..m
      PROVE  /\ (\A i \in 1..2 : ~Covers(spans[i], k)) => d[k] = c[k]
             /\ \A i \in 1..2 : Covers(spans[i], k) /\ (\A j \in i + 1..2 : ~Covers(spans[j], k))
                                  => d[k] = spans[i].data[k - spans[i].offset]
  <2>1. spans \in Seq(Spans(Len(c))) /\ k \in 1..Len(c) /\ d = Overlaid(c, spans)
    BY <1>3 DEF d, m
  <2> DEFINE l == Len(spans)
  <2>2. /\ (\A i \in 1..l : ~Covers(spans[i], k)) => d[k] = c[k]
        /\ \A i \in 1..l : Covers(spans[i], k) /\ (\A j \in i + 1..l : ~Covers(spans[j], k))
                             => d[k] = spans[i].data[k - spans[i].offset]
    BY <1>0, <2>1, OverlaidLast
  <2> HIDE DEF l
  <2>3. l = 2
    BY <1>3 DEF l
  <2> QED
    BY <2>2, <2>3
<1>7. ASSUME NEW k \in 1..m
      PROVE  /\ x < k /\ k <= x + n => d[k] = p[k - x]
             /\ y < k /\ k <= y + n => d[k] = q[k - y]
             /\ ~(x < k /\ k <= x + n) /\ ~(y < k /\ k <= y + n) => d[k] = c[k]
  <2>1. 1..2 = {1, 2} /\ 1 + 1..2 = {2} /\ 2 + 1..2 = {}
    OBVIOUS
  <2>2. ASSUME x < k, k <= x + n PROVE d[k] = p[k - x]
    <3>1. ~(y < k /\ k <= y + n)
      BY <1>0, <1>1, <2>2 DEF Overlap
    <3>2. Covers(spans[1], k) /\ \A j \in 1 + 1..2 : ~Covers(spans[j], k)
      BY <1>5, <2>1, <2>2, <3>1
    <3>3. d[k] = spans[1].data[k - spans[1].offset]
      BY <1>6, <3>2
    <3> QED
      BY <1>2, <1>3, <3>3
  <2>3. ASSUME y < k, k <= y + n PROVE d[k] = q[k - y]
    <3>1. Covers(spans[2], k) /\ \A j \in 2 + 1..2 : ~Covers(spans[j], k)
      BY <1>5, <2>1, <2>3
    <3>2. d[k] = spans[2].data[k - spans[2].offset]
      BY <1>6, <3>1
    <3> QED
      BY <1>2, <1>3, <3>2
  <2>4. ASSUME ~(x < k /\ k <= x + n), ~(y < k /\ k <= y + n) PROVE d[k] = c[k]
    <3>1. ~Covers(spans[1], k) /\ ~Covers(spans[2], k)
      BY <1>5, <2>4
    <3> QED
      BY <1>6, <2>1, <3>1
  <2> QED
    BY <2>2, <2>3, <2>4
<1> QED
  BY <1>3, <1>4, <1>7 DEF Laid, d, spans, s1, s2, m

(* An operation that writes two such blocks and puts them back.            *)
Exchange(a, n, x, y, p, q, spans, back) ==
  LET u == SubSeq(a, x + 1, x + n)
      v == SubSeq(a, y + 1, y + n)
  IN /\ Blocks(a, n, x, y) /\ Block(p, n) /\ Block(q, n)
     /\ spans = <<Span(x, p), Span(y, q)>>
     /\ back = <<Span(x, u), Span(y, v)>> \/ back = <<Span(y, v), Span(x, u)>>

AtBoth(a, n, x, y, p, q) == SubSeq(a, x + 1, x + n) = p /\ SubSeq(a, y + 1, y + n) = q

LEMMA BlocksTurn ==
  ASSUME NEW a, NEW n, NEW x, NEW y, NEW p, NEW q, NEW spans, NEW back,
         Exchange(a, n, x, y, p, q, spans, back)
  PROVE  /\ Overlaid(a, spans) \in Seq(Byte)
         /\ \A t, o : Holds(t, a, o) => Holds(Written(t, spans), Overlaid(a, spans), o)
         /\ \A t, o : Holds(t, Overlaid(a, spans), o) => Holds(Written(t, back), a, o)
         /\ AtBoth(a, n, x, y, p, q) <=> Overlaid(a, spans) = a
<1> DEFINE b == Overlaid(a, spans)
           r == Overlaid(b, back)
           m == Len(a)
           u == SubSeq(a, x + 1, x + n)
           v == SubSeq(a, y + 1, y + n)
<1>a. /\ Blocks(a, n, x, y) /\ Block(p, n) /\ Block(q, n)
      /\ spans = <<Span(x, p), Span(y, q)>>
      /\ back = <<Span(x, u), Span(y, v)>> \/ back = <<Span(y, v), Span(x, u)>>
  BY DEF Exchange
<1>0. /\ a \in Seq(Byte) /\ n \in Nat /\ x \in Nat /\ y \in Nat
      /\ x + n <= m /\ y + n <= m /\ ~Overlap(x, y, n)
      /\ p \in Seq(Byte) /\ Len(p) = n /\ q \in Seq(Byte) /\ Len(q) = n
  BY <1>a DEF Blocks, Block
<1>1. m \in Nat /\ x \in 0..m /\ n \in 0..m - x /\ y \in 0..m /\ n \in 0..m - y
  BY <1>0, LenProperties
<1>2. u \in Seq(Byte) /\ Len(u) = n /\ \A j \in 1..n : u[j] = a[x + j]
  BY <1>0, <1>1, SubAt
<1>3. v \in Seq(Byte) /\ Len(v) = n /\ \A j \in 1..n : v[j] = a[y + j]
  BY <1>0, <1>1, SubAt
<1> HIDE DEF u, v, b
<1>4. /\ spans \in Seq(Spans(m))
      /\ b \in Seq(Byte) /\ Len(b) = m
      /\ \A k \in 1..m :
           /\ x < k /\ k <= x + n => b[k] = p[k - x]
           /\ y < k /\ k <= y + n => b[k] = q[k - y]
           /\ ~(x < k /\ k <= x + n) /\ ~(y < k /\ k <= y + n) => b[k] = a[k]
  <2>1. spans \in Seq(Spans(Len(a))) /\ Laid(b, a, n, x, p, y, q)
    BY <1>a, TwoSpans DEF b
  <2> QED
    BY <2>1 DEF Laid
<1>5. Block(u, n) /\ Block(v, n) /\ Blocks(b, n, x, y) /\ Blocks(b, n, y, x)
  BY <1>0, <1>2, <1>3, <1>4 DEF Block, Blocks, Overlap
<1> HIDE DEF m, r
<1>6. /\ back \in Seq(Spans(m)) /\ r \in Seq(Byte) /\ Len(r) = m
      /\ \A k \in 1..m :
           /\ x < k /\ k <= x + n => r[k] = u[k - x]
           /\ y < k /\ k <= y + n => r[k] = v[k - y]
           /\ ~(x < k /\ k <= x + n) /\ ~(y < k /\ k <= y + n) => r[k] = b[k]
  <2>1. CASE back = <<Span(x, u), Span(y, v)>>
    <3>1. back \in Seq(Spans(Len(b))) /\ Laid(r, b, n, x, u, y, v)
      BY <1>5, <2>1, TwoSpans DEF r
    <3> QED
      BY <1>4, <3>1 DEF Laid
  <2>2. CASE back = <<Span(y, v), Span(x, u)>>
    <3>1. back \in Seq(Spans(Len(b))) /\ Laid(r, b, n, y, v, x, u)
      BY <1>5, <2>2, TwoSpans DEF r
    <3> QED
      BY <1>4, <3>1 DEF Laid
  <2> QED
    BY <1>a, <2>1, <2>2
<1>7. r = a
  <2>1. ASSUME NEW k \in 1..m PROVE r[k] = a[k]
    <3>1. CASE x < k /\ k <= x + n
      <4>1. k - x \in 1..n /\ x + (k - x) = k
        BY <1>0, <1>1, <3>1
      <4>2. u[k - x] = a[x + (k - x)]
        BY <1>2, <4>1
      <4> QED
        BY <1>6, <3>1, <4>1, <4>2
    <3>2. CASE y < k /\ k <= y + n
      <4>1. k - y \in 1..n /\ y + (k - y) = k
        BY <1>0, <1>1, <3>2
      <4>2. v[k - y] = a[y + (k - y)]
        BY <1>3, <4>1
      <4> QED
        BY <1>6, <3>2, <4>1, <4>2
    <3>3. CASE ~(x < k /\ k <= x + n) /\ ~(y < k /\ k <= y + n)
      BY <1>4, <1>6, <3>3
    <3> QED
      BY <3>1, <3>2, <3>3
  <2> QED
    BY <1>0, <1>6, <2>1, SeqEqual DEF m
<1>8. ASSUME NEW t, NEW o, Holds(t, a, o) PROVE Holds(Written(t, spans), b, o)
  BY <1>4, <1>8, WrittenIs DEF m, b
<1>9. ASSUME NEW t, NEW o, Holds(t, b, o) PROVE Holds(Written(t, back), a, o)
  <2>1. back \in Seq(Spans(Len(b)))
    BY <1>4, <1>6
  <2> QED
    BY <1>7, <1>9, <2>1, WrittenIs DEF r
<1>10. ASSUME u = p, v = q PROVE b = a
  <2>1. ASSUME NEW k \in 1..m PROVE b[k] = a[k]
    <3>1. CASE x < k /\ k <= x + n
      BY <1>4, <1>6, <1>7, <1>10, <3>1
    <3>2. CASE y < k /\ k <= y + n
      BY <1>4, <1>6, <1>7, <1>10, <3>2
    <3>3. CASE ~(x < k /\ k <= x + n) /\ ~(y < k /\ k <= y + n)
      BY <1>4, <3>3
    <3> QED
      BY <3>1, <3>2, <3>3
  <2> QED
    BY <1>0, <1>4, <2>1, SeqEqual DEF m
<1>11. ASSUME b = a PROVE u = p /\ v = q
  <2>1. ASSUME NEW j \in 1..n PROVE u[j] = p[j] /\ v[j] = q[j]
    <3> DEFINE k == x + j
               l == y + j
    <3>1. /\ k \in 1..m /\ x < k /\ k <= x + n /\ k - x = j
          /\ l \in 1..m /\ y < l /\ l <= y + n /\ l - y = j
      BY <1>0, <1>1
    <3> HIDE DEF k, l
    <3>2. b[k] = p[j] /\ b[l] = q[j]
      BY <1>4, <3>1
    <3>3. u[j] = a[k] /\ v[j] = a[l]
      BY <1>2, <1>3 DEF k, l
    <3> QED
      BY <1>11, <3>2, <3>3
  <2>2. u = p
    BY <1>0, <1>2, <2>1, SeqEqual
  <2>3. v = q
    BY <1>0, <1>3, <2>1, SeqEqual
  <2> QED
    BY <2>2, <2>3
<1> QED
  BY <1>4, <1>8, <1>9, <1>10, <1>11 DEF AtBoth, u, v, b

LEMMA ZerosAre ==
  ASSUME NEW n \in Nat
  PROVE  Zeros(n) \in Seq(Byte) /\ Len(Zeros(n)) = n
<1>1. \A k \in 1..n : Zero \in Byte
  BY BytesHaveZero
<1> QED
  BY <1>1, IsASeq DEF Zeros

MoveOf(op, a, n, from, to) ==
  /\ Blocks(a, n, from, to)
  /\ op = [kind |-> "move", from |-> from, to |-> to,
           moved |-> SubSeq(a, from + 1, from + n), old |-> SubSeq(a, to + 1, to + n)]

SwapOf(op, c, n, a, b) ==
  /\ Blocks(c, n, a, b)
  /\ op = [kind |-> "swap", a |-> a, b |-> b,
           dataA |-> SubSeq(c, a + 1, a + n), dataB |-> SubSeq(c, b + 1, b + n)]

LEMMA MoveTurns ==
  ASSUME NEW op, NEW a, NEW n, NEW from, NEW to, MoveOf(op, a, n, from, to)
  PROVE  \E b : Turns(op, a, b) /\ (ChangesBytes(op) <=> b # a)
<1> DEFINE u == SubSeq(a, from + 1, from + n)
           v == SubSeq(a, to + 1, to + n)
           z == Zeros(n)
           spans == <<Span(from, z), Span(to, u)>>
           back == <<Span(to, v), Span(from, u)>>
           b == Overlaid(a, spans)
<1>0. /\ a \in Seq(Byte) /\ n \in Nat /\ Len(a) \in Nat
      /\ from \in 0..Len(a) /\ n \in 0..Len(a) - from
      /\ to \in 0..Len(a) /\ n \in 0..Len(a) - to
  BY LenProperties DEF MoveOf, Blocks
<1>1. Block(u, n) /\ Len(u) = n
  BY <1>0, SubAt DEF Block
<1>2. Block(z, n)
  BY <1>0, ZerosAre DEF Block
<1>3. op.kind = "move" /\ op.from = from /\ op.to = to /\ op.moved = u /\ op.old = v
  BY DEF MoveOf
<1> HIDE DEF z
<1>4. /\ b \in Seq(Byte)
      /\ \A t, o : Holds(t, a, o) => Holds(Written(t, spans), b, o)
      /\ \A t, o : Holds(t, b, o) => Holds(Written(t, back), a, o)
      /\ u = z /\ v = u <=> b = a
  <2>1. Exchange(a, n, from, to, z, u, spans, back)
    BY <1>1, <1>2 DEF Exchange, MoveOf
  <2> HIDE DEF spans, back
  <2> QED
    <3>1. b \in Seq(Byte)
      BY <2>1, BlocksTurn
    <3>2. \A t, o : Holds(t, a, o) => Holds(Written(t, spans), b, o)
      BY <2>1, BlocksTurn
    <3>3. \A t, o : Holds(t, b, o) => Holds(Written(t, back), a, o)
      BY <2>1, BlocksTurn
    <3>4. u = z /\ v = u <=> b = a
      <4>1. AtBoth(a, n, from, to, z, u) <=> b = a
        BY <2>1, BlocksTurn
      <4> QED
        BY <4>1 DEF AtBoth
    <3> QED
      BY <3>1, <3>2, <3>3, <3>4
<1> HIDE DEF u, v, b
<1>5. /\ \A t : Applied(op, t) = Written(t, spans)
      /\ \A t : Reverted(op, t) = Written(t, back)
      /\ ChangesBytes(op) <=> u # z \/ v # u
  BY <1>1, <1>3 DEF Applied, Reverted, ChangesBytes, z
<1> HIDE DEF spans, back
<1> QED
  BY <1>0, <1>4, <1>5 DEF Turns

LEMMA SwapTurns ==
  ASSUME NEW op, NEW c, NEW n, NEW a, NEW b, SwapOf(op, c, n, a, b)
  PROVE  \E d : Turns(op, c, d) /\ (ChangesBytes(op) <=> d # c)
<1> DEFINE u == SubSeq(c, a + 1, a + n)
           v == SubSeq(c, b + 1, b + n)
           spans == <<Span(a, v), Span(b, u)>>
           back == <<Span(a, u), Span(b, v)>>
           d == Overlaid(c, spans)
<1>0. /\ c \in Seq(Byte) /\ n \in Nat /\ Len(c) \in Nat
      /\ a \in 0..Len(c) /\ n \in 0..Len(c) - a
      /\ b \in 0..Len(c) /\ n \in 0..Len(c) - b
  BY LenProperties DEF SwapOf, Blocks
<1>1. Block(u, n)
  BY <1>0, SubAt DEF Block
<1>2. Block(v, n)
  BY <1>0, SubAt DEF Block
<1>3. op.kind = "swap" /\ op.a = a /\ op.b = b /\ op.dataA = u /\ op.dataB = v
  BY DEF SwapOf
<1>4. /\ d \in Seq(Byte)
      /\ \A t, o : Holds(t, c, o) => Holds(Written(t, spans), d, o)
      /\ \A t, o : Holds(t, d, o) => Holds(Written(t, back), c, o)
      /\ u = v /\ v = u <=> d = c
  <2>1. Exchange(c, n, a, b, v, u, spans, back)
    BY <1>1, <1>2 DEF Exchange, SwapOf
  <2> HIDE DEF spans, back
  <2> QED
    <3>1. d \in Seq(Byte)
      BY <2>1, BlocksTurn
    <3>2. \A t, o : Holds(t, c, o) => Holds(Written(t, spans), d, o)
      BY <2>1, BlocksTurn
    <3>3. \A t, o : Holds(t, d, o) => Holds(Written(t, back), c, o)
      BY <2>1, BlocksTurn
    <3>4. u = v /\ v = u <=> d = c
      <4>1. AtBoth(c, n, a, b, v, u) <=> d = c
        BY <2>1, BlocksTurn
      <4> QED
        BY <4>1 DEF AtBoth
    <3> QED
      BY <3>1, <3>2, <3>3, <3>4
<1> HIDE DEF u, v, d
<1>5. /\ \A t : Applied(op, t) = Written(t, spans)
      /\ \A t : Reverted(op, t) = Written(t, back)
      /\ ChangesBytes(op) <=> u # v
  BY <1>3 DEF Applied, Reverted, ChangesBytes
<1> HIDE DEF spans, back
<1> QED
  BY <1>0, <1>4, <1>5 DEF Turns

-------------------------------------------------------------------------------
(* The same bytes written at every offset.                                 *)
SpansOf(offsets, bytes) == [k \in DOMAIN offsets |-> Span(offsets[k], bytes)]

Found(c, offsets, pattern) ==
  /\ offsets \in Seq(Nat)
  /\ \A k \in 1..Len(offsets) :
       /\ offsets[k] + Len(pattern) <= Len(c)
       /\ \A j \in 1..Len(pattern) : c[offsets[k] + j] = pattern[j]

LEMMA SpansOfIs ==
  ASSUME NEW m \in Nat, NEW offsets \in Seq(Nat), NEW bytes \in Seq(Byte),
         \A k \in 1..Len(offsets) : offsets[k] + Len(bytes) <= m
  PROVE  /\ SpansOf(offsets, bytes) \in Seq(Spans(m))
         /\ Len(SpansOf(offsets, bytes)) = Len(offsets)
         /\ \A k \in 1..Len(offsets) : /\ SpansOf(offsets, bytes)[k].offset = offsets[k]
                                       /\ SpansOf(offsets, bytes)[k].data = bytes
<1> DEFINE n == Len(offsets)
           e(k) == Span(offsets[k], bytes)
           s == [k \in 1..n |-> e(k)]
<1>1. n \in Nat /\ DOMAIN offsets = 1..n
  BY LenProperties
<1>2. SpansOf(offsets, bytes) = s
  BY <1>1 DEF SpansOf
<1>3. ASSUME NEW k \in 1..n PROVE e(k) \in Spans(m) /\ e(k).offset = offsets[k] /\ e(k).data = bytes
  <2>1. offsets[k] \in Nat
    BY ElementOfSeq
  <2> QED
    BY <2>1, SpanIs
<1> HIDE DEF e, n
<1>4. s \in Seq(Spans(m)) /\ Len(s) = n
  BY <1>1, <1>3, IsASeq
<1>5. \A k \in 1..n : s[k].offset = offsets[k] /\ s[k].data = bytes
  BY <1>3
<1> QED
  BY <1>2, <1>4, <1>5 DEF n

LEMMA RespannedIs ==
  ASSUME NEW t, NEW c, NEW o, Holds(t, c, o), NEW offsets, NEW bytes,
         SpansOf(offsets, bytes) \in Seq(Spans(Len(c)))
  PROVE  Holds(Respanned(t, offsets, bytes), Overlaid(c, SpansOf(offsets, bytes)), o)
<1> DEFINE s == SpansOf(offsets, bytes)
<1>1. c \in Seq(Byte) /\ Content(t) = c
  BY HoldsIs DEF Holds
<1>2. Respanned(t, offsets, bytes) = IF Len(offsets) <= SpanRewriteLimit THEN Written(t, s)
                                     ELSE Refilled(t, Overlaid(c, s))
  BY <1>1 DEF Respanned, SpansOf
<1> HIDE DEF s
<1>3. s \in Seq(Spans(Len(c)))
  BY DEF s
<1>4. Holds(Written(t, s), Overlaid(c, s), o)
  BY <1>3, WrittenIs
<1>5. Overlaid(c, s) \in Seq(Byte)
  BY <1>1, <1>3, OverlaidType
<1>6. Holds(Refilled(t, Overlaid(c, s)), Overlaid(c, s), o)
  BY <1>5, RefilledIs
<1> QED
  BY <1>2, <1>4, <1>6 DEF s

LEMMA MatchesTurn ==
  ASSUME NEW a \in Seq(Byte), NEW pattern \in Seq(Byte), NEW replacement \in Seq(Byte),
         Len(pattern) = Len(replacement), NEW offsets, Found(a, offsets, pattern),
         NEW op, op = [kind |-> "matches", offsets |-> offsets, old |-> pattern, new |-> replacement]
  PROVE  \E b : Turns(op, a, b) /\ (ChangesBytes(op) <=> b # a)
<1> DEFINE n == Len(offsets)
           d == Len(pattern)
           m == Len(a)
           spans == SpansOf(offsets, replacement)
           back == SpansOf(offsets, pattern)
           b == Overlaid(a, spans)
<1>1. n \in Nat /\ d \in Nat /\ m \in Nat /\ offsets \in Seq(Nat) /\ Len(replacement) = d
  BY LenProperties DEF Found
<1>2. \A k \in 1..n : /\ offsets[k] \in Nat /\ offsets[k] + d <= m
                      /\ \A j \in 1..d : a[offsets[k] + j] = pattern[j]
  <2>1. \A k \in 1..n : offsets[k] \in Nat
    BY <1>1, ElementOfSeq
  <2> QED
    BY <2>1 DEF Found
<1>3. op.kind = "matches" /\ op.offsets = offsets /\ op.old = pattern /\ op.new = replacement
  OBVIOUS
<1>4. /\ spans \in Seq(Spans(m)) /\ Len(spans) = n
      /\ \A k \in 1..n : spans[k].offset = offsets[k] /\ spans[k].data = replacement
  BY <1>1, <1>2, SpansOfIs
<1>5. /\ back \in Seq(Spans(m)) /\ Len(back) = n
      /\ \A k \in 1..n : back[k].offset = offsets[k] /\ back[k].data = pattern
  BY <1>1, <1>2, SpansOfIs
<1> HIDE DEF n, d, m, spans, back, b
<1>6. b \in Seq(Byte) /\ Len(b) = m
  BY <1>4, OverlaidType DEF b, m
<1>7. Carries(back, a)
  <2> SUFFICES ASSUME NEW i \in 1..n, NEW k \in 1..m, Covers(back[i], k)
               PROVE  back[i].data[k - back[i].offset] = a[k]
    BY <1>5 DEF Carries, m
  <2>1. back[i].offset = offsets[i] /\ back[i].data = pattern
    BY <1>5
  <2>2. offsets[i] < k /\ k <= offsets[i] + d
    BY <2>1 DEF Covers, d
  <2> DEFINE j == k - offsets[i]
  <2>3. j \in 1..d /\ offsets[i] + j = k
    BY <1>1, <1>2, <2>2, SMTT(40)
  <2> HIDE DEF j
  <2>4. a[offsets[i] + j] = pattern[j]
    BY <1>2, <2>3
  <2> QED
    BY <2>1, <2>3, <2>4 DEF j
<1>8. Overlaid(b, back) = a
  <2>1. ASSUME NEW i \in 1..n, NEW k \in 1..m, Covers(spans[i], k) PROVE Covers(back[i], k)
    BY <1>1, <1>4, <1>5, <2>1 DEF Covers, d
  <2>2. \A i \in 1..Len(spans) : \A k \in 1..Len(a) :
          Covers(spans[i], k) => \E j \in 1..Len(back) : Covers(back[j], k)
    BY <1>4, <1>5, <2>1 DEF m
  <2> QED
    BY <1>4, <1>5, <1>7, <2>2, Restored DEF b, m
<1>9. /\ \A t : Applied(op, t) = Respanned(t, offsets, replacement)
      /\ \A t : Reverted(op, t) = Respanned(t, offsets, pattern)
      /\ ChangesBytes(op) <=> offsets # <<>> /\ pattern # replacement
  BY <1>3 DEF Applied, Reverted, ChangesBytes
<1>10. ASSUME NEW t, NEW o, Holds(t, a, o) PROVE Holds(Applied(op, t), b, o)
  <2>1. SpansOf(offsets, replacement) \in Seq(Spans(Len(a)))
    BY <1>4 DEF spans, m
  <2>2. Holds(Respanned(t, offsets, replacement), Overlaid(a, SpansOf(offsets, replacement)), o)
    BY <1>10, <2>1, RespannedIs
  <2> QED
    BY <1>9, <2>2 DEF b, spans
<1>11. ASSUME NEW t, NEW o, Holds(t, b, o) PROVE Holds(Reverted(op, t), a, o)
  <2>1. SpansOf(offsets, pattern) \in Seq(Spans(Len(b)))
    BY <1>5, <1>6 DEF back
  <2>2. Holds(Respanned(t, offsets, pattern), Overlaid(b, SpansOf(offsets, pattern)), o)
    BY <1>11, <2>1, RespannedIs
  <2> QED
    BY <1>8, <1>9, <2>2 DEF back
<1>12. CASE offsets # <<>> /\ pattern # replacement
  <2>1. n \in Nat \ {0}
    BY <1>1, <1>12, EmptySeq DEF n
  <2>2. PICK j \in 1..d : pattern[j] # replacement[j]
    <3>1. SUFFICES ASSUME \A j \in 1..d : pattern[j] = replacement[j] PROVE FALSE
      OBVIOUS
    <3>2. pattern = replacement
      BY <1>1, <3>1, SeqEqual DEF d
    <3> QED
      BY <1>12, <3>2
  <2> DEFINE k == offsets[n] + j
  <2>3. n \in 1..n /\ offsets[n] \in Nat /\ offsets[n] + d <= m /\ a[offsets[n] + j] = pattern[j]
    BY <1>2, <2>1
  <2>4. k \in 1..m /\ offsets[n] < k /\ k <= offsets[n] + d /\ k - offsets[n] = j /\ a[k] = pattern[j]
    <3> DEFINE x == offsets[n]
    <3>1. x \in Nat /\ x + d <= m /\ m \in Nat /\ d \in Nat
      BY <1>1, <2>3
    <3> HIDE DEF x
    <3>2. x + j \in 1..m /\ x < x + j /\ x + j <= x + d /\ (x + j) - x = j
      BY <3>1
    <3> QED
      BY <2>3, <3>2 DEF x
  <2>5. spans[n].offset = offsets[n] /\ spans[n].data = replacement
    BY <1>4, <2>3
  <2> HIDE DEF k
  <2>6. Covers(spans[n], k)
    BY <1>1, <2>4, <2>5 DEF Covers
  <2>7. \A i \in n + 1..n : ~Covers(spans[i], k)
    BY <2>1
  <2>8. b[k] = spans[n].data[k - spans[n].offset]
    <3>1. spans \in Seq(Spans(Len(a))) /\ k \in 1..Len(a) /\ n = Len(spans)
      BY <1>4, <2>4 DEF m
    <3>2. n \in 1..Len(spans) /\ \A i \in n + 1..Len(spans) : ~Covers(spans[i], k)
      BY <2>3, <2>7, <3>1
    <3>3. \A i \in 1..Len(spans) :
            Covers(spans[i], k) /\ (\A j1 \in i + 1..Len(spans) : ~Covers(spans[j1], k))
              => Overlaid(a, spans)[k] = spans[i].data[k - spans[i].offset]
      BY <3>1, OverlaidLast
    <3> QED
      BY <2>6, <3>2, <3>3 DEF b
  <2>9. b[k] = replacement[j]
    BY <2>4, <2>5, <2>8
  <2>10. b # a
    BY <2>2, <2>4, <2>9
  <2> QED
    BY <1>6, <1>9, <1>10, <1>11, <1>12, <2>10 DEF Turns
<1>13. CASE ~(offsets # <<>> /\ pattern # replacement)
  <2>1. Carries(spans, a)
    <3>1. CASE offsets = <<>>
      <4>1. n = 0
        BY <3>1 DEF n
      <4> QED
        BY <1>4, <4>1 DEF Carries
    <3>2. CASE pattern = replacement
      <4>1. spans = back
        BY <3>2 DEF spans, back
      <4> QED
        BY <1>7, <4>1
    <3> QED
      BY <1>13, <3>1, <3>2
  <2>2. b = a
    BY <1>4, <2>1, Unchanged DEF b, m
  <2> QED
    BY <1>6, <1>9, <1>10, <1>11, <1>13, <2>2 DEF Turns
<1> QED
  BY <1>12, <1>13

-------------------------------------------------------------------------------
(* Disjoint runs written, and maybe the tail cut off.                      *)
Disjoint(runs) ==
  \A i, j \in 1..Len(runs) : i < j => runs[i].offset + Len(runs[i].data) <= runs[j].offset

WritesOf(runs, c) ==
  [k \in DOMAIN runs |->
     [offset |-> runs[k].offset, new |-> runs[k].data,
      old |-> SubSeq(c, runs[k].offset + 1, runs[k].offset + Len(runs[k].data))]]

ToWrite(writes) == [k \in DOMAIN writes |-> Span(writes[k].offset, writes[k].new)]
ToRestore(writes) == Reverse([k \in DOMAIN writes |-> Span(writes[k].offset, writes[k].old)])

LEMMA WritesAre ==
  ASSUME NEW a \in Seq(Byte), NEW runs \in Seq(Spans(Len(a)))
  PROVE  LET writes == WritesOf(runs, a)
             back == ToRestore(writes)
             n == Len(runs)
         IN /\ DOMAIN writes = 1..n
            /\ \A k \in 1..n : /\ writes[k].new = runs[k].data
                               /\ writes[k].old = SubSeq(a, runs[k].offset + 1,
                                                         runs[k].offset + Len(runs[k].data))
            /\ ToWrite(writes) = runs
            /\ back \in Seq(Spans(Len(a))) /\ Len(back) = n
            /\ Carries(back, a)
            /\ \A i \in 1..n : \A k \in 1..Len(a) :
                 Covers(runs[i], k) => \E j \in 1..n : Covers(back[j], k)
<1> DEFINE n == Len(runs)
           m == Len(a)
           writes == WritesOf(runs, a)
           old(k) == SubSeq(a, runs[k].offset + 1, runs[k].offset + Len(runs[k].data))
           back == ToRestore(writes)
           e(k) == Span(runs[k].offset, old(k))
           fore == [k \in 1..n |-> e(k)]
           At(i) == (n - i) + 1
           rev(i) == e(At(i))
<1>1. n \in Nat /\ m \in Nat /\ DOMAIN runs = 1..n
  BY LenProperties
<1>2. ASSUME NEW k \in 1..n
      PROVE  /\ runs[k] \in Spans(m) /\ runs[k].offset \in Nat /\ runs[k].data \in Seq(Byte)
             /\ old(k) \in Seq(Byte) /\ Len(old(k)) = Len(runs[k].data)
             /\ \A j \in 1..Len(runs[k].data) : old(k)[j] = a[runs[k].offset + j]
             /\ e(k) \in Spans(m) /\ e(k).offset = runs[k].offset /\ e(k).data = old(k)
  <2> DEFINE r == runs[k]
             x == r.offset
             l == Len(r.data)
  <2>1. r \in Spans(m)
    BY ElementOfSeq
  <2>2. /\ x \in Nat /\ r.data \in Seq(Byte) /\ l \in Nat /\ x + l <= m /\ x \in 0..m /\ l <= m - x
    BY <1>1, <2>1, SpanIs
  <2> HIDE DEF r, x, l, m
  <2> DEFINE y == SubSeq(a, x + 1, x + l)
  <2>3. x \in 0..Len(a) /\ l \in 0..Len(a) - x
    BY <1>1, <2>2 DEF m
  <2>4. y \in Seq(Byte) /\ Len(y) = l /\ \A j \in 1..l : y[j] = a[x + j]
    BY <2>3, SubAt
  <2>5. old(k) = y
    BY DEF x, l, r
  <2> HIDE DEF y, old
  <2>6. x + Len(y) <= m
    BY <2>2, <2>4
  <2>7. Span(x, y) \in Spans(m) /\ Span(x, y).offset = x /\ Span(x, y).data = y
    BY <1>1, <2>2, <2>4, <2>6, SpanIs
  <2>8. e(k) = Span(x, y)
    BY <2>5 DEF x, r
  <2> HIDE DEF e
  <2> QED
    BY <2>1, <2>2, <2>4, <2>5, <2>7, <2>8 DEF r, x, l
<1>3. /\ DOMAIN writes = 1..n
      /\ \A k \in 1..n : /\ writes[k].offset = runs[k].offset
                         /\ writes[k].new = runs[k].data
                         /\ writes[k].old = old(k)
  BY <1>1 DEF WritesOf
<1> HIDE DEF writes
<1>4. ToWrite(writes) = runs
  <2>1. ASSUME NEW k \in 1..n PROVE Span(writes[k].offset, writes[k].new) = runs[k]
    <3>1. runs[k] \in Spans(m)
      BY <1>2
    <3>2. runs[k] = [offset |-> runs[k].offset, data |-> runs[k].data]
      BY <3>1 DEF Spans
    <3> QED
      BY <1>3, <3>2 DEF Span
  <2>2. ToWrite(writes) = [k \in 1..n |-> runs[k]]
    BY <1>3, <2>1 DEF ToWrite
  <2>3. runs = [k \in 1..n |-> runs[k]]
    BY <1>1
  <2> QED
    BY <2>2, <2>3
<1>5. [k \in DOMAIN writes |-> Span(writes[k].offset, writes[k].old)] = fore
  BY <1>3
<1> HIDE DEF n, m, old, e
<1>6. fore \in Seq(Spans(m)) /\ Len(fore) = n
  BY <1>1, <1>2, IsASeq
<1>7. \A i \in 1..n : At(i) \in 1..n /\ At(At(i)) = i
  BY <1>1
<1>8. back = [i \in 1..n |-> rev(i)]
  <2>1. back = Reverse(fore)
    BY <1>5 DEF ToRestore
  <2>2. back = [i \in 1..n |-> fore[At(i)]]
    BY <1>6, <2>1 DEF Reverse
  <2> QED
    BY <1>7, <2>2
<1>9. \A i \in 1..n : rev(i) \in Spans(m)
  BY <1>2, <1>7
<1>10. back \in Seq(Spans(m)) /\ Len(back) = n /\ \A i \in 1..n : back[i] = e(At(i))
  <2>0. \A i \in 1..n : back[i] = e(At(i))
    BY <1>8
  <2> HIDE DEF rev, back
  <2>1. [i \in 1..n |-> rev(i)] \in Seq(Spans(m)) /\ Len([i \in 1..n |-> rev(i)]) = n
    BY <1>1, <1>9, IsASeq
  <2> QED
    BY <1>8, <2>0, <2>1
<1> HIDE DEF back, fore
<1>11. Carries(back, a)
  <2> SUFFICES ASSUME NEW i \in 1..n, NEW k \in 1..m, Covers(back[i], k)
               PROVE  back[i].data[k - back[i].offset] = a[k]
    BY <1>10 DEF Carries, m
  <2> DEFINE r == At(i)
             x == runs[r].offset
             l == Len(runs[r].data)
  <2>1. r \in 1..n
    BY <1>7
  <2> HIDE DEF r
  <2>2. back[i].offset = x /\ back[i].data = old(r) /\ x \in Nat /\ l \in Nat
        /\ Len(old(r)) = l /\ \A y \in 1..l : old(r)[y] = a[x + y]
    BY <1>2, <1>10, <2>1, LenProperties DEF r
  <2> HIDE DEF x, l
  <2>3. x < k /\ k <= x + l
    BY <2>2 DEF Covers
  <2> DEFINE y == k - x
  <2>4. y \in 1..l /\ x + y = k
    BY <1>1, <2>2, <2>3
  <2> HIDE DEF y
  <2>5. old(r)[y] = a[k]
    BY <2>2, <2>4
  <2> QED
    BY <2>2, <2>5 DEF y
<1>12. ASSUME NEW i \in 1..n, NEW k \in 1..m, Covers(runs[i], k)
       PROVE  \E j \in 1..n : Covers(back[j], k)
  <2> DEFINE j == At(i)
  <2>1. j \in 1..n /\ At(j) = i
    BY <1>7
  <2> HIDE DEF j
  <2>2. back[j] = e(i)
    BY <1>10, <2>1
  <2>3. Covers(e(i), k)
    BY <1>2, <1>12 DEF Covers
  <2> QED
    BY <2>1, <2>2, <2>3
<1> QED
  BY <1>3, <1>4, <1>10, <1>11, <1>12 DEF n, m, old, writes, back

(* A run is seen in the result when the runs are disjoint.                 *)
LEMMA RunSeen ==
  ASSUME NEW a \in Seq(Byte), NEW runs \in Seq(Spans(Len(a))), Disjoint(runs),
         NEW i \in 1..Len(runs), NEW j \in 1..Len(runs[i].data)
  PROVE  /\ runs[i].offset + j \in 1..Len(a)
         /\ Overlaid(a, runs)[runs[i].offset + j] = runs[i].data[j]
<1> DEFINE x == runs[i].offset
           l == Len(runs[i].data)
           k == x + j
           n == Len(runs)
           m == Len(a)
<1>1. n \in Nat /\ m \in Nat
  BY LenProperties
<1>2. runs[i] \in Spans(m) /\ x \in Nat /\ l \in Nat /\ x + l <= m
  <2>1. runs[i] \in Spans(m)
    BY ElementOfSeq
  <2> QED
    BY <1>1, <2>1, SpanIs
<1> HIDE DEF x, l, m, n
<1>3. j \in 1..l
  BY DEF l
<1>4. k \in 1..m /\ x < k /\ k <= x + l /\ k - x = j
  BY <1>1, <1>2, <1>3
<1> HIDE DEF k
<1>5. Covers(runs[i], k)
  BY <1>4 DEF Covers, x, l
<1>6. ASSUME NEW h \in i + 1..n PROVE ~Covers(runs[h], k)
  <2>1. h \in 1..n /\ i \in 1..n /\ i < h
    BY <1>1 DEF n
  <2>2. x + l <= runs[h].offset
    BY <2>1 DEF Disjoint, n, x, l
  <2>3. runs[h].offset \in Nat
    <3>1. runs[h] \in Spans(m)
      BY <2>1, ElementOfSeq DEF m, n
    <3> QED
      BY <1>1, <3>1, SpanIs
  <2> QED
    BY <1>1, <1>2, <1>4, <2>2, <2>3 DEF Covers
<1>7. \A h \in 1..Len(runs) :
        Covers(runs[h], k) /\ (\A g \in h + 1..Len(runs) : ~Covers(runs[g], k))
          => Overlaid(a, runs)[k] = runs[h].data[k - runs[h].offset]
  BY <1>4, OverlaidLast DEF m
<1>8. Overlaid(a, runs)[k] = runs[i].data[k - x]
  BY <1>5, <1>6, <1>7 DEF n, x
<1> QED
  BY <1>4, <1>8 DEF k, x, m

LEMMA ImportTurns ==
  ASSUME NEW a \in Seq(Byte), NEW runs \in Seq(Spans(Len(a))), Disjoint(runs),
         NEW cut \in {Empty} \cup 0..Len(a) - 1, NEW tail,
         tail = IF cut = Empty THEN <<>>
                ELSE SubSeq(Overlaid(a, runs), cut + 1, cut + (Len(a) - cut)),
         NEW op, op = [kind |-> "import", cut |-> cut, tail |-> tail, writes |-> WritesOf(runs, a)]
  PROVE  \E b : Turns(op, a, b) /\ (ChangesBytes(op) <=> b # a)
<1> DEFINE n == Len(runs)
           m == Len(a)
           writes == WritesOf(runs, a)
           back == ToRestore(writes)
           w == Overlaid(a, runs)
           b == IF cut = Empty THEN w ELSE Cut(w, cut, cut + (m - cut))
<1>1. n \in Nat /\ m \in Nat
  BY LenProperties
<1>2. w \in Seq(Byte) /\ Len(w) = m
  BY OverlaidType
<1>3. /\ DOMAIN writes = 1..n
      /\ \A k \in 1..n : /\ writes[k].new = runs[k].data
                         /\ writes[k].old = SubSeq(a, runs[k].offset + 1,
                                                   runs[k].offset + Len(runs[k].data))
      /\ ToWrite(writes) = runs
      /\ back \in Seq(Spans(m)) /\ Len(back) = n
      /\ Carries(back, a)
      /\ \A i \in 1..n : \A k \in 1..m :
           Covers(runs[i], k) => \E j \in 1..n : Covers(back[j], k)
  BY WritesAre
<1>4. op.kind = "import" /\ op.cut = cut /\ op.tail = tail /\ op.writes = writes
  OBVIOUS
<1>5. Empty \notin Nat
  BY DEF Empty
<1>6. cut # Empty => cut \in 0..m /\ m - cut \in 0..m - cut /\ m - cut \in Nat \ {0}
  BY <1>1, <1>5
<1> HIDE DEF n, writes, back, w, b
<1>7. Overlaid(w, back) = a
  BY <1>3, Restored DEF w, n, m
<1> HIDE DEF m
<1>8. /\ cut = Empty => tail = <<>> /\ b = w
      /\ cut # Empty => /\ tail \in Seq(Byte) /\ Len(tail) = m - cut
                        /\ b \in Seq(Byte) /\ Len(b) = m - (m - cut) /\ cut \in 0..Len(b)
                        /\ b = Cut(w, cut, cut + (m - cut)) /\ Splice(b, cut, tail) = w
  <2>1. CASE cut = Empty
    BY <2>1 DEF b
  <2>2. CASE cut # Empty
    <3> DEFINE l == m - cut
    <3>1. cut \in 0..Len(w) /\ l \in 0..Len(w) - cut /\ w \in Seq(Byte)
      BY <1>2, <1>6, <2>2
    <3>2. tail = SubSeq(w, cut + 1, cut + l) /\ b = Cut(w, cut, cut + l)
      BY <2>2 DEF b, w, m
    <3> HIDE DEF l
    <3> DEFINE y == SubSeq(w, cut + 1, cut + l)
               s == Cut(w, cut, cut + l)
    <3>a. y \in Seq(Byte) /\ Len(y) = l
      BY <3>1, SubAt
    <3>b. s \in Seq(Byte) /\ Len(s) = Len(w) - l /\ cut \in 0..Len(w) - l /\ Splice(s, cut, y) = w
      BY <3>1, SpliceCut
    <3>c. tail = y /\ b = s
      BY <3>2
    <3> HIDE DEF y, s
    <3>3. tail \in Seq(Byte) /\ Len(tail) = l
      BY <3>a, <3>c
    <3>4. b \in Seq(Byte) /\ Len(b) = Len(w) - l /\ cut \in 0..Len(w) - l /\ Splice(b, cut, tail) = w
      BY <3>b, <3>c
    <3> QED
      BY <1>2, <2>2, <3>2, <3>3, <3>4 DEF l
  <2> QED
    BY <2>1, <2>2
<1>9. /\ \A t : Applied(op, t) = IF cut = Empty THEN Written(t, runs)
                                 ELSE Deleted(Written(t, runs), cut, Len(tail))
      /\ \A t : Reverted(op, t) = Written(IF cut = Empty THEN t ELSE Inserted(t, cut, tail), back)
      /\ ChangesBytes(op) <=> \/ \E k \in 1..n : writes[k].old # writes[k].new
                              \/ tail # <<>>
  <2>1. \A t : Applied(op, t) = IF cut = Empty THEN Written(t, ToWrite(writes))
                                ELSE Deleted(Written(t, ToWrite(writes)), cut, Len(tail))
    BY <1>4 DEF Applied, ToWrite
  <2>2. \A t : Reverted(op, t) = Written(IF cut = Empty THEN t ELSE Inserted(t, cut, tail),
                                         ToRestore(writes))
    BY <1>4 DEF Reverted, ToRestore
  <2>3. ChangesBytes(op) <=> \/ \E k \in DOMAIN writes : writes[k].old # writes[k].new
                             \/ tail # <<>>
    BY <1>4 DEF ChangesBytes
  <2> QED
    BY <1>3, <2>1, <2>2, <2>3 DEF back
<1>10. b \in Seq(Byte)
  BY <1>2, <1>8
<1>11. ASSUME NEW t, NEW o, Holds(t, a, o) PROVE Holds(Applied(op, t), b, o)
  <2> DEFINE u == Written(t, runs)
  <2>1. Holds(u, w, o)
    BY <1>11, WrittenIs DEF w
  <2> HIDE DEF u
  <2>2. CASE cut = Empty
    BY <1>8, <1>9, <2>1, <2>2 DEF u
  <2>3. CASE cut # Empty
    <3> DEFINE l == m - cut
    <3>1. cut \in 0..Len(w) /\ l \in 0..Len(w) - cut /\ b = Cut(w, cut, cut + l) /\ Len(tail) = l
      BY <1>2, <1>6, <1>8, <2>3
    <3> HIDE DEF l
    <3>2. Holds(Deleted(u, cut, l), b, o)
      BY <2>1, <3>1, DeletedIs
    <3>3. Applied(op, t) = Deleted(u, cut, l)
      BY <1>9, <2>3, <3>1 DEF u
    <3> QED
      BY <3>2, <3>3
  <2> QED
    BY <2>2, <2>3
<1>12. ASSUME NEW t, NEW o, Holds(t, b, o) PROVE Holds(Reverted(op, t), a, o)
  <2> DEFINE u == IF cut = Empty THEN t ELSE Inserted(t, cut, tail)
  <2>1. Holds(u, w, o)
    <3>1. CASE cut = Empty
      BY <1>8, <1>12, <3>1
    <3>2. CASE cut # Empty
      <4>1. Holds(Inserted(t, cut, tail), Splice(b, cut, tail), o)
        BY <1>8, <1>12, <3>2, InsertedIs
      <4> QED
        BY <1>8, <3>2, <4>1
    <3> QED
      BY <3>1, <3>2
  <2> HIDE DEF u
  <2>2. back \in Seq(Spans(Len(w)))
    BY <1>2, <1>3
  <2>3. Holds(Written(u, back), a, o)
    BY <1>7, <2>1, <2>2, WrittenIs
  <2> QED
    BY <1>9, <2>3 DEF u
<1>13. ChangesBytes(op) <=> b # a
  <2>1. CASE cut # Empty
    <3>1. tail # <<>>
      <4>1. Len(tail) \in Nat \ {0}
        BY <1>6, <1>8, <2>1
      <4> QED
        BY <4>1
    <3>2. Len(b) # Len(a)
      BY <1>1, <1>6, <1>8, <2>1 DEF m
    <3> QED
      BY <1>9, <3>1, <3>2
  <2>2. CASE cut = Empty
    <3>1. tail = <<>> /\ b = w
      BY <1>8, <2>2
    <3>2. ASSUME \A k \in 1..n : writes[k].old = writes[k].new PROVE w = a
      <4>1. Carries(runs, a)
        <5> SUFFICES ASSUME NEW i \in 1..n, NEW k \in 1..m, Covers(runs[i], k)
                     PROVE  runs[i].data[k - runs[i].offset] = a[k]
          BY DEF Carries, n, m
        <5> DEFINE x == runs[i].offset
                   l == Len(runs[i].data)
                   y == k - x
        <5>1. x \in Nat /\ l \in Nat /\ x + l <= m /\ x \in 0..m /\ l <= m - x
          <6>1. runs[i] \in Spans(m)
            BY ElementOfSeq DEF n, m
          <6> QED
            BY <1>1, <6>1, SpanIs
        <5>2. runs[i].data = SubSeq(a, x + 1, x + l)
          BY <1>3, <3>2
        <5>3. x < k /\ k <= x + l
          BY DEF Covers
        <5> HIDE DEF x, l
        <5>4. y \in 1..l /\ x + y = k /\ x \in 0..Len(a) /\ l \in 0..Len(a) - x
          BY <1>1, <5>1, <5>3 DEF m
        <5> HIDE DEF y
        <5>5. SubSeq(a, x + 1, x + l)[y] = a[x + y]
          BY <5>4, SubAt
        <5> QED
          BY <5>2, <5>4, <5>5 DEF y, x
      <4> QED
        BY <4>1, Unchanged DEF w
    <3>3. ASSUME w = a PROVE \A k \in 1..n : writes[k].old = writes[k].new
      <4> SUFFICES ASSUME NEW k \in 1..n PROVE writes[k].old = writes[k].new
        OBVIOUS
      <4> DEFINE x == runs[k].offset
                 d == runs[k].data
                 l == Len(d)
                 y == SubSeq(a, x + 1, x + l)
      <4>1. d \in Seq(Byte) /\ x \in Nat /\ l \in Nat /\ x + l <= m /\ x \in 0..m /\ l <= m - x
        <5>1. runs[k] \in Spans(m)
          BY ElementOfSeq DEF n, m
        <5> QED
          BY <1>1, <5>1, SpanIs
      <4>2. writes[k].old = y /\ writes[k].new = d
        BY <1>3
      <4>3. ASSUME NEW j \in 1..l PROVE a[x + j] = d[j]
        <5>1. k \in 1..Len(runs)
          BY DEF n
        <5>2. Overlaid(a, runs)[runs[k].offset + j] = runs[k].data[j]
          BY <5>1, RunSeen
        <5> QED
          BY <3>3, <5>2 DEF w
      <4> HIDE DEF x, d, l
      <4>4. x \in 0..Len(a) /\ l \in 0..Len(a) - x
        BY <1>1, <4>1 DEF m
      <4>5. y \in Seq(Byte) /\ Len(y) = l /\ \A j \in 1..l : y[j] = a[x + j]
        BY <4>4, SubAt
      <4> HIDE DEF y
      <4>6. y = d
        BY <4>1, <4>3, <4>5, SeqEqual DEF l
      <4> QED
        BY <4>2, <4>6
    <3> QED
      BY <1>9, <3>1, <3>2, <3>3
  <2> QED
    BY <2>1, <2>2
<1> QED
  BY <1>10, <1>11, <1>12, <1>13 DEF Turns

-------------------------------------------------------------------------------
(* Searching: every match lies in the document and holds the pattern.      *)
Scans(data, pattern) ==
  {s \in [found : Seq(Nat), free : Nat] : Found(data, s.found, pattern)}

LEMMA MatchesAre ==
  ASSUME NEW data \in Seq(Byte), NEW pattern \in Seq(Byte)
  PROVE  Found(data, Matches(data, pattern), pattern)
<1> DEFINE m == Len(data)
           d == Len(pattern)
           V == Scans(data, pattern)
           b == [found |-> <<>>, free |-> 0]
           At(x) == x + d <= m /\ SubSeq(data, x + 1, x + d) = pattern
           With(i, v) == IF v.free < i /\ At(i - 1)
                         THEN [found |-> Append(v.found, i - 1), free |-> i - 1 + d] ELSE v
           Is(f) == f = [i \in 0..m |-> IF i = 0 THEN b ELSE With(i, f[i - 1])]
           step == [i \in 1..m |-> [v \in V |-> With(i, v)]]
           k == CHOOSE f : Is(f)
<1>1. m \in Nat /\ d \in Nat
  BY LenProperties
<1>2. Matches(data, pattern) = k[m].found
  BY DEF Matches
<1>3. b \in V
  <2> DEFINE e == <<>>
  <2>1. e \in Seq(Nat) /\ Len(e) = 0
    OBVIOUS
  <2> HIDE DEF e
  <2>2. Found(data, e, pattern)
    BY <2>1 DEF Found
  <2>3. b = [found |-> e, free |-> 0]
    BY DEF e
  <2> HIDE DEF b
  <2> QED
    BY <2>1, <2>2, <2>3 DEF Scans
<1>4. step \in Steps(m, V)
  <2>1. ASSUME NEW i \in 1..m, NEW v \in V PROVE With(i, v) \in V
    <3>1. v.found \in Seq(Nat) /\ v.free \in Nat /\ Found(data, v.found, pattern)
      BY DEF Scans
    <3>2. CASE ~(v.free < i /\ At(i - 1))
      BY <3>2
    <3>3. CASE v.free < i /\ At(i - 1)
      <4> DEFINE x == i - 1
                 s == Append(v.found, x)
                 r == [found |-> s, free |-> x + d]
                 l == Len(v.found)
      <4>1. With(i, v) = r
        BY <3>3
      <4>2. x \in Nat /\ x + d <= m /\ SubSeq(data, x + 1, x + d) = pattern
        BY <3>3
      <4>3. l \in Nat
        BY <3>1, LenProperties
      <4> HIDE DEF x, s, At, l
      <4>4. /\ s \in Seq(Nat) /\ Len(s) = l + 1 /\ s[l + 1] = x
            /\ \A j \in 1..l : s[j] = v.found[j]
        BY <3>1, <4>2, AppendProperties DEF s, l
      <4>5. \A j \in 1..d : data[x + j] = pattern[j]
        <5>1. x \in 0..Len(data) /\ d \in 0..Len(data) - x
          BY <1>1, <4>2
        <5> HIDE DEF d
        <5>2. \A j \in 1..d : SubSeq(data, x + 1, x + d)[j] = data[x + j]
          BY <5>1, SubAt
        <5> QED
          BY <4>2, <5>2
      <4>6. ASSUME NEW j \in 1..Len(s)
            PROVE  s[j] + d <= m /\ \A y \in 1..d : data[s[j] + y] = pattern[y]
        <5>1. CASE j = l + 1
          BY <4>2, <4>4, <4>5, <5>1
        <5>2. CASE j # l + 1
          <6>1. j \in 1..l
            BY <4>3, <4>4, <5>2
          <6> QED
            BY <3>1, <4>4, <6>1 DEF Found, l
        <5> QED
          BY <5>1, <5>2
      <4>7. Found(data, s, pattern)
        BY <4>4, <4>6 DEF Found
      <4>8. x + d \in Nat
        BY <1>1, <4>2
      <4> HIDE DEF m, d
      <4>9. r \in V
        BY <4>4, <4>7, <4>8 DEF Scans
      <4> QED
        BY <4>1, <4>9
    <3> QED
      BY <3>2, <3>3
  <2> HIDE DEF V, m, With
  <2> QED
    BY <2>1 DEF Steps
<1> HIDE DEF m, d, V, k, b, With
<1>5. PICK f \in [0..m -> V] : f[0] = b /\ \A i \in 1..m : f[i] = step[i][f[i - 1]]
  <2> HIDE DEF step
  <2>1. \E f \in [0..m -> V] : Follows(f, m, b, step)
    BY <1>1, <1>3, <1>4, Recursion
  <2> QED
    BY <2>1 DEF Follows
<1>6. ASSUME NEW i \in 1..m PROVE f[i] = With(i, f[i - 1])
  <2>1. f[i - 1] \in V
    BY <1>1
  <2>2. f[i] = step[i][f[i - 1]]
    BY <1>5
  <2> QED
    BY <2>1, <2>2
<1>7. Is(f)
  BY <1>1, <1>5, <1>6
<1>8. Is(k)
  <2> HIDE DEF Is
  <2> QED
    BY <1>7 DEF k
<1>9. k[0] = b /\ \A i \in 1..m : k[i] = With(i, k[i - 1])
  BY <1>1, <1>8
<1>10. \A i \in 0..m : k[i] = f[i]
  <2> DEFINE T == {i \in 0..m : k[i] = f[i]}
  <2>1. 0 \in T
    BY <1>1, <1>5, <1>9
  <2>2. \A i \in 0..m - 1 : i \in T => i + 1 \in T
    BY <1>1, <1>6, <1>9
  <2> HIDE DEF T
  <2>3. \A i \in 0..m : i \in T
    BY <1>1, <2>1, <2>2, Climb
  <2> QED
    BY <2>3 DEF T
<1>11. k[m] \in V
  BY <1>1, <1>10
<1> QED
  BY <1>2, <1>11 DEF V, Scans

LEMMA ReplacedAllIs ==
  ASSUME NEW data \in Seq(Byte), NEW pattern \in Seq(Byte), NEW replacement \in Seq(Byte)
  PROVE  ReplacedAll(data, pattern, replacement) \in Seq(Byte)
<1> DEFINE matches == Matches(data, pattern)
           n == Len(matches)
           m == Len(data)
           d == Len(pattern)
           end(i) == IF i = 0 THEN 0 ELSE matches[i] + d
           V == Seq(Byte)
           b == <<>>
           With(i, v) == v \o SubSeq(data, end(i - 1) + 1, matches[i]) \o replacement
           Is(f) == f = [i \in 0..n |-> IF i = 0 THEN b ELSE With(i, f[i - 1])]
           step == [i \in 1..n |-> [v \in V |-> With(i, v)]]
           k == CHOOSE f : Is(f)
<1>0. Found(data, matches, pattern)
  BY MatchesAre
<1>1. n \in Nat /\ m \in Nat /\ d \in Nat
  BY <1>0, LenProperties DEF Found
<1>2. ReplacedAll(data, pattern, replacement) = k[n] \o SubSeq(data, end(n) + 1, m)
  BY DEF ReplacedAll
<1>3. b \in V
  OBVIOUS
<1> HIDE DEF matches
<1>4. \A i \in 1..n : matches[i] \in Nat /\ matches[i] + d <= m
  <2>1. matches \in Seq(Nat)
    BY <1>0 DEF Found
  <2>2. \A i \in 1..n : matches[i] \in Nat
    BY <2>1, ElementOfSeq
  <2> QED
    BY <1>0, <2>2 DEF Found
<1>5. \A i \in 0..n : end(i) \in Nat
  BY <1>1, <1>4
<1> HIDE DEF end
<1>6. ASSUME NEW x \in Nat, NEW y \in Int, y <= m PROVE SubSeq(data, x + 1, y) \in V
  <2>1. ASSUME NEW i \in x + 1..y PROVE data[i] \in Byte
    <3>1. i \in 1..Len(data)
      BY <1>1, <1>6
    <3> QED
      BY <3>1, ElementOfSeq
  <2>2. x + 1 \in Int
    OBVIOUS
  <2> QED
    BY <2>1, <2>2, SubSeqProperties
<1>7. step \in Steps(n, V)
  <2>1. ASSUME NEW i \in 1..n, NEW v \in V PROVE With(i, v) \in V
    <3> DEFINE s == SubSeq(data, end(i - 1) + 1, matches[i])
    <3>1. i - 1 \in 0..n /\ matches[i] \in Int /\ matches[i] <= m
      BY <1>1, <1>4
    <3>2. end(i - 1) \in Nat
      BY <1>5, <3>1
    <3> DEFINE x == end(i - 1)
    <3>3. x \in Nat
      BY <3>2
    <3> HIDE DEF x, m
    <3>4. SubSeq(data, x + 1, matches[i]) \in V
      BY <1>6, <3>1, <3>3
    <3>5. s \in V
      BY <3>4 DEF x
    <3> HIDE DEF s
    <3>6. v \o s \in V
      BY <3>5, ConcatProperties
    <3> DEFINE r == v \o s
    <3> HIDE DEF r
    <3>7. r \o replacement \in V
      BY <3>6, ConcatProperties DEF r
    <3> QED
      BY <3>7 DEF r, s
  <2> HIDE DEF V, n, With
  <2> QED
    BY <2>1 DEF Steps
<1> HIDE DEF n, V, k, b, With
<1>8. PICK f \in [0..n -> V] : f[0] = b /\ \A i \in 1..n : f[i] = step[i][f[i - 1]]
  <2> HIDE DEF step
  <2>1. \E f \in [0..n -> V] : Follows(f, n, b, step)
    BY <1>1, <1>3, <1>7, Recursion
  <2> QED
    BY <2>1 DEF Follows
<1>9. ASSUME NEW i \in 1..n PROVE f[i] = With(i, f[i - 1])
  <2>1. f[i - 1] \in V
    BY <1>1
  <2>2. f[i] = step[i][f[i - 1]]
    BY <1>8
  <2> QED
    BY <2>1, <2>2
<1>10. Is(f)
  BY <1>1, <1>8, <1>9
<1>11. Is(k)
  <2> HIDE DEF Is
  <2> QED
    BY <1>10 DEF k
<1>12. k[0] = b /\ \A i \in 1..n : k[i] = With(i, k[i - 1])
  BY <1>1, <1>11
<1>13. \A i \in 0..n : k[i] = f[i]
  <2> DEFINE T == {i \in 0..n : k[i] = f[i]}
  <2>1. 0 \in T
    BY <1>1, <1>8, <1>12
  <2>2. \A i \in 0..n - 1 : i \in T => i + 1 \in T
    BY <1>1, <1>9, <1>12
  <2> HIDE DEF T
  <2>3. \A i \in 0..n : i \in T
    BY <1>1, <2>1, <2>2, Climb
  <2> QED
    BY <2>3 DEF T
<1>14. k[n] \in V /\ end(n) \in Nat /\ m \in Int /\ m <= m
  BY <1>1, <1>5, <1>13
<1> DEFINE x == end(n)
<1> HIDE DEF x, m
<1>15. SubSeq(data, x + 1, m) \in V
  BY <1>6, <1>14 DEF x
<1>16. k[n] \o SubSeq(data, x + 1, m) \in V
  BY <1>14, <1>15, ConcatProperties DEF V
<1> QED
  BY <1>2, <1>16 DEF V, x

-------------------------------------------------------------------------------
(* Each edit turns the document's bytes c into some b, and is recorded     *)
(* exactly when b differs.                                                 *)
TurnedFrom(c) ==
  \/ UNCHANGED vars
  \/ \E op, b : /\ Turns(op, c, b)
                /\ ChangesBytes(op) <=> b # c
                /\ Holds(table', b, table.original)
                /\ Commit(op)

Now(c) == Holds(table, c, table.original)

LEMMA NowIs ==
  ASSUME NEW c, Now(c)
  PROVE  /\ c \in Seq(Byte) /\ Len(c) \in Nat /\ Size = Len(c) /\ Offsets = 0..Len(c)
         /\ Content(table) = c
BY HoldsIs DEF Now, Size, Offsets, Holds

LEMMA ReadAs ==
  ASSUME NEW t, NEW c, Content(t) = c, t.length = Len(c), c \in Seq(Byte),
         NEW offset \in 0..Len(c), NEW n \in Nat, n <= Len(c) - offset
  PROVE  Read(t, offset, n) = SubSeq(c, offset + 1, offset + n)
<1>1. Len(c) \in Nat
  BY LenProperties
<1>2. Smallest(offset + n, Len(c)) = offset + n
  BY <1>1 DEF Smallest
<1> QED
  BY <1>2 DEF Read

LEMMA ReadPart ==
  ASSUME NEW c, Now(c), NEW offset \in 0..Len(c), NEW n \in Nat, n <= Len(c) - offset
  PROVE  Read(table, offset, n) = SubSeq(c, offset + 1, offset + n)
<1>1. Content(table) = c /\ table.length = Len(c) /\ c \in Seq(Byte)
  BY NowIs DEF Size
<1> QED
  BY <1>1, ReadAs

LEMMA ReadBlock ==
  ASSUME NEW c, Now(c), NEW offset \in 0..Len(c), NEW n \in Nat, n <= Len(c) - offset
  PROVE  Read(table, offset, n) \in Seq(Byte) /\ Len(Read(table, offset, n)) = n
<1>1. c \in Seq(Byte) /\ Len(c) \in Nat
  BY NowIs
<1>2. n \in 0..Len(c) - offset
  BY <1>1
<1>3. SubSeq(c, offset + 1, offset + n) \in Seq(Byte) /\ Len(SubSeq(c, offset + 1, offset + n)) = n
  BY <1>1, <1>2, SubAt
<1> QED
  BY <1>3, ReadPart

LEMMA ReadRest ==
  ASSUME NEW c, Now(c), NEW offset \in 0..Len(c), NEW n \in Nat
  PROVE  Read(table, offset, n) = SubSeq(c, offset + 1, Smallest(offset + n, Len(c)))
<1>1. Content(table) = c /\ table.length = Len(c)
  BY NowIs DEF Size
<1> QED
  BY <1>1 DEF Read

LEMMA EditTurned ==
  ASSUME NEW c, Now(c), NEW op, NEW b,
         Turns(op, c, b), ChangesBytes(op) <=> b # c, Edit(op)
  PROVE  TurnedFrom(c)
<1>1. Holds(Applied(op, table), b, table.original)
  BY DEF Turns, Now
<1>2. table' = Applied(op, table) /\ Commit(op)
  BY DEF Edit
<1>3. Holds(table', b, table.original)
  BY <1>1, <1>2
<1> QED
  BY <1>2, <1>3 DEF TurnedFrom

LEMMA OverwriteTurned ==
  ASSUME NEW c, Now(c), NEW offset \in 0..Len(c), NEW data \in Seq(Byte),
         offset + Len(data) <= Len(c), Overwrite(offset, data)
  PROVE  TurnedFrom(c)
<1> DEFINE n == Len(data)
           old == SubSeq(c, offset + 1, offset + n)
           op == [kind |-> "overwrite", offset |-> offset, old |-> old, new |-> data]
           b == Patched(c, offset, data)
<1>1. c \in Seq(Byte) /\ Len(c) \in Nat /\ n \in Nat /\ n <= Len(c) - offset
  BY NowIs, LenProperties
<1>2. Read(table, offset, n) = old
  BY <1>1, ReadPart
<1>3. Edit(op)
  BY <1>2 DEF Overwrite
<1>4. Turns(op, c, b) /\ (ChangesBytes(op) <=> b # c)
  BY <1>1, OverwriteTurns
<1> HIDE DEF op, b
<1> QED
  BY <1>3, <1>4, EditTurned

LEMMA InsertTurned ==
  ASSUME NEW c, Now(c), NEW offset \in 0..Len(c), NEW data \in Seq(Byte), InsertBytes(offset, data)
  PROVE  TurnedFrom(c)
<1> DEFINE op == [kind |-> "insert", offset |-> offset, new |-> data]
           b == Splice(c, offset, data)
<1>1. c \in Seq(Byte)
  BY NowIs
<1>2. Edit(op)
  BY DEF InsertBytes
<1>3. Turns(op, c, b) /\ (ChangesBytes(op) <=> b # c)
  BY <1>1, InsertTurns
<1> HIDE DEF op, b
<1> QED
  BY <1>2, <1>3, EditTurned

LEMMA DeleteTurned ==
  ASSUME NEW c, Now(c), NEW offset \in 0..Len(c), NEW n \in Nat, DeleteBytes(offset, n)
  PROVE  TurnedFrom(c)
<1> DEFINE e == Smallest(offset + n, Len(c))
           d == e - offset
           old == SubSeq(c, offset + 1, offset + d)
           op == [kind |-> "delete", offset |-> offset, old |-> old]
           b == Cut(c, offset, offset + d)
<1>1. c \in Seq(Byte) /\ Len(c) \in Nat
  BY NowIs
<1>2. e \in offset..Len(c)
  BY <1>1 DEF Smallest
<1> HIDE DEF e
<1>3. d \in 0..Len(c) - offset /\ offset + d = e
  BY <1>1, <1>2
<1>4. Read(table, offset, n) = SubSeq(c, offset + 1, e)
  BY ReadRest DEF e
<1>5. Edit(op)
  BY <1>3, <1>4 DEF DeleteBytes
<1> HIDE DEF d
<1>6. Turns(op, c, b) /\ (ChangesBytes(op) <=> b # c)
  BY <1>1, <1>3, DeleteTurns
<1> HIDE DEF op, b
<1> QED
  BY <1>5, <1>6, EditTurned

LEMMA FillTurned ==
  ASSUME NEW c, Now(c), NEW offset \in 0..Len(c), NEW n \in Nat, NEW pattern \in Seq(Byte),
         FillBlock(offset, n, pattern)
  PROVE  TurnedFrom(c)
<1> DEFINE l == Len(pattern)
           e(k) == pattern[((k - 1) % l) + 1]
           data == [k \in 1..n |-> e(k)]
<1>1. pattern # <<>> /\ offset + n <= Len(c) /\ Overwrite(offset, data)
  BY NowIs DEF FillBlock, InDocument
<1>2. l \in Nat \ {0}
  BY <1>1, EmptySeq
<1>3. ASSUME NEW k \in 1..n PROVE e(k) \in Byte
  <2> DEFINE x == k - 1
             y == x % l
  <2>1. x \in Nat
    OBVIOUS
  <2> HIDE DEF x, l
  <2>2. y \in 0..l - 1
    BY <1>2, <2>1
  <2> HIDE DEF y
  <2>3. y + 1 \in 1..l
    BY <1>2, <2>2
  <2>4. y + 1 \in 1..Len(pattern)
    BY <2>3 DEF l
  <2>5. pattern[y + 1] \in Byte
    BY <2>4, ElementOfSeq
  <2> QED
    BY <2>5 DEF y, x, l
<1> HIDE DEF e
<1>4. data \in Seq(Byte) /\ Len(data) = n
  BY <1>3, IsASeq
<1> HIDE DEF data
<1> QED
  BY <1>1, <1>4, OverwriteTurned

LEMMA CopyTurned ==
  ASSUME NEW c, Now(c), NEW a \in 0..Len(c), NEW b \in 0..Len(c), NEW n \in Nat, CopyBlock(a, n, b)
  PROVE  TurnedFrom(c)
<1> DEFINE data == Read(table, a, n)
<1>1. c \in Seq(Byte) /\ Len(c) \in Nat
  BY NowIs
<1>2. a + n <= Len(c) /\ b + n <= Len(c) /\ Overwrite(b, data)
  BY NowIs DEF CopyBlock, InDocument
<1>3. n <= Len(c) - a
  BY <1>1, <1>2
<1>4. data \in Seq(Byte) /\ Len(data) = n
  BY <1>3, ReadBlock
<1> HIDE DEF data
<1> QED
  BY <1>2, <1>4, OverwriteTurned

LEMMA MoveTurned ==
  ASSUME NEW c, Now(c), NEW a \in 0..Len(c), NEW b \in 0..Len(c), NEW n \in Nat, MoveBlock(a, n, b)
  PROVE  TurnedFrom(c)
<1> DEFINE u == SubSeq(c, a + 1, a + n)
           v == SubSeq(c, b + 1, b + n)
           op == [kind |-> "move", from |-> a, to |-> b, moved |-> u, old |-> v]
<1>1. c \in Seq(Byte) /\ Len(c) \in Nat
  BY NowIs
<1>2. a + n <= Len(c) /\ b + n <= Len(c) /\ ~Overlap(a, b, n)
      /\ Edit([kind |-> "move", from |-> a, to |-> b,
               moved |-> Read(table, a, n), old |-> Read(table, b, n)])
  BY NowIs DEF MoveBlock, InDocument
<1> HIDE DEF op
<1>9. n <= Len(c) - a /\ n <= Len(c) - b
  BY <1>1, <1>2
<1>3. Read(table, a, n) = u
  BY <1>9, ReadPart
<1>4. Read(table, b, n) = v
  BY <1>9, ReadPart
<1> HIDE DEF u, v
<1>5. Edit(op)
  BY <1>2, <1>3, <1>4 DEF op
<1>6. Blocks(c, n, a, b)
  BY <1>1, <1>2 DEF Blocks
<1>8. MoveOf(op, c, n, a, b)
  BY <1>6 DEF MoveOf, op, u, v
<1>7. PICK d : Turns(op, c, d) /\ (ChangesBytes(op) <=> d # c)
  BY <1>8, MoveTurns
<1> QED
  BY <1>5, <1>7, EditTurned

LEMMA SwapTurned ==
  ASSUME NEW c, Now(c), NEW a \in 0..Len(c), NEW b \in 0..Len(c), NEW n \in Nat, SwapBlocks(a, n, b)
  PROVE  TurnedFrom(c)
<1> DEFINE u == SubSeq(c, a + 1, a + n)
           v == SubSeq(c, b + 1, b + n)
           op == [kind |-> "swap", a |-> a, b |-> b, dataA |-> u, dataB |-> v]
<1>1. c \in Seq(Byte) /\ Len(c) \in Nat
  BY NowIs
<1>2. a + n <= Len(c) /\ b + n <= Len(c) /\ ~Overlap(a, b, n)
      /\ Edit([kind |-> "swap", a |-> a, b |-> b,
               dataA |-> Read(table, a, n), dataB |-> Read(table, b, n)])
  BY NowIs DEF SwapBlocks, InDocument
<1> HIDE DEF op
<1>9. n <= Len(c) - a /\ n <= Len(c) - b
  BY <1>1, <1>2
<1>3. Read(table, a, n) = u
  BY <1>9, ReadPart
<1>4. Read(table, b, n) = v
  BY <1>9, ReadPart
<1> HIDE DEF u, v
<1>5. Edit(op)
  BY <1>2, <1>3, <1>4 DEF op
<1>6. Blocks(c, n, a, b)
  BY <1>1, <1>2 DEF Blocks
<1>8. SwapOf(op, c, n, a, b)
  BY <1>6 DEF SwapOf, op, u, v
<1>7. PICK d : Turns(op, c, d) /\ (ChangesBytes(op) <=> d # c)
  BY <1>8, SwapTurns
<1> QED
  BY <1>5, <1>7, EditTurned

LEMMA ReplaceTurned ==
  ASSUME NEW c, Now(c), NEW pattern \in Seq(Byte), NEW replacement \in Seq(Byte),
         ReplaceBytes(pattern, replacement)
  PROVE  TurnedFrom(c)
<1> DEFINE offsets == Matches(c, pattern)
           new == ReplacedAll(c, pattern, replacement)
           op == [kind |-> "matches", offsets |-> offsets, old |-> pattern, new |-> replacement]
           all == [kind |-> "replace", old |-> c, new |-> new]
<1>1. c \in Seq(Byte) /\ Content(table) = c
  BY NowIs
<1>2. \/ /\ Len(pattern) = Len(replacement)
         /\ table' = IF pattern = replacement THEN table ELSE Applied(op, table)
         /\ Commit(op)
      \/ UNCHANGED vars
      \/ Edit(all)
  BY <1>1 DEF ReplaceBytes
<1>3. CASE Edit(all)
  <2>1. new \in Seq(Byte)
    BY <1>1, ReplacedAllIs
  <2> HIDE DEF new
  <2>2. Turns(all, c, new) /\ (ChangesBytes(all) <=> new # c)
    BY <1>1, <2>1, ReplaceTurns
  <2> HIDE DEF all
  <2> QED
    BY <1>3, <2>2, EditTurned
<1>4. CASE /\ Len(pattern) = Len(replacement)
           /\ table' = IF pattern = replacement THEN table ELSE Applied(op, table)
           /\ Commit(op)
  <2>1. Found(c, offsets, pattern)
    BY <1>1, MatchesAre
  <2> HIDE DEF offsets
  <2>2. PICK b : Turns(op, c, b) /\ (ChangesBytes(op) <=> b # c)
    BY <1>1, <1>4, <2>1, MatchesTurn
  <2>3. ChangesBytes(op) => pattern # replacement
    BY DEF ChangesBytes
  <2> HIDE DEF op
  <2>4. Holds(table', b, table.original)
    <3>1. CASE pattern = replacement
      <4>1. b = c /\ table' = table
        BY <1>4, <2>2, <2>3, <3>1
      <4> QED
        BY <4>1 DEF Now
    <3>2. CASE pattern # replacement
      <4>1. table' = Applied(op, table)
        BY <1>4, <3>2
      <4>2. Holds(Applied(op, table), b, table.original)
        BY <2>2 DEF Turns, Now
      <4> QED
        BY <4>1, <4>2
    <3> QED
      BY <3>1, <3>2
  <2> QED
    BY <1>4, <2>2, <2>4 DEF TurnedFrom
<1> QED
  BY <1>2, <1>3, <1>4 DEF TurnedFrom

LEMMA PatchesAre ==
  ASSUME NEW c, Now(c), NEW runs \in Patches
  PROVE  runs \in Seq(Spans(Len(c))) /\ Disjoint(runs)
<1> DEFINE m == Len(c)
           R == {r \in {Span(o, s) : o \in 0..(Size - 1), s \in Strings \ {<<>>}} :
                   InDocument(r.offset, Len(r.data))}
<1>1. m \in Nat /\ Size = m
  BY NowIs
<1>2. ASSUME NEW r \in R PROVE r \in Spans(m) /\ r.offset \in Nat /\ Len(r.data) \in Nat
  <2>1. PICK o \in 0..(Size - 1), s \in Strings : r = Span(o, s)
    OBVIOUS
  <2>2. s \in Seq(Byte)
    BY StringsAreBytes
  <2>3. r.offset = o /\ r.data = s /\ r.offset + Len(r.data) <= m
    BY <1>1, <2>1, SpanIs DEF InDocument
  <2>4. o \in Nat /\ o + Len(s) <= m
    BY <1>1, <2>3
  <2>5. Span(o, s) \in Spans(m)
    BY <1>1, <2>2, <2>4, SpanIs
  <2> QED
    BY <2>1, <2>2, <2>3, <2>4, <2>5, LenProperties
<1> HIDE DEF R
<1>3. \/ runs = <<>>
      \/ \E r \in R : runs = <<r>>
      \/ /\ runs \in R \X R
         /\ runs[1].offset + Len(runs[1].data) < runs[2].offset
  BY DEF Patches, R
<1> HIDE DEF m
<1>4. CASE runs = <<>>
  <2>1. runs \in Seq(Spans(m)) /\ Len(runs) = 0
    BY <1>4
  <2> QED
    BY <2>1 DEF Disjoint, m
<1>5. CASE \E r \in R : runs = <<r>>
  <2>1. PICK r \in R : runs = <<r>>
    BY <1>5
  <2>2. r \in Spans(m)
    BY <1>2
  <2>3. runs \in Seq(Spans(m)) /\ Len(runs) = 1
    BY <2>1, <2>2
  <2> QED
    BY <2>3 DEF Disjoint, m
<1>6. CASE runs \in R \X R /\ runs[1].offset + Len(runs[1].data) < runs[2].offset
  <2>1. PICK r \in R, s \in R : runs = <<r, s>>
    BY <1>6
  <2>2. /\ r \in Spans(m) /\ r.offset \in Nat /\ Len(r.data) \in Nat
        /\ s \in Spans(m) /\ s.offset \in Nat
    BY <1>2
  <2>3. runs \in Seq(Spans(m)) /\ Len(runs) = 2 /\ runs[1] = r /\ runs[2] = s
    BY <2>1, <2>2
  <2>4. r.offset + Len(r.data) <= s.offset
    BY <1>6, <2>2, <2>3
  <2>5. ASSUME NEW i \in 1..Len(runs), NEW j \in 1..Len(runs), i < j
        PROVE  runs[i].offset + Len(runs[i].data) <= runs[j].offset
    <3>1. i = 1 /\ j = 2
      BY <2>3, <2>5
    <3> QED
      BY <2>3, <2>4, <3>1
  <2>6. Disjoint(runs)
    BY <2>5 DEF Disjoint
  <2> QED
    BY <2>3, <2>6 DEF m
<1> QED
  BY <1>3, <1>4, <1>5, <1>6

LEMMA ImportTurned ==
  ASSUME NEW c, Now(c), NEW runs \in Patches, NEW cut \in {Empty} \cup 0..(Size - 1),
         ImportPatch(runs, cut)
  PROVE  TurnedFrom(c)
<1> DEFINE m == Len(c)
           w == Overlaid(c, runs)
           written == Written(table, runs)
           got == IF cut = Empty THEN <<>> ELSE Read(written, cut, Size - cut)
           tail == IF cut = Empty THEN <<>> ELSE SubSeq(w, cut + 1, cut + (m - cut))
           writes == [k \in DOMAIN runs |->
                        [offset |-> runs[k].offset, new |-> runs[k].data,
                         old |-> Read(table, runs[k].offset, Len(runs[k].data))]]
           op == [kind |-> "import", cut |-> cut, tail |-> tail, writes |-> WritesOf(runs, c)]
<1>1. c \in Seq(Byte) /\ m \in Nat /\ Size = m
  BY NowIs
<1>2. runs \in Seq(Spans(m)) /\ Disjoint(runs)
  BY PatchesAre
<1>3. Edit([kind |-> "import", cut |-> cut, tail |-> got, writes |-> writes])
  BY DEF ImportPatch
<1>4. Holds(written, w, table.original) /\ w \in Seq(Byte) /\ Len(w) = m
  BY <1>1, <1>2, WrittenIs, OverlaidType DEF Now
<1> HIDE DEF m, w, written, writes, got, tail
<1>5. got = tail
  <2>1. CASE cut = Empty
    BY <2>1 DEF got, tail
  <2>2. CASE cut # Empty
    <3>1. cut \in 0..Len(w) /\ m - cut \in Nat /\ m - cut <= Len(w) - cut
      BY <1>1, <1>4, <2>2
    <3> DEFINE l == m - cut
    <3> HIDE DEF l
    <3>2. l \in Nat /\ l <= Len(w) - cut
      BY <3>1 DEF l
    <3>3. Read(written, cut, l) = SubSeq(w, cut + 1, cut + l)
      <4>1. Content(written) = w /\ written.length = Len(w)
        BY <1>4, HoldsIs DEF Holds
      <4>2. w \in Seq(Byte) /\ cut \in 0..Len(w)
        BY <1>4, <3>1
      <4> QED
        BY <4>1, <4>2, <3>2, ReadAs
    <3> QED
      BY <1>1, <2>2, <3>3 DEF got, tail, l
  <2> QED
    BY <2>1, <2>2
<1>6. writes = WritesOf(runs, c)
  <2>1. ASSUME NEW k \in DOMAIN runs
        PROVE  Read(table, runs[k].offset, Len(runs[k].data))
                 = SubSeq(c, runs[k].offset + 1, runs[k].offset + Len(runs[k].data))
    <3> DEFINE x == runs[k].offset
               l == Len(runs[k].data)
    <3>1. runs[k] \in Spans(m)
      BY <1>2
    <3>2. x \in 0..m /\ l \in Nat /\ l <= m - x
      BY <1>1, <3>1, SpanIs
    <3> HIDE DEF x, l
    <3>3. Read(table, x, l) = SubSeq(c, x + 1, x + l)
      BY <3>2, ReadPart DEF m
    <3> QED
      BY <3>3 DEF x, l
  <2> QED
    BY <2>1 DEF WritesOf, writes
<1>7. Edit(op)
  BY <1>3, <1>5, <1>6
<1>8. PICK b : Turns(op, c, b) /\ (ChangesBytes(op) <=> b # c)
  <2>1. cut \in {Empty} \cup 0..Len(c) - 1
    BY <1>1 DEF m
  <2>2. tail = IF cut = Empty THEN <<>>
               ELSE SubSeq(Overlaid(c, runs), cut + 1, cut + (Len(c) - cut))
    BY DEF tail, w, m
  <2>3. runs \in Seq(Spans(Len(c)))
    BY <1>2 DEF m
  <2> QED
    BY <1>1, <1>2, <2>1, <2>2, <2>3, ImportTurns
<1> HIDE DEF op
<1> QED
  BY <1>7, <1>8, EditTurned

LEMMA EditsTurned ==
  ASSUME NEW c, Now(c), AnyEdit
  PROVE  TurnedFrom(c)
<1>1. c \in Seq(Byte) /\ Len(c) \in Nat /\ Size = Len(c) /\ Offsets = 0..Len(c) /\ Lengths \subseteq Nat
      /\ Strings \subseteq Seq(Byte)
  BY NowIs, StringsAreBytes DEF Lengths
<1>2. ASSUME NEW offset \in Offsets, NEW data \in Strings, WriteBytes(offset, data)
      PROVE  TurnedFrom(c)
  BY <1>1, <1>2, OverwriteTurned DEF WriteBytes, InDocument
<1>3. ASSUME NEW offset \in Offsets, NEW data \in Strings, InsertBytes(offset, data)
      PROVE  TurnedFrom(c)
  BY <1>1, <1>3, InsertTurned
<1>4. ASSUME NEW offset \in Offsets, NEW n \in Lengths, DeleteBytes(offset, n)
      PROVE  TurnedFrom(c)
  BY <1>1, <1>4, DeleteTurned
<1>5. ASSUME NEW offset \in Offsets, NEW n \in Lengths, NEW pattern \in Strings,
             FillBlock(offset, n, pattern)
      PROVE  TurnedFrom(c)
  BY <1>1, <1>5, FillTurned
<1>6. ASSUME NEW a \in Offsets, NEW b \in Offsets, NEW n \in Lengths, CopyBlock(a, n, b)
      PROVE  TurnedFrom(c)
  BY <1>1, <1>6, CopyTurned
<1>7. ASSUME NEW a \in Offsets, NEW b \in Offsets, NEW n \in Lengths, MoveBlock(a, n, b)
      PROVE  TurnedFrom(c)
  BY <1>1, <1>7, MoveTurned
<1>8. ASSUME NEW a \in Offsets, NEW b \in Offsets, NEW n \in Lengths, SwapBlocks(a, n, b)
      PROVE  TurnedFrom(c)
  BY <1>1, <1>8, SwapTurned
<1>9. ASSUME NEW pattern \in Strings, NEW replacement \in Strings, ReplaceBytes(pattern, replacement)
      PROVE  TurnedFrom(c)
  BY <1>1, <1>9, ReplaceTurned
<1>10. ASSUME NEW runs \in Patches, NEW cut \in {Empty} \cup 0..(Size - 1), ImportPatch(runs, cut)
       PROVE  TurnedFrom(c)
  BY <1>10, ImportTurned
<1> QED
  BY <1>2, <1>3, <1>4, <1>5, <1>6, <1>7, <1>8, <1>9, <1>10 DEF AnyEdit

-------------------------------------------------------------------------------
(* The entries along the line: what undo goes back through, then what redo *)
(* goes forward through.                                                   *)
Entry(S) == [id : Nat, op : S]
Stack(S) == Seq(Entry(S))
Along(u, r) == u \o Reverse(r)

LEMMA ReverseIs ==
  ASSUME NEW S, NEW s \in Seq(S)
  PROVE  /\ Reverse(s) \in Seq(S) /\ Len(Reverse(s)) = Len(s)
         /\ \A k \in 1..Len(s) : Reverse(s)[k] = s[Len(s) + 1 - k]
<1> DEFINE n == Len(s)
           e(k) == s[n - k + 1]
<1>1. n \in Nat
  OBVIOUS
<1>2. ASSUME NEW k \in 1..n PROVE e(k) \in S /\ n - k + 1 = n + 1 - k
  <2> HIDE DEF n
  <2>1. n - k + 1 \in 1..n /\ n - k + 1 = n + 1 - k
    BY <1>1
  <2> QED
    BY <2>1, ElementOfSeq DEF n
<1>3. Reverse(s) = [k \in 1..n |-> e(k)]
  BY DEF Reverse
<1> HIDE DEF n, e
<1>4. [k \in 1..n |-> e(k)] \in Seq(S)
  BY <1>1, <1>2, IsASeq
<1>5. Len(Reverse(s)) = n /\ \A k \in 1..n : Reverse(s)[k] = e(k)
  BY <1>1, <1>3, <1>4
<1>6. \A k \in 1..n : e(k) = s[n + 1 - k]
  BY <1>2 DEF e
<1> QED
  BY <1>3, <1>4, <1>5, <1>6 DEF n

IsAlong(A, S, u, r) ==
  /\ A \in Seq(S) /\ Len(A) = Len(u) + Len(r)
  /\ \A k \in 1..Len(u) + Len(r) :
       A[k] = IF k <= Len(u) THEN u[k] ELSE r[Len(u) + Len(r) + 1 - k]

LEMMA AlongIs ==
  ASSUME NEW S, NEW u \in Seq(S), NEW r \in Seq(S)
  PROVE  IsAlong(Along(u, r), S, u, r)
<1> DEFINE v == Reverse(r)
           n == Len(u)
           m == Len(r)
<1>1. /\ v \in Seq(S) /\ Len(v) = m /\ n \in Nat /\ m \in Nat
      /\ \A k \in 1..m : v[k] = r[m + 1 - k]
  BY ReverseIs, LenProperties
<1> HIDE DEF v
<1>2. /\ u \o v \in Seq(S) /\ Len(u \o v) = n + m
      /\ \A k \in 1..n + m : (u \o v)[k] = IF k <= n THEN u[k] ELSE v[k - n]
  <2>1. v \in Seq(S)
    BY <1>1
  <2>2. /\ u \o v \in Seq(S) /\ Len(u \o v) = Len(u) + Len(v)
        /\ \A k \in 1..Len(u) + Len(v) : (u \o v)[k] = IF k <= Len(u) THEN u[k] ELSE v[k - Len(u)]
    BY <2>1, ConcatProperties
  <2> QED
    BY <1>1, <2>2
<1>3. Along(u, r) = u \o v
  BY DEF Along, v
<1> HIDE DEF n, m
<1>4. ASSUME NEW k \in 1..n + m
      PROVE  (u \o v)[k] = IF k <= n THEN u[k] ELSE r[n + m + 1 - k]
  <2>1. CASE k <= n
    BY <1>2, <2>1
  <2>2. CASE ~(k <= n)
    <3>1. k - n \in 1..m /\ m + 1 - (k - n) = n + m + 1 - k
      BY <1>1, <2>2
    <3>2. (u \o v)[k] = v[k - n]
      BY <1>2, <2>2
    <3>3. v[k - n] = r[m + 1 - (k - n)]
      BY <1>1, <3>1
    <3> QED
      BY <2>2, <3>1, <3>2, <3>3
  <2> QED
    BY <2>1, <2>2
<1> QED
  BY <1>2, <1>3, <1>4 DEF n, m, IsAlong

\* The newest entry of one stack moves to the other.
LEMMA AlongMoved ==
  ASSUME NEW S, NEW u \in Seq(S), NEW r \in Seq(S), Len(u) # 0
  PROVE  /\ SubSeq(u, 1, Len(u) - 1) \in Seq(S) /\ Len(SubSeq(u, 1, Len(u) - 1)) = Len(u) - 1
         /\ Append(r, u[Len(u)]) \in Seq(S) /\ Len(Append(r, u[Len(u)])) = Len(r) + 1
         /\ Along(SubSeq(u, 1, Len(u) - 1), Append(r, u[Len(u)])) = Along(u, r)
         /\ u[Len(u)] = Along(u, r)[Len(u)]
         /\ Along(r, u)[Len(r) + 1] = u[Len(u)]
         /\ Along(Append(r, u[Len(u)]), SubSeq(u, 1, Len(u) - 1)) = Along(r, u)
<1> DEFINE n == Len(u)
           m == Len(r)
           e == u[n]
           f == SubSeq(u, 1, n - 1)
           g == Append(r, e)
           A == Along(u, r)
           B == Along(f, g)
           C == Along(r, u)
           D == Along(g, f)
<1>1. n \in Nat \ {0} /\ m \in Nat /\ n \in 1..n
  BY LenProperties
<1>2. e \in S
  BY <1>1, ElementOfSeq
<1>3. n - 1 \in 0..n /\ 1 \in 1..n + 1
  BY <1>1
<1>4. f \in Seq(S) /\ Len(f) = n - 1 /\ \A k \in 1..n - 1 : f[k] = u[k]
  <2>1. /\ f \in Seq(S) /\ Len(f) = (n - 1) - 1 + 1
        /\ \A k \in 1..(n - 1) - 1 + 1 : f[k] = u[1 + k - 1]
    <3>1. n - 1 \in 1 - 1..Len(u) /\ 1 \in 1..Len(u) + 1
      BY <1>1
    <3> QED
      BY <3>1, SubIs
  <2> HIDE DEF f, n
  <2> QED
    BY <1>1, <2>1
<1> HIDE DEF f, e
<1>5. /\ g \in Seq(S) /\ Len(g) = m + 1
      /\ \A k \in 1..m : g[k] = r[k]
      /\ g[m + 1] = e
  BY <1>2, AppendProperties
<1> HIDE DEF g
<1>6. /\ A \in Seq(S) /\ Len(A) = n + m
      /\ \A k \in 1..n + m : A[k] = IF k <= n THEN u[k] ELSE r[n + m + 1 - k]
  <2>1. IsAlong(A, S, u, r)
    BY AlongIs
  <2> QED
    BY <2>1 DEF IsAlong
<1>7. /\ C \in Seq(S) /\ Len(C) = m + n
      /\ \A k \in 1..m + n : C[k] = IF k <= m THEN r[k] ELSE u[m + n + 1 - k]
  <2>1. IsAlong(C, S, r, u)
    BY AlongIs
  <2> QED
    BY <2>1 DEF IsAlong
<1>8. /\ B \in Seq(S) /\ Len(B) = Len(f) + Len(g)
      /\ \A k \in 1..Len(f) + Len(g) : B[k] = IF k <= Len(f) THEN f[k] ELSE g[Len(f) + Len(g) + 1 - k]
  <2>1. IsAlong(B, S, f, g)
    BY <1>4, <1>5, AlongIs
  <2> QED
    BY <2>1 DEF IsAlong
<1>9. /\ D \in Seq(S) /\ Len(D) = Len(g) + Len(f)
      /\ \A k \in 1..Len(g) + Len(f) : D[k] = IF k <= Len(g) THEN g[k] ELSE f[Len(g) + Len(f) + 1 - k]
  <2>1. IsAlong(D, S, g, f)
    BY <1>4, <1>5, AlongIs
  <2> QED
    BY <2>1 DEF IsAlong
<1>10. e = u[n]
  BY DEF e
<1> HIDE DEF A, B, C, D, n, m
<1>11. Len(f) + Len(g) = n + m /\ Len(g) + Len(f) = m + n
  BY <1>1, <1>4, <1>5
<1>12. B = A
  <2>1. Len(B) = Len(A)
    BY <1>6, <1>8, <1>11
  <2>2. ASSUME NEW k \in 1..Len(B) PROVE B[k] = A[k]
    <3>1. k \in 1..n + m /\ B[k] = IF k <= n - 1 THEN f[k] ELSE g[n + m + 1 - k]
      BY <1>4, <1>8, <1>11
    <3>2. CASE k <= n - 1
      <4>1. k \in 1..n - 1 /\ k <= n
        BY <1>1, <3>1, <3>2
      <4> QED
        BY <1>4, <1>6, <3>1, <3>2, <4>1
    <3>3. CASE k = n
      <4>1. ~(k <= n - 1) /\ k <= n /\ n + m + 1 - k = m + 1
        BY <1>1, <3>1, <3>3
      <4> QED
        BY <1>5, <1>6, <1>10, <3>1, <3>3, <4>1
    <3>4. CASE k > n
      <4>1. ~(k <= n - 1) /\ ~(k <= n) /\ n + m + 1 - k \in 1..m
        BY <1>1, <3>1, <3>4
      <4> QED
        BY <1>5, <1>6, <3>1, <4>1
    <3> QED
      BY <1>1, <3>1, <3>2, <3>3, <3>4
  <2> QED
    BY <1>6, <1>8, <2>1, <2>2, SeqEqual
<1>13. D = C
  <2>1. Len(D) = Len(C)
    BY <1>7, <1>9, <1>11
  <2>2. ASSUME NEW k \in 1..Len(D) PROVE D[k] = C[k]
    <3>1. k \in 1..m + n /\ D[k] = IF k <= m + 1 THEN g[k] ELSE f[m + n + 1 - k]
      BY <1>5, <1>9, <1>11
    <3>2. CASE k <= m
      <4>1. k \in 1..m /\ k <= m + 1
        BY <1>1, <3>1, <3>2
      <4> QED
        BY <1>5, <1>7, <3>1, <3>2, <4>1
    <3>3. CASE k = m + 1
      <4>1. ~(k <= m) /\ k <= m + 1 /\ m + n + 1 - k = n
        BY <1>1, <3>1, <3>3
      <4> QED
        BY <1>5, <1>7, <1>10, <3>1, <3>3, <4>1
    <3>4. CASE k > m + 1
      <4>1. ~(k <= m + 1) /\ ~(k <= m) /\ m + n + 1 - k \in 1..n - 1
        BY <1>1, <3>1, <3>4
      <4> QED
        BY <1>4, <1>7, <3>1, <4>1
    <3> QED
      BY <1>1, <3>1, <3>2, <3>3, <3>4
  <2> QED
    BY <1>7, <1>9, <2>1, <2>2, SeqEqual
<1>14. e = A[n]
  <2>1. n \in 1..n + m /\ n <= n
    BY <1>1
  <2> QED
    BY <1>6, <1>10, <2>1
<1>15. C[m + 1] = e
  <2>1. m + 1 \in 1..m + n /\ ~(m + 1 <= m) /\ m + n + 1 - (m + 1) = n
    BY <1>1
  <2> QED
    BY <1>7, <1>10, <2>1
<1> QED
  BY <1>4, <1>5, <1>10, <1>12, <1>13, <1>14, <1>15 DEF A, B, C, D, e, f, g, n, m

\* A new entry drops what was undone.
LEMMA AlongNew ==
  ASSUME NEW S, NEW u \in Seq(S), NEW r \in Seq(S), NEW e \in S
  PROVE  /\ Append(u, e) \in Seq(S) /\ Len(Append(u, e)) = Len(u) + 1
         /\ Len(Along(Append(u, e), <<>>)) = Len(u) + 1
         /\ \A k \in 1..Len(u) : Along(Append(u, e), <<>>)[k] = Along(u, r)[k]
         /\ Along(Append(u, e), <<>>)[Len(u) + 1] = e
<1> DEFINE n == Len(u)
           m == Len(r)
           g == Append(u, e)
           none == <<>>
           A == Along(u, r)
           B == Along(g, none)
<1>1. n \in Nat /\ m \in Nat /\ none \in Seq(S) /\ Len(none) = 0
  BY LenProperties
<1> HIDE DEF none
<1>2. /\ g \in Seq(S) /\ Len(g) = n + 1 /\ g[n + 1] = e
      /\ \A k \in 1..n : g[k] = u[k]
  BY AppendProperties
<1> HIDE DEF g
<1>3. \A k \in 1..n + m : A[k] = IF k <= n THEN u[k] ELSE r[n + m + 1 - k]
  <2>1. IsAlong(A, S, u, r)
    BY AlongIs
  <2> QED
    BY <2>1 DEF IsAlong
<1>4. /\ Len(B) = Len(g) + Len(none)
      /\ \A k \in 1..Len(g) + Len(none) :
           B[k] = IF k <= Len(g) THEN g[k] ELSE none[Len(g) + Len(none) + 1 - k]
  <2>1. g \in Seq(S) /\ none \in Seq(S)
    BY <1>1, <1>2
  <2>2. IsAlong(B, S, g, none)
    BY <2>1, AlongIs
  <2> QED
    BY <2>2 DEF IsAlong
<1> HIDE DEF A, B, n, m
<1>5. Len(g) + Len(none) = n + 1
  BY <1>1, <1>2
<1>6. Len(B) = n + 1 /\ B[n + 1] = e
  <2>1. n + 1 \in 1..n + 1 /\ n + 1 <= Len(g)
    BY <1>1, <1>2
  <2> QED
    BY <1>2, <1>4, <1>5, <2>1
<1>7. ASSUME NEW k \in 1..n PROVE B[k] = A[k]
  <2>1. k \in 1..n + 1 /\ k <= Len(g) /\ k \in 1..n + m /\ k <= n
    BY <1>1, <1>2
  <2>2. B[k] = g[k] /\ A[k] = u[k]
    BY <1>3, <1>4, <1>5, <2>1
  <2> QED
    BY <1>2, <2>2
<1> QED
  BY <1>2, <1>6, <1>7 DEF A, B, n, g, none

-------------------------------------------------------------------------------
(* The history: each entry turns the contents before it on the line into   *)
(* the contents after it, and changes them.                                *)
History(E, l) ==
  /\ Len(E) \in Nat /\ l \in Seq(Seq(Byte)) /\ Len(l) = Len(E) + 1
  /\ \A k \in 1..Len(E) : Turns(E[k].op, l[k], l[k + 1]) /\ l[k] # l[k + 1]

\* Ids are given out in order along the line.
Numbered(E, next) ==
  /\ \A k \in 1..Len(E) : E[k].id \in Nat /\ E[k].id < next
  /\ \A j, k \in 1..Len(E) : j < k => E[j].id < E[k].id

\* What was saved is at the place the marker names, while that is on the line.
Marked(E, l, m, o) ==
  /\ m = Empty => l[1] = o
  /\ \A k \in 1..Len(E) : E[k].id = m => l[k + 1] = o

\* Entries E with line l, the document after p of them in table t.
Kept(E, p, l, next, m, t) ==
  /\ next \in Nat /\ m \in Int /\ m >= Empty /\ m < next /\ p \in 0..Len(E)
  /\ History(E, l) /\ Numbered(E, next) /\ Marked(E, l, m, t.original)
  /\ Holds(t, l[p + 1], t.original)

LEMMA LineAt ==
  ASSUME NEW E, NEW l, History(E, l), NEW k \in 0..Len(E)
  PROVE  l[k + 1] \in Seq(Byte)
<1>1. Len(E) \in Nat /\ l \in Seq(Seq(Byte)) /\ Len(l) = Len(E) + 1
  BY DEF History
<1>2. k + 1 \in 1..Len(l)
  BY <1>1
<1> QED
  BY <1>1, <1>2, ElementOfSeq

LEMMA KeptFresh ==
  ASSUME NEW data \in Seq(Byte)
  PROVE  Kept(<<>>, 0, <<data>>, 0, Empty, Fresh(data))
<1> DEFINE t == Fresh(data)
           E == <<>>
           l == <<data>>
<1>1. Holds(t, data, data)
  BY FreshIs
<1>2. t.original = data
  BY <1>1 DEF Holds
<1> HIDE DEF t
<1>3. l \in Seq(Seq(Byte)) /\ Len(l) = 1 /\ l[1] = data /\ Len(E) = 0
  OBVIOUS
<1> HIDE DEF E, l
<1>4. History(E, l) /\ Numbered(E, 0) /\ Marked(E, l, Empty, t.original)
  BY <1>2, <1>3 DEF History, Numbered, Marked
<1>5. Holds(t, l[0 + 1], t.original)
  BY <1>1, <1>2, <1>3
<1>6. Kept(E, 0, l, 0, Empty, t)
  BY <1>3, <1>4, <1>5 DEF Kept, Empty
<1> QED
  BY <1>6 DEF E, l, t

LEMMA KeptTable ==
  ASSUME NEW E, NEW p, NEW l, NEW next, NEW m, NEW t, Kept(E, p, l, next, m, t),
         NEW u, Holds(u, l[p + 1], t.original)
  PROVE  Kept(E, p, l, next, m, u)
<1>1. u.original = t.original
  BY DEF Holds
<1> QED
  BY <1>1 DEF Kept

LEMMA KeptUndo ==
  ASSUME NEW E, NEW p, NEW l, NEW next, NEW m, NEW t, Kept(E, p, l, next, m, t), p # 0
  PROVE  Kept(E, p - 1, l, next, m, Reverted(E[p].op, t))
<1> DEFINE u == Reverted(E[p].op, t)
<1>1. Len(E) \in Nat /\ p \in 1..Len(E) /\ p - 1 \in 0..Len(E) /\ (p - 1) + 1 = p
  BY DEF Kept, History
<1>2. Turns(E[p].op, l[p], l[p + 1]) /\ Holds(t, l[p + 1], t.original)
  BY <1>1 DEF Kept, History
<1>3. Holds(u, l[p], t.original)
  BY <1>2 DEF Turns
<1>4. u.original = t.original
  BY <1>3 DEF Holds
<1> HIDE DEF u
<1>5. Holds(u, l[(p - 1) + 1], u.original)
  BY <1>1, <1>3, <1>4
<1>6. Kept(E, p - 1, l, next, m, u)
  BY <1>1, <1>4, <1>5 DEF Kept
<1> QED
  BY <1>6 DEF u

LEMMA KeptRedo ==
  ASSUME NEW E, NEW p, NEW l, NEW next, NEW m, NEW t, Kept(E, p, l, next, m, t), p # Len(E)
  PROVE  Kept(E, p + 1, l, next, m, Applied(E[p + 1].op, t))
<1> DEFINE q == p + 1
           u == Applied(E[q].op, t)
<1>1. Len(E) \in Nat /\ q \in 1..Len(E) /\ q \in 0..Len(E)
  BY DEF Kept, History
<1>2. Turns(E[q].op, l[q], l[q + 1]) /\ Holds(t, l[q], t.original)
  BY <1>1 DEF Kept, History
<1> HIDE DEF q
<1>3. Holds(u, l[q + 1], t.original)
  BY <1>2 DEF Turns
<1>4. u.original = t.original
  BY <1>3 DEF Holds
<1> HIDE DEF u
<1>5. Kept(E, q, l, next, m, u)
  BY <1>1, <1>3, <1>4 DEF Kept
<1> QED
  BY <1>5 DEF u, q

LEMMA KeptSave ==
  ASSUME NEW E, NEW p, NEW l, NEW next, NEW m, NEW t, Kept(E, p, l, next, m, t)
  PROVE  Kept(E, p, l, next, IF p = 0 THEN Empty ELSE E[p].id, Fresh(Content(t)))
<1> DEFINE c == l[p + 1]
           u == Fresh(Content(t))
           n == IF p = 0 THEN Empty ELSE E[p].id
<1>1. Len(E) \in Nat /\ p \in 0..Len(E) /\ Holds(t, c, t.original) /\ next \in Nat
      /\ Numbered(E, next) /\ History(E, l)
  BY DEF Kept, History
<1>2. c \in Seq(Byte) /\ Content(t) = c
  BY <1>1, HoldsIs DEF Holds
<1>3. Holds(u, c, c) /\ u.original = c
  BY <1>2, FreshIs DEF Holds
<1> HIDE DEF c, u
<1>4. n \in Int /\ n >= Empty /\ n < next
  BY <1>1 DEF Numbered, Empty
<1>5. Marked(E, l, n, c)
  <2>1. n = Empty => l[1] = c
    <3>1. n = Empty => p = 0
      BY <1>1 DEF Numbered, Empty
    <3> QED
      BY <3>1 DEF c
  <2>2. ASSUME NEW k \in 1..Len(E), E[k].id = n PROVE l[k + 1] = c
    <3>1. p \in 1..Len(E) /\ E[p].id = n
      BY <1>1, <2>2 DEF Numbered, Empty
    <3> HIDE DEF n
    <3>2. k = p
      <4>1. /\ k < p => E[k].id < E[p].id
            /\ p < k => E[p].id < E[k].id
            /\ E[k].id \in Nat /\ E[p].id \in Nat
        BY <1>1, <3>1 DEF Numbered
      <4>2. ~(k < p) /\ ~(p < k)
        BY <2>2, <3>1, <4>1
      <4> QED
        BY <1>1, <4>2
    <3> QED
      BY <3>2 DEF c
  <2> QED
    BY <2>1, <2>2 DEF Marked
<1> HIDE DEF n
<1>6. Holds(u, l[p + 1], u.original)
  BY <1>3 DEF c
<1>7. Kept(E, p, l, next, n, u)
  BY <1>1, <1>3, <1>4, <1>5, <1>6 DEF Kept
<1> QED
  BY <1>7 DEF n, u

\* What a new entry leaves of the line.
LEMMA LineNew ==
  ASSUME NEW T, NEW l \in Seq(T), NEW p \in Nat, p < Len(l), NEW b \in T
  PROVE  /\ Append(SubSeq(l, 1, p + 1), b) \in Seq(T)
         /\ Len(Append(SubSeq(l, 1, p + 1), b)) = p + 2
         /\ \A k \in 1..p + 1 : Append(SubSeq(l, 1, p + 1), b)[k] = l[k]
         /\ Append(SubSeq(l, 1, p + 1), b)[p + 2] = b
<1> DEFINE q == p + 1
           s == SubSeq(l, 1, q)
           a == Append(s, b)
<1>1. Len(l) \in Nat /\ q \in 1..Len(l) /\ q \in Nat
  BY LenProperties
<1> HIDE DEF q
<1>2. s \in Seq(T) /\ Len(s) = q /\ \A k \in 1..q : s[k] = l[k]
  <2>1. 1 \in 1..Len(l) + 1 /\ q \in 1 - 1..Len(l)
    BY <1>1
  <2>2. /\ s \in Seq(T) /\ Len(s) = q - 1 + 1
        /\ \A k \in 1..q - 1 + 1 : s[k] = l[1 + k - 1]
    BY <2>1, SubIs
  <2> HIDE DEF s
  <2> QED
    BY <1>1, <2>2
<1> HIDE DEF s
<1>3. a \in Seq(T) /\ Len(a) = Len(s) + 1
      /\ (\A k \in 1..Len(s) : a[k] = s[k]) /\ a[Len(s) + 1] = b
  BY <1>2, AppendProperties
<1> HIDE DEF a
<1>4. a \in Seq(T) /\ Len(a) = q + 1 /\ (\A k \in 1..q : a[k] = l[k]) /\ a[q + 1] = b
  BY <1>2, <1>3
<1>5. q + 1 = p + 2 /\ q = p + 1
  BY <1>1 DEF q
<1>6. a = Append(SubSeq(l, 1, p + 1), b)
  BY DEF a, s, q
<1> QED
  BY <1>4, <1>5, <1>6

LEMMA KeptEdit ==
  ASSUME NEW E, NEW p, NEW l, NEW next, NEW m, NEW t, Kept(E, p, l, next, m, t),
         NEW op, NEW b, Turns(op, l[p + 1], b), b # l[p + 1],
         NEW u, Holds(u, b, t.original),
         NEW F, Len(F) = p + 1, \A k \in 1..p : F[k] = E[k],
         F[p + 1] = [id |-> next, op |-> op]
  PROVE  Kept(F, p + 1, Append(SubSeq(l, 1, p + 1), b), next + 1, m, u)
<1> DEFINE a == Append(SubSeq(l, 1, p + 1), b)
<1>1. /\ Len(E) \in Nat /\ p \in 0..Len(E) /\ p \in Nat
      /\ next \in Nat /\ m \in Int /\ m >= Empty /\ m < next
      /\ History(E, l) /\ Numbered(E, next) /\ Marked(E, l, m, t.original)
      /\ l \in Seq(Seq(Byte)) /\ p < Len(l)
  BY DEF Kept, History
<1>2. b \in Seq(Byte) /\ u.original = t.original
  BY DEF Turns, Holds
<1>3. /\ a \in Seq(Seq(Byte)) /\ Len(a) = p + 2
      /\ \A k \in 1..p + 1 : a[k] = l[k]
      /\ a[p + 2] = b
  BY <1>1, <1>2, LineNew
<1> HIDE DEF a
<1>4. F[p + 1].id = next /\ F[p + 1].op = op
  OBVIOUS
<1>5. History(F, a)
  <2>1. ASSUME NEW k \in 1..p + 1 PROVE Turns(F[k].op, a[k], a[k + 1]) /\ a[k] # a[k + 1]
    <3>1. CASE k = p + 1
      <4>1. a[k] = l[p + 1] /\ a[k + 1] = b
        BY <1>1, <1>3, <3>1
      <4> QED
        BY <1>4, <3>1, <4>1
    <3>2. CASE k # p + 1
      <4>1. k \in 1..p /\ k \in 1..Len(E) /\ k \in 1..p + 1 /\ k + 1 \in 1..p + 1
        BY <1>1, <3>2
      <4>2. F[k] = E[k] /\ a[k] = l[k] /\ a[k + 1] = l[k + 1]
        BY <1>3, <4>1
      <4>3. Turns(E[k].op, l[k], l[k + 1]) /\ l[k] # l[k + 1]
        BY <1>1, <4>1 DEF History
      <4> QED
        BY <4>2, <4>3
    <3> QED
      BY <3>1, <3>2
  <2>2. Len(F) \in Nat /\ Len(a) = Len(F) + 1
    BY <1>1, <1>3
  <2> QED
    BY <1>3, <2>1, <2>2 DEF History
<1>6. Numbered(F, next + 1)
  <2>1. ASSUME NEW k \in 1..p + 1 PROVE F[k].id \in Nat /\ F[k].id < next + 1
    <3>1. CASE k = p + 1
      BY <1>1, <1>4, <3>1
    <3>2. CASE k # p + 1
      <4>1. k \in 1..p /\ k \in 1..Len(E)
        BY <1>1, <3>2, SMTT(40)
      <4>2. E[k].id \in Nat /\ E[k].id < next
        BY <1>1, <4>1 DEF Numbered
      <4> QED
        BY <1>1, <4>1, <4>2, SMTT(40)
    <3> QED
      BY <3>1, <3>2
  <2>2. ASSUME NEW j \in 1..p + 1, NEW k \in 1..p + 1, j < k PROVE F[j].id < F[k].id
    <3>1. j \in 1..p /\ j \in 1..Len(E)
      BY <1>1, <2>2
    <3>2. F[j] = E[j] /\ E[j].id < next
      BY <1>1, <3>1 DEF Numbered
    <3>3. CASE k = p + 1
      BY <1>4, <3>2, <3>3
    <3>4. CASE k # p + 1
      <4>1. k \in 1..p /\ k \in 1..Len(E)
        BY <1>1, <3>4
      <4>2. E[j].id < E[k].id
        BY <1>1, <2>2, <3>1, <4>1 DEF Numbered
      <4> QED
        BY <3>2, <4>1, <4>2
    <3> QED
      BY <3>3, <3>4
  <2> QED
    BY <2>1, <2>2 DEF Numbered
<1>7. Marked(F, a, m, u.original)
  <2>1. 1 \in 1..p + 1
    BY <1>1
  <2>2. m = Empty => a[1] = u.original
    BY <1>1, <1>2, <1>3, <2>1 DEF Marked
  <2>3. ASSUME NEW k \in 1..p + 1, F[k].id = m PROVE a[k + 1] = u.original
    <3>1. k # p + 1
      BY <1>1, <1>4, <2>3
    <3>2. k \in 1..p /\ k \in 1..Len(E) /\ k + 1 \in 1..p + 1
      BY <1>1, <3>1, SMTT(40)
    <3>3. E[k].id = m
      BY <2>3, <3>2
    <3> QED
      BY <1>1, <1>2, <1>3, <3>2, <3>3 DEF Marked
  <2> QED
    BY <2>2, <2>3 DEF Marked
<1>8. Holds(u, a[(p + 1) + 1], u.original)
  <2>1. (p + 1) + 1 = p + 2
    BY <1>1
  <2> QED
    BY <1>2, <1>3, <2>1
<1>9. p + 1 \in 0..Len(F) /\ next + 1 \in Nat /\ m < next + 1
  BY <1>1
<1>10. Kept(F, p + 1, a, next + 1, m, u)
  BY <1>1, <1>5, <1>6, <1>7, <1>8, <1>9 DEF Kept
<1> QED
  BY <1>10 DEF a

-------------------------------------------------------------------------------
(* The inductive invariant: the entries of both stacks lie along the line, *)
(* each turning what is before it into what is after it, and the document  *)
(* is at the place between the stacks. The table is no part of it but for  *)
(* its bytes: any layout that holds them will do.                          *)
Stacks(S) == undoStack \in Stack(S) /\ redoStack \in Stack(S)
Entries == Along(undoStack, redoStack)

IInv ==
  /\ \E S : Stacks(S)
  /\ Kept(Entries, Len(undoStack), line, nextId, marker, table)

LEMMA StacksWiden ==
  ASSUME NEW S, NEW T, S \subseteq T, NEW s \in Stack(S)
  PROVE  s \in Stack(T)
<1>1. Len(s) \in Nat /\ s = [k \in 1..Len(s) |-> s[k]]
  BY DEF Stack
<1>2. ASSUME NEW k \in 1..Len(s) PROVE s[k] \in Entry(T)
  <2>1. s[k] \in Entry(S)
    BY ElementOfSeq DEF Stack
  <2> QED
    BY <2>1 DEF Entry
<1>3. [k \in 1..Len(s) |-> s[k]] \in Seq(Entry(T))
  BY <1>1, <1>2, IsASeq
<1> QED
  BY <1>1, <1>3 DEF Stack

LEMMA HereIs ==
  ASSUME IInv
  PROVE  /\ Now(Here) /\ Here \in Seq(Byte)
         /\ Len(undoStack) \in 0..Len(Entries) /\ Len(Entries) \in Nat
<1>1. Kept(Entries, Len(undoStack), line, nextId, marker, table)
  BY DEF IInv
<1>2. /\ Holds(table, line[Len(undoStack) + 1], table.original)
      /\ Len(undoStack) \in 0..Len(Entries) /\ Len(Entries) \in Nat
  BY <1>1 DEF Kept, History
<1>3. Now(Here)
  BY <1>2 DEF Now, Here
<1> QED
  BY <1>2, <1>3, NowIs

LEMMA InitKept ==
  ASSUME Init
  PROVE  IInv
<1>1. PICK data \in Strings : table = Fresh(data) /\ line = <<data>>
  BY DEF Init
<1>2. data \in Seq(Byte)
  BY StringsAreBytes
<1>3. undoStack = <<>> /\ redoStack = <<>> /\ nextId = 0 /\ marker = Empty
  BY DEF Init
<1>4. undoStack \in Stack({}) /\ redoStack \in Stack({}) /\ Len(undoStack) = 0 /\ Len(redoStack) = 0
  BY <1>3 DEF Stack
<1>5. Entries = <<>>
  <2>1. IsAlong(Entries, Entry({}), undoStack, redoStack)
    BY <1>4, AlongIs DEF Stack, Entries
  <2>2. Entries \in Seq(Entry({})) /\ Len(Entries) = 0
    BY <1>4, <2>1 DEF IsAlong
  <2> QED
    BY <2>2, EmptySeq
<1>6. Kept(<<>>, 0, <<data>>, 0, Empty, Fresh(data))
  BY <1>2, KeptFresh
<1>7. Kept(Entries, Len(undoStack), line, nextId, marker, table)
  BY <1>1, <1>3, <1>4, <1>5, <1>6
<1> QED
  BY <1>4, <1>7 DEF IInv, Stacks

\* An edit that changes a byte adds its entry.
LEMMA CommitKept ==
  ASSUME IInv, NEW op, NEW b, Turns(op, Here, b), ChangesBytes(op) <=> b # Here,
         Holds(table', b, table.original), Commit(op), ChangesBytes(op)
  PROVE  /\ IInv' /\ Len(undoStack') = Len(undoStack) + 1
         /\ Len(Entries') = Len(undoStack) + 1
         /\ \A k \in 1..Len(undoStack) : Entries'[k] = Entries[k]
         /\ Entries'[Len(undoStack) + 1] = [id |-> nextId, op |-> op]
         /\ line' = Append(SubSeq(line, 1, Len(undoStack) + 1), b)
<1> DEFINE e == [id |-> nextId, op |-> op]
           p == Len(undoStack)
           F == Along(Append(undoStack, e), <<>>)
<1>1. PICK S : Stacks(S)
  BY DEF IInv
<1>2. Kept(Entries, p, line, nextId, marker, table)
  BY DEF IInv
<1>3. /\ undoStack' = Append(undoStack, e) /\ redoStack' = <<>>
      /\ nextId' = nextId + 1 /\ marker' = marker
      /\ line' = Append(SubSeq(line, 1, p + 1), Content(table'))
  BY DEF Commit, EntryId
<1>4. Content(table') = b
  BY DEF Holds
<1> DEFINE T == S \cup {op}
<1>5. undoStack \in Seq(Entry(T)) /\ redoStack \in Seq(Entry(T)) /\ p \in Nat
  <2>1. undoStack \in Stack(T) /\ redoStack \in Stack(T)
    BY <1>1, StacksWiden DEF Stacks
  <2> QED
    BY <2>1, LenProperties DEF Stack
<1>6. e \in Entry(T)
  BY <1>2 DEF Entry, Kept
<1> HIDE DEF T, e
<1>7. /\ Append(undoStack, e) \in Seq(Entry(T)) /\ Len(Append(undoStack, e)) = p + 1
      /\ Len(F) = p + 1
      /\ \A k \in 1..p : F[k] = Along(undoStack, redoStack)[k]
      /\ F[p + 1] = e
  BY <1>5, <1>6, AlongNew
<1>8. F = Entries'
  BY <1>3 DEF Entries
<1> HIDE DEF F
<1>9. \A k \in 1..p : F[k] = Entries[k]
  BY <1>7 DEF Entries
<1>10. Kept(F, p + 1, Append(SubSeq(line, 1, p + 1), b), nextId + 1, marker, table')
  <2> HIDE DEF p
  <2>1. Turns(op, line[p + 1], b) /\ b # line[p + 1]
    BY DEF Here, p
  <2> DEFINE E == Entries
  <2>2. Kept(E, p, line, nextId, marker, table) /\ \A k \in 1..p : F[k] = E[k]
    BY <1>2, <1>9
  <2> HIDE DEF E
  <2>3. Len(F) = p + 1 /\ F[p + 1] = [id |-> nextId, op |-> op]
    BY <1>7 DEF e
  <2> QED
    BY <2>1, <2>2, <2>3, KeptEdit
<1>11. Stacks(T)'
  BY <1>3, <1>5, <1>7 DEF Stacks, Stack
<1>12. Len(undoStack') = p + 1
  BY <1>3, <1>7
<1>13. Kept(Entries', Len(undoStack'), line', nextId', marker', table')
  BY <1>3, <1>4, <1>8, <1>10, <1>12
<1>14. IInv'
  BY <1>11, <1>13 DEF IInv
<1> QED
  BY <1>3, <1>4, <1>7, <1>8, <1>9, <1>12, <1>14 DEF e

\* One that changes none leaves the history alone, whatever the table becomes.
LEMMA TableKept ==
  ASSUME IInv, Holds(table', Here, table.original),
         UNCHANGED <<undoStack, redoStack, nextId, marker, line>>
  PROVE  IInv'
<1>1. Kept(Entries, Len(undoStack), line, nextId, marker, table)
  BY DEF IInv
<1>2. Kept(Entries, Len(undoStack), line, nextId, marker, table')
  BY <1>1, KeptTable DEF Here
<1>3. (\E S : Stacks(S))'
  BY DEF IInv, Stacks
<1>4. Entries' = Entries
  BY DEF Entries
<1> QED
  BY <1>2, <1>3, <1>4 DEF IInv

LEMMA SameKept ==
  ASSUME IInv, UNCHANGED vars
  PROVE  IInv'
<1>1. Holds(table, Here, table.original)
  BY HereIs DEF Now
<1>2. Holds(table', Here, table.original)
  BY <1>1 DEF vars
<1> QED
  BY <1>2, TableKept DEF vars

LEMMA EditKept ==
  ASSUME IInv, AnyEdit
  PROVE  IInv'
<1>1. TurnedFrom(Here)
  BY HereIs, EditsTurned
<1>2. CASE UNCHANGED vars
  BY <1>2, SameKept
<1>3. CASE \E op, b : /\ Turns(op, Here, b) /\ (ChangesBytes(op) <=> b # Here)
                      /\ Holds(table', b, table.original) /\ Commit(op)
  <2>1. PICK op, b : /\ Turns(op, Here, b) /\ (ChangesBytes(op) <=> b # Here)
                     /\ Holds(table', b, table.original) /\ Commit(op)
    BY <1>3
  <2>2. CASE ChangesBytes(op)
    BY <2>1, <2>2, CommitKept
  <2>3. CASE ~ChangesBytes(op)
    <3>1. b = Here /\ UNCHANGED <<undoStack, redoStack, nextId, marker, line>>
      BY <2>1, <2>3 DEF Commit
    <3> QED
      BY <2>1, <3>1, TableKept
  <2> QED
    BY <2>2, <2>3
<1> QED
  BY <1>1, <1>2, <1>3 DEF TurnedFrom

LEMMA UndoKept ==
  ASSUME IInv, Undo
  PROVE  IInv' /\ Entries' = Entries /\ Len(undoStack') = Len(undoStack) - 1 /\ Len(undoStack) # 0
<1> DEFINE p == Len(undoStack)
           e == undoStack[p]
<1>1. PICK S : Stacks(S)
  BY DEF IInv
<1>2. Kept(Entries, p, line, nextId, marker, table)
  BY DEF IInv
<1>3. /\ table' = Reverted(e.op, table)
      /\ undoStack' = SubSeq(undoStack, 1, p - 1) /\ redoStack' = Append(redoStack, e)
      /\ nextId' = nextId /\ marker' = marker /\ line' = line
  BY DEF Undo, Last, Front
<1>4. undoStack \in Seq(Entry(S)) /\ redoStack \in Seq(Entry(S)) /\ p # 0
  BY <1>1, EmptySeq DEF Stacks, Stack, Undo
<1>5. /\ undoStack' \in Seq(Entry(S)) /\ Len(undoStack') = p - 1
      /\ redoStack' \in Seq(Entry(S))
      /\ Along(undoStack', redoStack') = Along(undoStack, redoStack)
      /\ e = Along(undoStack, redoStack)[p]
  BY <1>3, <1>4, AlongMoved
<1>6. Entries' = Entries /\ e = Entries[p]
  BY <1>5 DEF Entries
<1> HIDE DEF e
<1>7. Kept(Entries, p - 1, line, nextId, marker, Reverted(Entries[p].op, table))
  BY <1>2, <1>4, KeptUndo
<1>8. Kept(Entries', Len(undoStack'), line', nextId', marker', table')
  BY <1>3, <1>5, <1>6, <1>7
<1>9. Stacks(S)'
  BY <1>5 DEF Stacks, Stack
<1> QED
  BY <1>4, <1>5, <1>6, <1>8, <1>9 DEF IInv

LEMMA RedoKept ==
  ASSUME IInv, Redo
  PROVE  /\ IInv' /\ Entries' = Entries /\ Len(undoStack') = Len(undoStack) + 1
         /\ Len(undoStack) # Len(Entries)
<1> DEFINE p == Len(undoStack)
           q == Len(redoStack)
           e == redoStack[q]
<1>1. PICK S : Stacks(S)
  BY DEF IInv
<1>2. Kept(Entries, p, line, nextId, marker, table)
  BY DEF IInv
<1>3. /\ table' = Applied(e.op, table)
      /\ redoStack' = SubSeq(redoStack, 1, q - 1) /\ undoStack' = Append(undoStack, e)
      /\ nextId' = nextId /\ marker' = marker /\ line' = line
  BY DEF Redo, Last, Front
<1>4. undoStack \in Seq(Entry(S)) /\ redoStack \in Seq(Entry(S)) /\ q # 0 /\ p \in Nat /\ q \in Nat
  BY <1>1, EmptySeq, LenProperties DEF Stacks, Stack, Redo
<1>5. /\ redoStack' \in Seq(Entry(S))
      /\ undoStack' \in Seq(Entry(S)) /\ Len(undoStack') = p + 1
      /\ Along(undoStack', redoStack') = Along(undoStack, redoStack)
      /\ Along(undoStack, redoStack)[p + 1] = e
  BY <1>3, <1>4, AlongMoved
<1>6. Entries' = Entries /\ Entries[p + 1] = e
  BY <1>5 DEF Entries
<1>7. Len(Entries) = p + q
  <2>1. IsAlong(Entries, Entry(S), undoStack, redoStack)
    BY <1>4, AlongIs DEF Entries
  <2> QED
    BY <2>1 DEF IsAlong
<1> HIDE DEF e
<1>8. p # Len(Entries)
  BY <1>4, <1>7
<1>9. Kept(Entries, p + 1, line, nextId, marker, Applied(Entries[p + 1].op, table))
  BY <1>2, <1>8, KeptRedo
<1>10. Kept(Entries', Len(undoStack'), line', nextId', marker', table')
  BY <1>3, <1>5, <1>6, <1>9
<1>11. Stacks(S)'
  BY <1>5 DEF Stacks, Stack
<1> QED
  BY <1>5, <1>6, <1>8, <1>10, <1>11 DEF IInv

LEMMA SaveKept ==
  ASSUME IInv, Save
  PROVE  /\ IInv' /\ Entries' = Entries
         /\ marker' = IF Len(undoStack) = 0 THEN Empty ELSE Entries[Len(undoStack)].id
<1> DEFINE p == Len(undoStack)
<1>1. PICK S : Stacks(S)
  BY DEF IInv
<1>2. Kept(Entries, p, line, nextId, marker, table)
  BY DEF IInv
<1>3. /\ table' = Fresh(Content(table)) /\ marker' = TopId(undoStack)
      /\ undoStack' = undoStack /\ redoStack' = redoStack /\ nextId' = nextId /\ line' = line
  BY DEF Save
<1>4. undoStack \in Seq(Entry(S)) /\ redoStack \in Seq(Entry(S)) /\ p \in Nat
  BY <1>1, LenProperties DEF Stacks, Stack
<1>5. marker' = IF p = 0 THEN Empty ELSE Entries[p].id
  <2>1. CASE undoStack = <<>>
    BY <1>3, <2>1 DEF TopId
  <2>2. CASE undoStack # <<>>
    <3>1. p # 0
      BY <1>4, <2>2, EmptySeq
    <3>2. undoStack[p] = Entries[p]
      BY <1>4, <3>1, AlongMoved DEF Entries
    <3> QED
      BY <1>3, <2>2, <3>1, <3>2 DEF TopId
  <2> QED
    BY <2>1, <2>2
<1>6. Entries' = Entries
  BY <1>3 DEF Entries
<1>7. Kept(Entries, p, line, nextId, IF p = 0 THEN Empty ELSE Entries[p].id, Fresh(Content(table)))
  BY <1>2, KeptSave
<1>8. Kept(Entries', Len(undoStack'), line', nextId', marker', table')
  BY <1>3, <1>5, <1>6, <1>7
<1>9. Stacks(S)'
  BY <1>3, <1>4 DEF Stacks, Stack
<1> QED
  BY <1>5, <1>6, <1>8, <1>9 DEF IInv

(* The invariant holds in every reachable state.                           *)
THEOREM Inductive == Spec => []IInv
<1>1. Init => IInv
  BY InitKept
<1>2. IInv /\ [Next]_vars => IInv'
  <2> SUFFICES ASSUME IInv, [Next]_vars PROVE IInv'
    OBVIOUS
  <2>1. CASE Room /\ AnyEdit
    BY <2>1, EditKept
  <2>2. CASE Undo
    BY <2>2, UndoKept
  <2>3. CASE Redo
    BY <2>3, RedoKept
  <2>4. CASE Save
    BY <2>4, SaveKept
  <2>5. CASE UNCHANGED vars
    BY <2>5, SameKept
  <2> QED
    BY <2>1, <2>2, <2>3, <2>4, <2>5 DEF Next
<1> QED
  BY <1>1, <1>2, PTL DEF Spec

-------------------------------------------------------------------------------
(* What the invariant says of a state.                                     *)
LEMMA TableFits ==
  ASSUME IInv
  PROVE  PiecesFit(table) /\ Apart(table) /\ StaysCompact /\ UndoRestores
<1> DEFINE c == Here
<1>1. Holds(table, c, table.original)
  BY HereIs DEF Now
<1>2. /\ Bare(table) /\ table \in TableSet /\ Content(table) = c
      /\ ~Bloated(table) /\ Len(table.pieces) <= table.limit
  BY <1>1, HoldsIs DEF Holds
<1>3. Apart(table) /\ Total(table.pieces) = table.length
  BY <1>2 DEF Bare, Total
<1>4. ASSUME NEW i \in DOMAIN table.pieces
      PROVE  /\ table.pieces[i].length > 0
             /\ table.pieces[i].start + table.pieces[i].length
                  <= Len(Buffer(table, table.pieces[i].source))
  <2>1. i \in 1..Len(table.pieces)
    BY <1>2, TableIs
  <2>2. /\ table.pieces[i] \in PieceSet
        /\ table.pieces[i].start + table.pieces[i].length
             <= Len(Buffer(table, table.pieces[i].source))
    BY <1>2, <2>1, FitsIs
  <2>3. table.pieces[i].length \in Nat \ {0}
    BY <2>2, PieceIs
  <2> QED
    BY <2>2, <2>3
<1> QED
  BY <1>2, <1>3, <1>4 DEF PiecesFit, StaysCompact, UndoRestores

LEMMA NumbersFit ==
  ASSUME IInv
  PROVE  /\ \A j, k \in DOMAIN Entries :
              Entries[j].id < nextId /\ (j < k => Entries[j].id < Entries[k].id)
         /\ marker \in Empty..(nextId - 1)
<1>1. /\ Kept(Entries, Len(undoStack), line, nextId, marker, table)
      /\ nextId \in Nat /\ marker \in Int /\ marker >= Empty /\ marker < nextId
      /\ Numbered(Entries, nextId)
  BY DEF IInv, Kept
<1>2. DOMAIN Entries = 1..Len(Entries)
  <2>1. PICK S : undoStack \in Seq(Entry(S)) /\ redoStack \in Seq(Entry(S))
    BY DEF IInv, Stacks, Stack
  <2>2. IsAlong(Entries, Entry(S), undoStack, redoStack)
    BY <2>1, AlongIs DEF Entries
  <2>3. Entries \in Seq(Entry(S))
    BY <2>2 DEF IsAlong
  <2> QED
    BY <2>3
<1>3. \A j, k \in DOMAIN Entries :
        Entries[j].id < nextId /\ (j < k => Entries[j].id < Entries[k].id)
  BY <1>1, <1>2 DEF Numbered
<1>4. marker \in Empty..(nextId - 1)
  BY <1>1 DEF Empty
<1> QED
  BY <1>3, <1>4

LEMMA CleanKept ==
  ASSUME IInv
  PROVE  CleanMeansSaved
<1> SUFFICES ASSUME TopId(undoStack) = marker PROVE Content(table) = table.original
  BY DEF CleanMeansSaved, IsModified
<1> DEFINE p == Len(undoStack)
           o == table.original
<1>1. PICK S : undoStack \in Seq(Entry(S)) /\ redoStack \in Seq(Entry(S))
  BY DEF IInv, Stacks, Stack
<1>2. /\ Marked(Entries, line, marker, o) /\ p \in 0..Len(Entries) /\ p \in Nat
      /\ Content(table) = line[p + 1]
  BY DEF IInv, Kept, Holds
<1>3. CASE undoStack = <<>>
  <2>1. p = 0 /\ marker = Empty
    BY <1>3 DEF TopId
  <2>2. line[1] = o
    BY <1>2, <2>1 DEF Marked
  <2> QED
    BY <1>2, <2>1, <2>2
<1>4. CASE undoStack # <<>>
  <2>1. p # 0
    BY <1>1, <1>4, EmptySeq
  <2>2. undoStack[p] = Entries[p]
    BY <1>1, <2>1, AlongMoved DEF Entries
  <2>3. Entries[p].id = marker /\ p \in 1..Len(Entries)
    BY <1>2, <1>4, <2>1, <2>2 DEF TopId
  <2> QED
    BY <1>2, <2>3 DEF Marked
<1> QED
  BY <1>3, <1>4

(* Whatever edits, undos, redos and saves came before, every piece lies in *)
(* its buffer, no byte of the add buffer is in the document twice and the  *)
(* ids of the history are in order (PieceTable's assert_invariants).       *)
THEOREM TypeCorrect == Spec => []TypeOK
<1>1. IInv => TypeOK
  BY TableFits, NumbersFit DEF TypeOK, Entries, Along
<1> QED
  BY <1>1, Inductive, PTL

(* Undo and redo restore exactly the bytes the document held at that place *)
(* of its history, whichever edits are recorded and however the table was  *)
(* split, merged, rewritten in place or compacted since                    *)
(* (UndoManager::undo, redo, rewrite_spans).                               *)
THEOREM UndoTheorem == Spec => []UndoRestores
<1>1. IInv => UndoRestores
  BY TableFits
<1> QED
  BY <1>1, Inductive, PTL

(* The dead bytes of the add buffer and the number of pieces stay within   *)
(* maybe_compact's bounds after every edit, undo and redo.                 *)
THEOREM CompactTheorem == Spec => []StaysCompact
<1>1. IInv => StaysCompact
  BY TableFits
<1> QED
  BY <1>1, Inductive, PTL

(* A document that is not modified holds what was opened or last saved     *)
(* (UndoManager::is_modified).                                             *)
THEOREM CleanTheorem == Spec => []CleanMeansSaved
<1>1. IInv => CleanMeansSaved
  BY CleanKept
<1> QED
  BY <1>1, Inductive, PTL

-------------------------------------------------------------------------------
(* The refinement. What lies behind and ahead of a place on the line.      *)
Behind(l, p) == SubSeq(l, 1, p)
Ahead(l, p) == Reverse(SubSeq(l, p + 2, Len(l)))

IsBehind(s, T, l, p) == s \in Seq(T) /\ Len(s) = p /\ \A k \in 1..p : s[k] = l[k]

IsAhead(s, T, l, p) ==
  /\ s \in Seq(T) /\ Len(s) = Len(l) - p - 1
  /\ \A k \in 1..Len(l) - p - 1 : s[k] = l[Len(l) + 1 - k]

LEMMA BehindIs ==
  ASSUME NEW T, NEW l \in Seq(T), NEW p \in Nat, p <= Len(l)
  PROVE  IsBehind(Behind(l, p), T, l, p)
<1> DEFINE s == SubSeq(l, 1, p)
<1>1. Len(l) \in Nat /\ 1 \in 1..Len(l) + 1 /\ p \in 1 - 1..Len(l)
  BY LenProperties
<1>2. s \in Seq(T) /\ Len(s) = p - 1 + 1 /\ \A k \in 1..p - 1 + 1 : s[k] = l[1 + k - 1]
  BY <1>1, SubIs
<1> HIDE DEF s
<1>3. IsBehind(s, T, l, p)
  BY <1>2 DEF IsBehind
<1> QED
  BY <1>3 DEF s, Behind

LEMMA AheadIs ==
  ASSUME NEW T, NEW l \in Seq(T), NEW p \in Nat, p < Len(l)
  PROVE  IsAhead(Ahead(l, p), T, l, p)
<1> DEFINE m == Len(l)
           n == m - p - 1
           s == SubSeq(l, p + 2, m)
           a == Reverse(s)
<1>1. m \in Nat /\ n \in Nat /\ p + 2 \in 1..m + 1 /\ m \in (p + 2) - 1..m /\ m - (p + 2) + 1 = n
  BY LenProperties
<1>2. s \in Seq(T) /\ Len(s) = n /\ \A k \in 1..n : s[k] = l[p + 2 + k - 1]
  <2> DEFINE q == p + 2
  <2>1. q \in 1..m + 1 /\ m \in q - 1..m /\ m - q + 1 = n
    BY <1>1
  <2> HIDE DEF q
  <2>2. /\ SubSeq(l, q, m) \in Seq(T) /\ Len(SubSeq(l, q, m)) = m - q + 1
        /\ \A k \in 1..m - q + 1 : SubSeq(l, q, m)[k] = l[q + k - 1]
    BY <2>1, SubIs
  <2> HIDE DEF n, m
  <2> QED
    BY <2>1, <2>2 DEF q
<1> HIDE DEF s
<1>3. a \in Seq(T) /\ Len(a) = Len(s) /\ \A k \in 1..Len(s) : a[k] = s[Len(s) + 1 - k]
  BY <1>2, ReverseIs
<1> HIDE DEF a
<1>4. ASSUME NEW k \in 1..n PROVE a[k] = l[m + 1 - k]
  <2>1. n + 1 - k \in 1..n /\ p + 2 + (n + 1 - k) - 1 = m + 1 - k
    BY <1>1
  <2>2. a[k] = s[n + 1 - k]
    BY <1>2, <1>3
  <2>3. s[n + 1 - k] = l[p + 2 + (n + 1 - k) - 1]
    BY <1>2, <2>1
  <2> QED
    BY <2>1, <2>2, <2>3
<1>5. IsAhead(a, T, l, p)
  BY <1>2, <1>3, <1>4 DEF IsAhead
<1> QED
  BY <1>5 DEF a, s, Ahead

\* A sequence one longer than s, with x at its end.
Longer(s, x, u) == Len(u) = Len(s) + 1 /\ u[Len(u)] = x /\ \A k \in 1..Len(s) : u[k] = s[k]

LEMMA LongerIs ==
  ASSUME NEW T, NEW s \in Seq(T), NEW u \in Seq(T), NEW x \in T, Longer(s, x, u)
  PROVE  /\ u = Append(s, x) /\ s = SubSeq(u, 1, Len(u) - 1)
         /\ u # <<>> /\ x = u[Len(u)]
<1> DEFINE n == Len(s)
           a == Append(s, x)
           f == SubSeq(u, 1, Len(u) - 1)
<1>1. n \in Nat /\ Len(u) = n + 1 /\ u[n + 1] = x /\ \A k \in 1..n : u[k] = s[k]
  BY LenProperties DEF Longer
<1>2. a \in Seq(T) /\ Len(a) = n + 1 /\ (\A k \in 1..n : a[k] = s[k]) /\ a[n + 1] = x
  BY AppendProperties
<1> HIDE DEF a
<1>3. u = a
  <2>1. ASSUME NEW k \in 1..Len(u) PROVE u[k] = a[k]
    <3>1. k = n + 1 \/ k \in 1..n
      BY <1>1
    <3> QED
      BY <1>1, <1>2, <3>1
  <2>2. Len(u) = Len(a)
    BY <1>1, <1>2
  <2> QED
    BY <1>2, <2>1, <2>2, SeqEqual
<1>4. f \in Seq(T) /\ Len(f) = n /\ \A k \in 1..n : f[k] = u[k]
  <2>1. IsBehind(Behind(u, n), T, u, n)
    BY <1>1, BehindIs
  <2>2. Behind(u, n) = f
    BY <1>1 DEF Behind
  <2> HIDE DEF f
  <2> QED
    BY <2>1, <2>2 DEF IsBehind
<1> HIDE DEF f
<1>5. s = f
  <2>1. Len(s) = Len(f) /\ \A k \in 1..Len(s) : s[k] = f[k]
    BY <1>1, <1>4
  <2> QED
    BY <1>4, <2>1, SeqEqual
<1>6. u # <<>>
  BY <1>1, EmptySeq
<1> QED
  BY <1>1, <1>3, <1>5, <1>6 DEF a, f

\* One place further, the contents there lie behind.
LEMMA BehindLonger ==
  ASSUME NEW T, NEW l \in Seq(T), NEW p \in Nat, p < Len(l)
  PROVE  /\ Behind(l, p) \in Seq(T) /\ Behind(l, p + 1) \in Seq(T) /\ l[p + 1] \in T
         /\ Len(Behind(l, p)) = p
         /\ Longer(Behind(l, p), l[p + 1], Behind(l, p + 1))
<1> DEFINE s == Behind(l, p)
           u == Behind(l, p + 1)
<1>1. Len(l) \in Nat /\ p + 1 \in 1..Len(l) /\ p + 1 \in Nat /\ p <= Len(l) /\ p + 1 <= Len(l)
  BY LenProperties
<1>2. IsBehind(s, T, l, p) /\ IsBehind(u, T, l, p + 1)
  BY <1>1, BehindIs
<1>3. l[p + 1] \in T
  BY <1>1, ElementOfSeq
<1> HIDE DEF s, u
<1>4. Longer(s, l[p + 1], u)
  BY <1>1, <1>2 DEF IsBehind, Longer
<1> QED
  BY <1>2, <1>3, <1>4 DEF IsBehind, s, u

LEMMA AheadLonger ==
  ASSUME NEW T, NEW l \in Seq(T), NEW p \in Nat, p + 1 < Len(l)
  PROVE  /\ Ahead(l, p) \in Seq(T) /\ Ahead(l, p + 1) \in Seq(T) /\ l[p + 2] \in T
         /\ Longer(Ahead(l, p + 1), l[p + 2], Ahead(l, p))
<1> DEFINE m == Len(l)
           q == p + 1
           s == Ahead(l, q)
           u == Ahead(l, p)
<1>1. m \in Nat /\ q \in Nat /\ q < m /\ p < m /\ p + 2 \in 1..m
  BY LenProperties
<1> HIDE DEF q
<1>2. IsAhead(s, T, l, q) /\ IsAhead(u, T, l, p)
  BY <1>1, AheadIs
<1>3. l[p + 2] \in T
  BY <1>1, ElementOfSeq
<1> HIDE DEF s, u
<1>4. /\ Len(s) = m - q - 1 /\ \A k \in 1..m - q - 1 : s[k] = l[m + 1 - k]
      /\ Len(u) = m - p - 1 /\ \A k \in 1..m - p - 1 : u[k] = l[m + 1 - k]
  BY <1>2 DEF IsAhead
<1>5. Longer(s, l[p + 2], u)
  <2> HIDE DEF m
  <2>1. Len(u) = Len(s) + 1
    BY <1>1, <1>4 DEF q
  <2>2. u[Len(u)] = l[p + 2]
    <3>1. m - p - 1 \in 1..m - p - 1 /\ m + 1 - (m - p - 1) = p + 2
      BY <1>1 DEF q
    <3> QED
      BY <1>4, <3>1
  <2>3. ASSUME NEW k \in 1..Len(s) PROVE u[k] = s[k]
    <3>1. k \in 1..m - q - 1 /\ k \in 1..m - p - 1
      BY <1>1, <1>4 DEF q
    <3> QED
      BY <1>4, <3>1
  <2> QED
    BY <2>1, <2>2, <2>3 DEF Longer
<1> QED
  BY <1>2, <1>3, <1>5 DEF IsAhead, s, u, q

\* Where on the line the save lies: the place after the entry it names.
SavedIn(E, m) ==
  LET at == {k \in DOMAIN E : E[k].id = m}
  IN IF m = Empty THEN 0 ELSE IF at = {} THEN -1 ELSE CHOOSE k \in at : TRUE

IsSaved(s, E, m) ==
  \/ m = Empty /\ s = 0
  \/ m # Empty /\ s \in 1..Len(E) /\ E[s].id = m
  \/ m # Empty /\ s = -1 /\ \A k \in 1..Len(E) : E[k].id # m

LEMMA SavedIs ==
  ASSUME NEW E, NEW m, DOMAIN E = 1..Len(E)
  PROVE  IsSaved(SavedIn(E, m), E, m)
<1> DEFINE at == {k \in DOMAIN E : E[k].id = m}
<1>1. CASE m = Empty
  BY <1>1 DEF SavedIn, IsSaved
<1>2. CASE m # Empty /\ at = {}
  BY <1>2 DEF SavedIn, IsSaved
<1>3. CASE m # Empty /\ at # {}
  <2>1. SavedIn(E, m) = CHOOSE k \in at : TRUE
    BY <1>3 DEF SavedIn
  <2>2. (CHOOSE k \in at : TRUE) \in at
    BY <1>3
  <2> DEFINE s == SavedIn(E, m)
  <2> HIDE DEF s
  <2>3. s \in at
    BY <2>1, <2>2 DEF s
  <2>4. s \in 1..Len(E) /\ E[s].id = m
    BY <2>3
  <2> QED
    BY <1>3, <2>4 DEF IsSaved, s
<1> QED
  BY <1>1, <1>2, <1>3

LEMMA SavedOnce ==
  ASSUME NEW E, NEW next, NEW m, Numbered(E, next), Len(E) \in Nat,
         NEW r, NEW s, IsSaved(r, E, m), IsSaved(s, E, m)
  PROVE  r = s
<1>1. CASE m = Empty
  BY <1>1 DEF IsSaved
<1>2. CASE m # Empty /\ r \in 1..Len(E) /\ s \in 1..Len(E) /\ E[r].id = m /\ E[s].id = m
  <2>1. /\ r < s => E[r].id < E[s].id
        /\ s < r => E[s].id < E[r].id
        /\ E[r].id \in Nat /\ E[s].id \in Nat
    BY <1>2 DEF Numbered
  <2>2. ~(r < s) /\ ~(s < r)
    BY <1>2, <2>1
  <2> QED
    BY <1>2, <2>2
<1>3. CASE m # Empty /\ r = -1 /\ s = -1
  BY <1>3
<1> QED
  BY <1>1, <1>2, <1>3 DEF IsSaved

\* An entry added after p of them loses a save that lies beyond.
LEMMA SavedEdit ==
  ASSUME NEW E, NEW next, NEW m, NEW s, IsSaved(s, E, m), Numbered(E, next),
         next \in Nat, m < next, Len(E) \in Nat, NEW p \in 0..Len(E),
         NEW F, NEW op, Len(F) = p + 1, \A k \in 1..p : F[k] = E[k],
         F[p + 1] = [id |-> next, op |-> op], m \in Int
  PROVE  IsSaved(IF s > p THEN -1 ELSE s, F, m)
<1>1. F[p + 1].id = next /\ next # m
  OBVIOUS
<1>2. CASE m = Empty
  <2>1. s = 0 /\ ~(s > p)
    BY <1>2 DEF IsSaved
  <2> QED
    BY <1>2, <2>1 DEF IsSaved
<1>3. CASE m # Empty /\ s \in 1..Len(E) /\ E[s].id = m
  <2>1. CASE s > p
    <3>1. ASSUME NEW k \in 1..p + 1 PROVE F[k].id # m
      <4>1. CASE k = p + 1
        BY <1>1, <4>1
      <4>2. CASE k # p + 1
        <5>1. k \in 1..p /\ k \in 1..Len(E) /\ k < s
          BY <1>3, <2>1, <4>2
        <5>2. E[k].id < E[s].id /\ E[k].id \in Nat
          BY <1>3, <5>1 DEF Numbered
        <5> QED
          BY <1>3, <5>1, <5>2
      <4> QED
        BY <4>1, <4>2
    <3> QED
      BY <1>3, <2>1, <3>1 DEF IsSaved
  <2>2. CASE ~(s > p)
    <3>1. s \in 1..p /\ s \in 1..p + 1
      BY <1>3, <2>2
    <3>2. F[s].id = m
      BY <1>3, <3>1
    <3> QED
      BY <1>3, <2>2, <3>1, <3>2 DEF IsSaved
  <2> QED
    BY <2>1, <2>2
<1>4. CASE m # Empty /\ s = -1 /\ \A k \in 1..Len(E) : E[k].id # m
  <2>1. ASSUME NEW k \in 1..p + 1 PROVE F[k].id # m
    <3>1. CASE k = p + 1
      BY <1>1, <3>1
    <3>2. CASE k # p + 1
      <4>1. k \in 1..p /\ k \in 1..Len(E)
        BY <3>2
      <4> QED
        BY <1>4, <4>1
    <3> QED
      BY <3>1, <3>2
  <2>2. ~(s > p)
    BY <1>4
  <2> QED
    BY <1>4, <2>1, <2>2 DEF IsSaved
<1> QED
  BY <1>2, <1>3, <1>4 DEF IsSaved

\* The variables of Timeline as this module has them.
LEMMA Mapped ==
  ASSUME IInv
  PROVE  /\ Past = Behind(line, Len(undoStack)) /\ Future = Ahead(line, Len(undoStack))
         /\ Here = line[Len(undoStack) + 1] /\ Here \in Seq(Byte)
         /\ SavedAt = SavedIn(Entries, marker) /\ IsSaved(SavedAt, Entries, marker)
         /\ Numbered(Entries, nextId) /\ Len(Entries) \in Nat /\ nextId \in Nat
         /\ marker \in Int /\ marker < nextId
         /\ Len(undoStack) \in 0..Len(Entries) /\ Len(undoStack) \in Nat
         /\ line \in Seq(Seq(Byte)) /\ Len(line) = Len(Entries) + 1
         /\ Len(Past) = Len(undoStack)
<1>1. Past = Behind(line, Len(undoStack)) /\ Future = Ahead(line, Len(undoStack))
      /\ Here = line[Len(undoStack) + 1]
  BY DEF Past, Future, Here, Behind, Ahead
<1>2. /\ Numbered(Entries, nextId) /\ Len(Entries) \in Nat /\ nextId \in Nat
      /\ marker \in Int /\ marker < nextId
      /\ Len(undoStack) \in 0..Len(Entries) /\ Len(undoStack) \in Nat
      /\ line \in Seq(Seq(Byte)) /\ Len(line) = Len(Entries) + 1
  BY DEF IInv, Kept, History
<1>3. SavedAt = SavedIn(Entries, marker)
  BY DEF SavedAt, SavedIn, Entries, Along
<1>4. DOMAIN Entries = 1..Len(Entries)
  <2>1. PICK S : undoStack \in Seq(Entry(S)) /\ redoStack \in Seq(Entry(S))
    BY DEF IInv, Stacks, Stack
  <2>2. IsAlong(Entries, Entry(S), undoStack, redoStack)
    BY <2>1, AlongIs DEF Entries
  <2>3. Entries \in Seq(Entry(S))
    BY <2>2 DEF IsAlong
  <2> QED
    BY <2>3
<1>5. IsSaved(SavedAt, Entries, marker)
  BY <1>3, <1>4, SavedIs
<1>6. IsBehind(Behind(line, Len(undoStack)), Seq(Byte), line, Len(undoStack))
  BY <1>2, BehindIs
<1>7. Len(Past) = Len(undoStack)
  BY <1>1, <1>6 DEF IsBehind
<1> QED
  BY <1>1, <1>2, <1>3, <1>5, <1>7, HereIs

LEMMA InitMaps ==
  ASSUME Init
  PROVE  Line!Init
<1>1. IInv
  BY InitKept
<1>2. PICK data \in Strings : line = <<data>>
  BY DEF Init
<1>3. undoStack = <<>> /\ marker = Empty /\ Len(undoStack) = 0
  BY DEF Init
<1>4. Here \in Seq(Byte) /\ SavedAt = 0
  BY <1>1, <1>3, Mapped DEF IsSaved
<1>5. Past = <<>>
  <2>1. SubSeq(line, 1, 0) = <<>>
    BY SubSeqEmpty
  <2> QED
    BY <1>3, <2>1 DEF Past
<1>6. Future = <<>>
  <2>1. IsAhead(Future, Seq(Byte), line, 0)
    BY <1>1, <1>3, Mapped, AheadIs
  <2>2. Len(line) = 1
    BY <1>2
  <2>3. Future \in Seq(Seq(Byte)) /\ Len(Future) = 0
    BY <2>1, <2>2 DEF IsAhead
  <2> QED
    BY <2>3, EmptySeq
<1> QED
  BY <1>4, <1>5, <1>6 DEF Line!Init

LEMMA EditMaps ==
  ASSUME IInv, NEW op, NEW b, Turns(op, Here, b), ChangesBytes(op) <=> b # Here,
         Holds(table', b, table.original), Commit(op), ChangesBytes(op)
  PROVE  Line!Edit
<1> DEFINE p == Len(undoStack)
           T == Seq(Byte)
           l == line
           k == line'
<1>1. /\ IInv' /\ Len(undoStack') = p + 1 /\ Len(Entries') = p + 1
      /\ \A i \in 1..p : Entries'[i] = Entries[i]
      /\ Entries'[p + 1] = [id |-> nextId, op |-> op]
      /\ k = Append(SubSeq(l, 1, p + 1), b)
  BY CommitKept
<1>2. b \in T /\ b # Here /\ marker' = marker
  BY DEF Turns, Commit
<1>3. /\ Past = Behind(l, p) /\ Future = Ahead(l, p) /\ Here = l[p + 1]
      /\ IsSaved(SavedAt, Entries, marker)
      /\ Numbered(Entries, nextId) /\ Len(Entries) \in Nat /\ nextId \in Nat
      /\ marker \in Int /\ marker < nextId
      /\ p \in 0..Len(Entries) /\ p \in Nat
      /\ l \in Seq(T) /\ Len(l) = Len(Entries) + 1 /\ Len(Past) = p
  BY Mapped
<1>4. /\ Past' = Behind(k, p + 1) /\ Future' = Ahead(k, p + 1) /\ Here' = k[p + 2]
      /\ IsSaved(SavedAt', Entries', marker)
      /\ Numbered(Entries', nextId') /\ Len(Entries') \in Nat
      /\ k \in Seq(T) /\ Len(k) = p + 2
  <2>1. /\ Past' = Behind(line', Len(undoStack')) /\ Future' = Ahead(line', Len(undoStack'))
        /\ Here' = line'[Len(undoStack') + 1]
        /\ IsSaved(SavedAt', Entries', marker')
        /\ Numbered(Entries', nextId') /\ Len(Entries') \in Nat
        /\ line' \in Seq(T) /\ Len(line') = Len(Entries') + 1
    <3>1. (/\ Past = Behind(line, Len(undoStack)) /\ Future = Ahead(line, Len(undoStack))
           /\ Here = line[Len(undoStack) + 1]
           /\ IsSaved(SavedAt, Entries, marker)
           /\ Numbered(Entries, nextId) /\ Len(Entries) \in Nat
           /\ line \in Seq(Seq(Byte)) /\ Len(line) = Len(Entries) + 1)'
      BY <1>1, Mapped, PTL
    <3> QED
      BY <3>1
  <2>2. (p + 1) + 1 = p + 2
    BY <1>3
  <2> QED
    BY <1>1, <1>2, <2>1, <2>2
<1> HIDE DEF p, T, k
<1>5. /\ \A i \in 1..p + 1 : k[i] = l[i]
      /\ k[p + 2] = b
  <2>1. p < Len(l)
    BY <1>3
  <2> QED
    BY <1>1, <1>2, <1>3, <2>1, LineNew
<1>6. Here' = b
  BY <1>4, <1>5
<1>7. Past' = Append(Past, Here)
  <2>1. /\ Behind(l, p) \in Seq(T) /\ l[p + 1] \in T
        /\ Len(Behind(l, p)) = p
        /\ IsBehind(Behind(l, p), T, l, p)
    <3>1. p < Len(l) /\ p <= Len(l)
      BY <1>3
    <3> QED
      BY <1>3, <3>1, BehindLonger, BehindIs
  <2>2. IsBehind(Behind(k, p + 1), T, k, p + 1)
    <3>1. p + 1 \in Nat /\ p + 1 <= Len(k)
      BY <1>3, <1>4
    <3> QED
      BY <1>4, <3>1, BehindIs
  <2> DEFINE s == Behind(l, p)
             u == Behind(k, p + 1)
  <2> HIDE DEF s, u
  <2>3. s \in Seq(T) /\ Len(s) = p /\ \A i \in 1..p : s[i] = l[i]
    BY <2>1 DEF IsBehind, s
  <2>4. u \in Seq(T) /\ Len(u) = p + 1 /\ \A i \in 1..p + 1 : u[i] = k[i]
    BY <2>2 DEF IsBehind, u
  <2>5. Longer(s, l[p + 1], u)
    <3>1. u[p + 1] = l[p + 1]
      BY <1>3, <1>5, <2>4
    <3>2. ASSUME NEW i \in 1..p PROVE u[i] = s[i]
      <4>1. i \in 1..p + 1
        BY <1>3
      <4> QED
        BY <1>5, <2>3, <2>4, <4>1
    <3> QED
      BY <2>3, <2>4, <3>1, <3>2 DEF Longer
  <2>6. u = Append(s, l[p + 1])
    BY <2>1, <2>3, <2>4, <2>5, LongerIs
  <2> QED
    BY <1>3, <1>4, <2>6 DEF s, u
<1>8. Future' = <<>>
  <2>1. p + 1 \in Nat /\ p + 1 < Len(k) /\ Len(k) - (p + 1) - 1 = 0
    BY <1>3, <1>4
  <2>2. IsAhead(Ahead(k, p + 1), T, k, p + 1)
    BY <1>4, <2>1, AheadIs
  <2>3. Ahead(k, p + 1) \in Seq(T) /\ Len(Ahead(k, p + 1)) = 0
    BY <2>1, <2>2 DEF IsAhead
  <2> QED
    BY <1>4, <2>3, EmptySeq
<1>9. SavedAt' = IF SavedAt > Len(Past) THEN -1 ELSE SavedAt
  <2> DEFINE E == Entries
             F == Entries'
             s == SavedAt
             r == IF s > p THEN -1 ELSE s
  <2>1. /\ IsSaved(s, E, marker) /\ Numbered(E, nextId) /\ Len(E) \in Nat /\ p \in 0..Len(E)
        /\ Len(F) = p + 1 /\ (\A i \in 1..p : F[i] = E[i])
        /\ F[p + 1] = [id |-> nextId, op |-> op]
    BY <1>1, <1>3 DEF p
  <2>2. IsSaved(SavedAt', F, marker) /\ Numbered(F, nextId') /\ Len(F) \in Nat
    BY <1>4
  <2> HIDE DEF E, F, s
  <2>3. IsSaved(r, F, marker)
    BY <1>3, <2>1, SavedEdit, SMTT(40)
  <2> HIDE DEF r
  <2>4. SavedAt' = r
    BY <2>2, <2>3, SavedOnce
  <2> QED
    BY <1>3, <2>4 DEF r, s
<1> QED
  BY <1>2, <1>6, <1>7, <1>8, <1>9 DEF Line!Edit, Line!Lost, T

LEMMA UndoMaps ==
  ASSUME IInv, Undo
  PROVE  Line!Undo
<1> DEFINE p == Len(undoStack)
           q == p - 1
           T == Seq(Byte)
           l == line
<1>1. /\ IInv' /\ Entries' = Entries /\ Len(undoStack') = q /\ p # 0
      /\ line' = l /\ marker' = marker
  BY UndoKept DEF Undo
<1>2. /\ Past = Behind(l, p) /\ Future = Ahead(l, p) /\ Here = l[p + 1]
      /\ SavedAt = SavedIn(Entries, marker)
      /\ p \in 0..Len(Entries) /\ p \in Nat /\ Len(Entries) \in Nat
      /\ l \in Seq(T) /\ Len(l) = Len(Entries) + 1
  BY Mapped
<1>3. /\ Past' = Behind(l, q) /\ Future' = Ahead(l, q) /\ Here' = l[q + 1]
      /\ SavedAt' = SavedIn(Entries, marker)
  <2>1. (/\ Past = Behind(line, Len(undoStack)) /\ Future = Ahead(line, Len(undoStack))
         /\ Here = line[Len(undoStack) + 1]
         /\ SavedAt = SavedIn(Entries, marker))'
    BY <1>1, Mapped, PTL
  <2> QED
    BY <1>1, <2>1
<1>4. q \in Nat /\ q + 1 = p /\ q + 2 = p + 1 /\ q < Len(l) /\ q + 1 < Len(l)
  BY <1>1, <1>2
<1> HIDE DEF p, q, T
<1>5. /\ Behind(l, q) \in Seq(T) /\ Behind(l, q + 1) \in Seq(T) /\ l[q + 1] \in T
      /\ Longer(Behind(l, q), l[q + 1], Behind(l, q + 1))
  BY <1>2, <1>4, BehindLonger
<1>6. /\ Ahead(l, q) \in Seq(T) /\ Ahead(l, q + 1) \in Seq(T) /\ l[q + 2] \in T
      /\ Longer(Ahead(l, q + 1), l[q + 2], Ahead(l, q))
  BY <1>2, <1>4, AheadLonger
<1> DEFINE s == Behind(l, q)
           u == Behind(l, q + 1)
           f == Ahead(l, q + 1)
           g == Ahead(l, q)
<1> HIDE DEF s, u, f, g
<1>7. s = SubSeq(u, 1, Len(u) - 1) /\ u # <<>> /\ l[q + 1] = u[Len(u)]
  BY <1>5, LongerIs DEF s, u
<1>8. g = Append(f, l[q + 2])
  BY <1>6, LongerIs DEF f, g
<1>9. Past = u /\ Past' = s /\ Future = f /\ Future' = g
  BY <1>2, <1>3, <1>4 DEF s, u, f, g
<1> QED
  BY <1>2, <1>3, <1>4, <1>7, <1>8, <1>9 DEF Line!Undo

LEMMA RedoMaps ==
  ASSUME IInv, Redo
  PROVE  Line!Redo
<1> DEFINE p == Len(undoStack)
           T == Seq(Byte)
           l == line
<1>1. /\ IInv' /\ Entries' = Entries /\ Len(undoStack') = p + 1 /\ p # Len(Entries)
      /\ line' = l /\ marker' = marker
  BY RedoKept DEF Redo
<1>2. /\ Past = Behind(l, p) /\ Future = Ahead(l, p) /\ Here = l[p + 1]
      /\ SavedAt = SavedIn(Entries, marker)
      /\ p \in 0..Len(Entries) /\ p \in Nat /\ Len(Entries) \in Nat
      /\ l \in Seq(T) /\ Len(l) = Len(Entries) + 1
  BY Mapped
<1>3. /\ Past' = Behind(l, p + 1) /\ Future' = Ahead(l, p + 1) /\ Here' = l[(p + 1) + 1]
      /\ SavedAt' = SavedIn(Entries, marker)
  <2>1. (/\ Past = Behind(line, Len(undoStack)) /\ Future = Ahead(line, Len(undoStack))
         /\ Here = line[Len(undoStack) + 1]
         /\ SavedAt = SavedIn(Entries, marker))'
    BY <1>1, Mapped, PTL
  <2> QED
    BY <1>1, <2>1
<1>4. (p + 1) + 1 = p + 2 /\ p < Len(l) /\ p + 1 < Len(l)
  BY <1>1, <1>2
<1> HIDE DEF p, T
<1>5. /\ Behind(l, p) \in Seq(T) /\ Behind(l, p + 1) \in Seq(T) /\ l[p + 1] \in T
      /\ Longer(Behind(l, p), l[p + 1], Behind(l, p + 1))
  BY <1>2, <1>4, BehindLonger
<1>6. /\ Ahead(l, p) \in Seq(T) /\ Ahead(l, p + 1) \in Seq(T) /\ l[p + 2] \in T
      /\ Longer(Ahead(l, p + 1), l[p + 2], Ahead(l, p))
  BY <1>2, <1>4, AheadLonger
<1> DEFINE s == Behind(l, p)
           u == Behind(l, p + 1)
           f == Ahead(l, p + 1)
           g == Ahead(l, p)
<1> HIDE DEF s, u, f, g
<1>7. u = Append(s, l[p + 1])
  BY <1>5, LongerIs DEF s, u
<1>8. f = SubSeq(g, 1, Len(g) - 1) /\ g # <<>> /\ l[p + 2] = g[Len(g)]
  BY <1>6, LongerIs DEF f, g
<1>9. Past = s /\ Past' = u /\ Future = g /\ Future' = f
  BY <1>2, <1>3 DEF s, u, f, g
<1> QED
  BY <1>2, <1>3, <1>4, <1>7, <1>8, <1>9 DEF Line!Redo

LEMMA SaveMaps ==
  ASSUME IInv, Save
  PROVE  Line!Save
<1> DEFINE p == Len(undoStack)
           n == IF p = 0 THEN Empty ELSE Entries[p].id
<1>1. IInv' /\ Entries' = Entries /\ marker' = n
      /\ undoStack' = undoStack /\ line' = line
  BY SaveKept DEF Save
<1>2. /\ Numbered(Entries, nextId) /\ Len(Entries) \in Nat
      /\ p \in 0..Len(Entries) /\ p \in Nat /\ Len(Past) = p
  BY Mapped
<1>3. IsSaved(SavedAt', Entries, marker')
  <2>1. IsSaved(SavedAt, Entries, marker)'
    BY <1>1, Mapped, PTL
  <2> QED
    BY <1>1, <2>1
<1>4. IsSaved(p, Entries, n)
  <2>1. CASE p = 0
    BY <2>1 DEF IsSaved
  <2>2. CASE p # 0
    <3>1. p \in 1..Len(Entries)
      BY <1>2, <2>2
    <3>2. n # Empty /\ Entries[p].id = n
      BY <1>2, <2>2, <3>1 DEF Numbered, Empty
    <3> QED
      BY <3>1, <3>2 DEF IsSaved
  <2> QED
    BY <2>1, <2>2
<1> HIDE DEF n, p
<1>5. SavedAt' = p
  BY <1>1, <1>2, <1>3, <1>4, SavedOnce
<1>6. UNCHANGED <<Here, Past, Future>>
  BY <1>1 DEF Here, Past, Future
<1> QED
  BY <1>2, <1>5, <1>6 DEF Line!Save

(* The history implements the line of contents: an entry is added exactly  *)
(* when an edit changes a byte, undo and redo move along the line, a new   *)
(* edit drops what was undone and with it a save that lay there            *)
(* (UndoManager, DocumentState::commit).                                   *)
THEOREM LineTheorem == Spec => ImplementsLine
<1>1. Init => Line!Init
  BY InitMaps
<1>2. IInv /\ [Next]_vars => [Line!Next]_(Line!tvars)
  <2> SUFFICES ASSUME IInv, [Next]_vars PROVE Line!Next \/ UNCHANGED <<Here, Past, Future, SavedAt>>
    BY DEF Line!tvars
  <2>1. ASSUME UNCHANGED <<undoStack, redoStack, nextId, marker, line>>
        PROVE  UNCHANGED <<Here, Past, Future, SavedAt>>
    BY <2>1 DEF Here, Past, Future, SavedAt
  <2>2. CASE Room /\ AnyEdit
    <3>1. TurnedFrom(Here)
      BY <2>2, HereIs, EditsTurned
    <3>2. CASE UNCHANGED vars
      BY <2>1, <3>2 DEF vars
    <3>3. CASE \E op, b : /\ Turns(op, Here, b) /\ (ChangesBytes(op) <=> b # Here)
                          /\ Holds(table', b, table.original) /\ Commit(op)
      <4>1. PICK op, b : /\ Turns(op, Here, b) /\ (ChangesBytes(op) <=> b # Here)
                         /\ Holds(table', b, table.original) /\ Commit(op)
        BY <3>3
      <4>2. CASE ChangesBytes(op)
        BY <4>1, <4>2, EditMaps DEF Line!Next
      <4>3. CASE ~ChangesBytes(op)
        BY <2>1, <4>1, <4>3 DEF Commit
      <4> QED
        BY <4>2, <4>3
    <3> QED
      BY <3>1, <3>2, <3>3 DEF TurnedFrom
  <2>3. CASE Undo
    BY <2>3, UndoMaps DEF Line!Next
  <2>4. CASE Redo
    BY <2>4, RedoMaps DEF Line!Next
  <2>5. CASE Save
    BY <2>5, SaveMaps DEF Line!Next
  <2>6. CASE UNCHANGED vars
    BY <2>1, <2>6 DEF vars
  <2> QED
    BY <2>2, <2>3, <2>4, <2>5, <2>6 DEF Next
<1> QED
  BY <1>1, <1>2, Inductive, PTL DEF Spec, ImplementsLine, Line!Spec
=============================================================================
