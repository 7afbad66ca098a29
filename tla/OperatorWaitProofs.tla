------------------------- MODULE OperatorWaitProofs -------------------------
(***************************************************************************)
(* What the deadlines of OperatorWait guarantee for any requests,          *)
(* questions, budgets and factor, as long as no question met an expired    *)
(* deadline.                                                               *)
(*                                                                         *)
(* The argument: while nobody is asked a deadline's distance from its cap  *)
(* shrinks exactly as the request is charged, and while somebody is asked  *)
(* neither changes.  Both cases are one statement about Base, the moment   *)
(* the clock of the requests stands at, and Left, what a deadline has left *)
(* from there.                                                             *)
(***************************************************************************)
EXTENDS OperatorWait, FiniteSetTheorems, TLAPS

OpenSet == {q \in Questions : question[q] = "open"}

\* The moment up to which requests were charged.
Base == IF waiting THEN pausedAt ELSE now
\* What a deadline has left from there.
Left(r) == IF waiting THEN remaining[r] ELSE when[r] - now

\* Both counters know whether somebody is asked.
Counted ==
  /\ IF waiting THEN pausedAt \in Nat /\ pausedAt <= now ELSE pausedAt = NoTime
  /\ ~Stuck => openQuestions = Cardinality(OpenSet)

Unsent == \A r \in Requests : state[r] = "unsent" => ran[r] = 0 /\ idle[r] = 0

\* A running deadline is where its charges put it.
Accounted(r) ==
  /\ IF waiting THEN when[r] = NoTime /\ remaining[r] \in Nat
                ELSE when[r] \in Nat /\ remaining[r] = NoTime
  /\ capAt[r] = Base + Longest(r) + early[r] - ran[r]
  /\ 0 <= Left(r)
  /\ Left(r) <= capAt[r] - Base
  /\ Left(r) + idle[r] <= Budget[r]
  /\ Left(r) + idle[r] >= Budget[r] \/ Left(r) = capAt[r] - Base

IInv ==
  /\ TypeOK
  /\ Counted
  /\ Unsent
  /\ ~Stuck => \A r \in Entered : Accounted(r)
  /\ TimeoutIsEarned

-----------------------------------------------------------------------------
(* A question is open exactly when the set of open questions has members.  *)
LEMMA AskedCounted ==
  /\ IsFiniteSet(OpenSet)
  /\ Cardinality(OpenSet) \in Nat
  /\ Cardinality(OpenSet) = 0 <=> ~Asked
<1>1. IsFiniteSet(OpenSet)
  BY FS_Subset, FiniteAssumption DEF OpenSet
<1>2. Cardinality(OpenSet) = 0 <=> OpenSet = {}
  BY <1>1, FS_EmptySet
<1> QED
  BY <1>1, <1>2, FS_CardinalityType DEF Asked, OpenSet

(* As long as no question was refused the clock waits when somebody is asked. *)
LEMMA WaitingIsAsked ==
  ASSUME Counted, ~Stuck, openQuestions \in Nat
  PROVE  waiting <=> Asked
BY AskedCounted DEF Counted, waiting

(* A budget is at least one, and the longest a request can last at least a budget. *)
LEMMA Budgets ==
  ASSUME NEW r \in Requests
  PROVE  /\ Budget[r] \in Nat \ {0}
         /\ Longest(r) \in Nat
         /\ Budget[r] <= Longest(r)
<1>1. Budget[r] \in Nat \ {0} /\ Factor \in Nat \ {0}
  BY BudgetAssumption, FactorAssumption
<1>2. \A b, f \in Nat \ {0} : b * f \in Nat /\ b <= b * f
  BY Z3
<1> QED
  BY <1>1, <1>2 DEF Longest

-----------------------------------------------------------------------------
(* The type invariant.                                                     *)

LEMMA InitType == Init => TypeOK
BY DEF Init, TypeOK, Times, NoTime

LEMMA StepType == TypeOK /\ Counted /\ [Next]_vars => TypeOK'
<1> SUFFICES ASSUME TypeOK, Counted, [Next]_vars
             PROVE  TypeOK'
  OBVIOUS
<1> USE DEF TypeOK, Times, NoTime
<1>1. ASSUME NEW r \in Requests, Send(r)
      PROVE  TypeOK'
  <2>1. Cardinality({x \in Requests : state[x] # "unsent"}) \in Nat
    BY FS_Subset, FS_CardinalityType, FiniteAssumption
  <2>2. Budget[r] \in Nat /\ Longest(r) \in Nat
    BY Budgets
  <2>3. waiting => now - pausedAt \in Nat
    BY DEF Counted
  <2> QED
    BY <1>1, <2>1, <2>2, <2>3 DEF Send, StartsSuspended
<1>2. ASSUME NEW r \in Requests, Leave(r)
      PROVE  TypeOK'
  BY <1>2 DEF Leave, timers, history
<1>3. ASSUME NEW r \in Requests, Expire(r)
      PROVE  TypeOK'
  BY <1>3 DEF Expire, timers, history
<1>4. ASSUME NEW r \in Requests, NEW p \in 1..MaxProgress, Receive(r, p)
      PROVE  TypeOK'
  <2>1. /\ RenewedRemaining(r) \in Nat \/ pausedAt = NoTime
        /\ Target(r) \in Nat
    BY Budgets DEF RenewedRemaining, Target, Least, AtLeast0
  <2>2. when' \in [Requests -> Times] /\ remaining' \in [Requests -> Times]
    BY <1>4, <2>1 DEF Receive, Renew, Suspended
  <2>3. p \in Nat
    BY BoundsAssumption
  <2> QED
    BY <1>4, <2>2, <2>3 DEF Receive
<1>5. ASSUME NEW q \in Questions, AskFirst(q)
      PROVE  TypeOK'
  BY <1>5 DEF AskFirst, Reached, AtLeast0, history
<1>6. ASSUME NEW q \in Questions, AskMore(q)
      PROVE  TypeOK'
  BY <1>6 DEF AskMore, timers, history
<1>7. ASSUME NEW q \in Questions, CloseOne(q)
      PROVE  TypeOK'
  BY <1>7 DEF CloseOne, timers, history
<1>8. ASSUME NEW q \in Questions, CloseLast(q)
      PROVE  TypeOK'
  BY <1>8 DEF CloseLast, Counted, waiting, Resumed, Entered, history
<1>9. CASE Tick
  BY <1>9 DEF Tick, timers
<1>10. CASE UNCHANGED vars
  BY <1>10 DEF vars, timers, history
<1> QED
  BY <1>1, <1>2, <1>3, <1>4, <1>5, <1>6, <1>7, <1>8, <1>9, <1>10 DEF Next

-----------------------------------------------------------------------------
(* The other conjuncts that do not depend on the deadlines.                *)

LEMMA StepCounted == TypeOK /\ Counted /\ [Next]_vars => Counted'
<1> SUFFICES ASSUME TypeOK, Counted, [Next]_vars
             PROVE  Counted'
  OBVIOUS
<1> USE DEF TypeOK, Times, NoTime
<1>a. ASSUME UNCHANGED <<openQuestions, pausedAt, question>>, now' = now \/ now' = now + 1
      PROVE  Counted'
  BY <1>a DEF Counted, Stuck, OpenSet, waiting
<1>1. CASE \E r \in Requests : Send(r) \/ Leave(r) \/ Expire(r)
                               \/ \E p \in 1..MaxProgress : Receive(r, p)
  BY <1>1, <1>a DEF Send, Leave, Expire, Receive
<1>2. ASSUME NEW q \in Questions, AskFirst(q)
      PROVE  Counted'
  <2>1. CASE Expiring # {}
    BY <2>1, <1>2 DEF AskFirst, Counted, Stuck, waiting
  <2>2. CASE Expiring = {}
    <3>1. OpenSet' = OpenSet \union {q} /\ q \notin OpenSet
      BY <2>2, <1>2 DEF AskFirst, OpenSet
    <3>2. Cardinality(OpenSet') = Cardinality(OpenSet) + 1
      BY <3>1, AskedCounted, FS_AddElement
    <3>3. Stuck' <=> Stuck
      BY <2>2, <1>2 DEF AskFirst, Stuck
    <3> QED
      BY <3>2, <3>3, <1>2, AskedCounted DEF AskFirst, Counted, waiting
  <2> QED
    BY <2>1, <2>2
<1>3. ASSUME NEW q \in Questions, AskMore(q)
      PROVE  Counted'
  <2>1. OpenSet' = OpenSet \union {q} /\ q \notin OpenSet
    BY <1>3 DEF AskMore, OpenSet
  <2>2. Cardinality(OpenSet') = Cardinality(OpenSet) + 1
    BY <2>1, AskedCounted, FS_AddElement
  <2>3. Stuck' <=> Stuck
    BY <1>3 DEF AskMore, Stuck
  <2> QED
    BY <2>2, <2>3, <1>3, AskedCounted DEF AskMore, Counted, waiting
<1>4. ASSUME NEW q \in Questions, CloseOne(q) \/ CloseLast(q)
      PROVE  Counted'
  <2>1. OpenSet' = OpenSet \ {q} /\ q \in OpenSet
    BY <1>4 DEF CloseOne, CloseLast, OpenSet
  <2>2. Cardinality(OpenSet') = Cardinality(OpenSet) - 1
    BY <2>1, AskedCounted, FS_RemoveElement
  <2>3. Stuck' <=> Stuck
    BY <1>4 DEF CloseOne, CloseLast, Stuck
  <2> QED
    BY <2>2, <2>3, <1>4, AskedCounted DEF CloseOne, CloseLast, Counted, waiting
<1>5. CASE Tick
  BY <1>5, <1>a DEF Tick
<1>6. CASE UNCHANGED vars
  BY <1>6, <1>a DEF vars
<1> QED
  BY <1>1, <1>2, <1>3, <1>4, <1>5, <1>6 DEF Next

(* A request is not charged before it is sent.                             *)
LEMMA StepUnsent == TypeOK /\ Unsent /\ [Next]_vars => Unsent'
<1> SUFFICES ASSUME TypeOK, Unsent, [Next]_vars
             PROVE  Unsent'
  OBVIOUS
<1>1. ASSUME NEW r \in Requests, Send(r) \/ Leave(r) \/ Expire(r)
      PROVE  Unsent'
  BY <1>1 DEF TypeOK, Unsent, Send, Leave, Expire, history
<1>2. ASSUME NEW r \in Requests, NEW p \in 1..MaxProgress, Receive(r, p)
      PROVE  Unsent'
  BY <1>2 DEF TypeOK, Unsent, Receive
<1>3. ASSUME NEW q \in Questions, AskFirst(q) \/ AskMore(q) \/ CloseOne(q) \/ CloseLast(q)
      PROVE  Unsent'
  BY <1>3 DEF Unsent, AskFirst, AskMore, CloseOne, CloseLast, history
<1>4. CASE Tick
  BY <1>4 DEF TypeOK, Unsent, Tick, Entered
<1>5. CASE UNCHANGED vars
  BY <1>5 DEF Unsent, vars, history
<1> QED
  BY <1>1, <1>2, <1>3, <1>4, <1>5 DEF Next

(* A question that was refused stays refused.                              *)
LEMMA StuckStays == [Next]_vars /\ TypeOK /\ Stuck => Stuck'
BY DEF TypeOK, Stuck, Next, Send, Leave, Expire, Receive, AskFirst, AskMore, CloseOne,
       CloseLast, Tick, vars

-----------------------------------------------------------------------------
(* The deadlines.                                                          *)

LEMMA InitInv == Init => IInv
<1> SUFFICES ASSUME Init
             PROVE  IInv
  OBVIOUS
<1>1. OpenSet = {} /\ ~waiting /\ pausedAt = NoTime /\ openQuestions = 0
  BY DEF Init, OpenSet, waiting
<1>2. Counted
  BY <1>1, FS_EmptySet DEF Counted
<1>3. Entered = {} /\ Expiring = {} /\ Unsent
  BY DEF Init, Entered, Expiring, Unsent
<1> QED
  BY <1>2, <1>3, InitType DEF IInv, TimeoutIsEarned

(* No step puts a running deadline where its charges do not.               *)
LEMMA StepAccounted ==
  ASSUME IInv, [Next]_vars, ~Stuck', NEW x \in Requests, x \in Entered'
  PROVE  Accounted(x)'
<1>1. /\ TypeOK /\ Counted /\ Unsent
      /\ ~Stuck
      /\ \A r \in Entered : Accounted(r)
  BY StuckStays DEF IInv
<1>2. TypeOK' /\ Counted'
  BY <1>1, StepType, StepCounted
<1>3. waiting <=> Asked
  BY <1>1, WaitingIsAsked DEF TypeOK
<1>4. Budget[x] \in Nat \ {0} /\ Longest(x) \in Nat /\ Budget[x] <= Longest(x)
  BY Budgets
<1>5. Longest(x)' = Longest(x)
  BY DEF Longest
<1> HIDE DEF Longest
<1> USE DEF Times, NoTime
<1>a. ASSUME x \in Entered,
             UNCHANGED <<now, when[x], remaining[x], capAt[x], openQuestions, pausedAt,
                         ran[x], idle[x], early[x]>>
      PROVE  Accounted(x)'
  BY <1>1, <1>5, <1>a DEF Accounted, Base, Left, waiting
<1>6. ASSUME NEW r \in Requests, Send(r)
      PROVE  Accounted(x)'
  <2>1. CASE r # x
    BY <2>1, <1>6, <1>a, <1>1 DEF Send, TypeOK, Entered
  <2>2. CASE r = x
    <3>1. ran'[x] = 0 /\ idle'[x] = 0 /\ (waiting' <=> waiting) /\ Base' = Base
      BY <2>2, <1>6, <1>1 DEF Send, Unsent, waiting, Base
    <3>2. CASE waiting
      BY <3>1, <3>2, <2>2, <1>6, <1>1, <1>2, <1>4, <1>5
         DEF Send, StartsSuspended, Accounted, Left, Base, TypeOK, Counted
    <3>3. CASE ~waiting
      BY <3>1, <3>3, <2>2, <1>6, <1>1, <1>2, <1>4, <1>5
         DEF Send, StartsSuspended, Accounted, Left, Base, TypeOK
    <3> QED
      BY <3>2, <3>3
  <2> QED
    BY <2>1, <2>2
<1>7. ASSUME NEW r \in Requests, Leave(r) \/ Expire(r)
      PROVE  Accounted(x)'
  BY <1>7, <1>a, <1>1 DEF Leave, Expire, TypeOK, Entered, timers, history
<1>8. ASSUME NEW r \in Requests, NEW p \in 1..MaxProgress, Receive(r, p)
      PROVE  Accounted(x)'
  <2>0. x \in Entered /\ x \notin Expiring
    BY <1>8 DEF Receive, Entered, Expiring
  <2>1. CASE r # x \/ ~(p > last[r])
    BY <2>0, <2>1, <1>8, <1>a, <1>1 DEF Receive, Renew, Moved, TypeOK
  <2>2. CASE r = x /\ p > last[r]
    <3>1. idle'[x] = 0 /\ UNCHANGED <<now, capAt, openQuestions, pausedAt, ran, early>>
      BY <2>0, <2>2, <1>8, <1>1 DEF Receive, TypeOK
    <3>2. (waiting' <=> waiting) /\ Base' = Base
      BY <3>1 DEF waiting, Base
    <3>3. CASE waiting
      <4>1. Suspended(x)
        BY <3>3, <2>0, <1>1 DEF Suspended, Accounted, Counted
      <4>2. when' = when
            /\ remaining' = [remaining EXCEPT ![x] =
                     IF RenewedRemaining(x) <= @ THEN @ ELSE RenewedRemaining(x)]
        BY <4>1, <2>0, <2>2, <1>8 DEF Receive, Moved, Renew
      <4>3. remaining'[x] = IF RenewedRemaining(x) <= remaining[x] THEN remaining[x]
                                                                ELSE RenewedRemaining(x)
        BY <4>2, <1>1 DEF TypeOK
      <4>4. when'[x] = NoTime
        BY <4>2, <3>3, <2>0, <1>1 DEF Accounted
      <4>5. Left(x)' = remaining'[x] /\ Left(x) = remaining[x] /\ Base = pausedAt
        BY <3>2, <3>3 DEF Left, Base
      <4>6. /\ remaining[x] \in Nat /\ idle[x] \in Nat
            /\ remaining[x] <= capAt[x] - pausedAt
            /\ remaining[x] + idle[x] <= Budget[x]
            /\ capAt[x] = pausedAt + Longest(x) + early[x] - ran[x]
            /\ capAt[x] \in Nat /\ pausedAt \in Nat
        BY <4>5, <3>3, <2>0, <1>1 DEF Accounted, TypeOK, Counted
      <4>7. RenewedRemaining(x) = IF Budget[x] <= capAt[x] - pausedAt THEN Budget[x]
                                                                  ELSE capAt[x] - pausedAt
        BY <4>6, <1>4 DEF RenewedRemaining, Least, AtLeast0
      <4>8. /\ remaining'[x] \in Nat
            /\ remaining'[x] <= capAt[x] - pausedAt
            /\ remaining'[x] <= Budget[x]
            /\ remaining'[x] >= Budget[x] \/ remaining'[x] = capAt[x] - pausedAt
        BY <4>3, <4>6, <4>7, <1>4
      <4> QED
        BY <4>4, <4>5, <4>6, <4>8, <3>1, <3>2, <3>3, <1>4, <1>5 DEF Accounted
    <3>4. CASE ~waiting
      <4>1. ~Suspended(x) /\ when[x] \in Nat
        BY <3>4, <2>0, <1>1 DEF Suspended, Accounted
      <4>2. remaining' = remaining
            /\ when' = [when EXCEPT ![x] = IF @ # NoTime /\ Target(x) <= @ THEN @ ELSE Target(x)]
        BY <4>1, <2>0, <2>2, <1>8 DEF Receive, Moved, Renew
      <4>3. when'[x] = IF Target(x) <= when[x] THEN when[x] ELSE Target(x)
        BY <4>1, <4>2, <1>1 DEF TypeOK
      <4>5. Left(x)' = when'[x] - now' /\ Left(x) = when[x] - now /\ Base = now
        BY <3>2, <3>4 DEF Left, Base
      <4> QED
        BY <4>2, <4>3, <4>5, <3>1, <3>2, <3>4, <2>0, <1>1, <1>2, <1>4, <1>5
           DEF Accounted, Target, Least, TypeOK
    <3> QED
      BY <3>3, <3>4
  <2> QED
    BY <2>1, <2>2
<1>9. ASSUME NEW q \in Questions, AskFirst(q)
      PROVE  Accounted(x)'
  <2>1. Expiring = {} /\ x \in Entered
    BY <1>9, <1>1 DEF AskFirst, Stuck, TypeOK, Entered
  <2>2. ~waiting /\ waiting' /\ pausedAt' = now /\ Base = now /\ Base' = now
    BY <1>9 DEF AskFirst, waiting, Base
  <2>3. when[x] \in Nat /\ x \in Reached
    BY <2>1, <2>2, <1>1 DEF Accounted, Reached, Listed
  <2>4. when'[x] = NoTime /\ remaining'[x] = AtLeast0(when[x] - now)
    BY <2>3, <1>9 DEF AskFirst
  <2> QED
    BY <2>1, <2>2, <2>3, <2>4, <1>9, <1>1, <1>2, <1>4, <1>5
       DEF AskFirst, Accounted, Left, AtLeast0, TypeOK, history
<1>10. ASSUME NEW q \in Questions, AskMore(q) \/ CloseOne(q)
       PROVE  Accounted(x)'
  <2>1. waiting /\ waiting' /\ Base' = Base /\ x \in Entered
    BY <1>10, <1>1 DEF AskMore, CloseOne, waiting, Base, Entered, TypeOK
  <2> QED
    BY <2>1, <1>10, <1>1, <1>5 DEF AskMore, CloseOne, Accounted, Left, timers, history
<1>11. ASSUME NEW q \in Questions, CloseLast(q)
       PROVE  Accounted(x)'
  <2>1. waiting /\ ~waiting' /\ Base = pausedAt /\ Base' = now /\ x \in Entered
    BY <1>11 DEF CloseLast, waiting, Base, Entered
  <2>2. remaining[x] \in Nat
    BY <2>1, <1>1 DEF Accounted
  <2>3. /\ when'[x] = now + remaining[x]
        /\ remaining'[x] = NoTime
        /\ capAt'[x] = capAt[x] + (now - pausedAt)
    BY <2>1, <2>2, <1>11 DEF CloseLast, Listed, Resumed
  <2> QED
    BY <2>1, <2>2, <2>3, <1>11, <1>1, <1>2, <1>4, <1>5
       DEF CloseLast, Accounted, Left, TypeOK, Counted, history
<1>12. CASE Tick
  <2>1. x \in Entered /\ (waiting' <=> waiting) /\ ~Due(x)
    BY <1>12 DEF Tick, Entered, waiting
  <2>2. CASE waiting
    BY <2>1, <2>2, <1>12, <1>1, <1>3, <1>5 DEF Tick, Accounted, Base, Left, timers
  <2>3. CASE ~waiting
    <3>1. now' = now + 1 /\ ran'[x] = ran[x] + 1 /\ idle'[x] = idle[x] + 1
      BY <2>1, <2>3, <1>12, <1>3 DEF Tick
    <3>2. when[x] \in Nat /\ when[x] > now
      BY <2>1, <2>3, <1>1 DEF Due, Accounted, TypeOK
    <3>3. UNCHANGED <<when, remaining, capAt, early>>
          /\ Base = now /\ Base' = now' /\ Left(x) = when[x] - now /\ Left(x)' = when[x] - now'
      BY <2>1, <2>3, <1>12 DEF Tick, Base, Left, timers
    <3>4. /\ now \in Nat /\ ran[x] \in Nat /\ idle[x] \in Nat /\ early[x] \in Nat
          /\ capAt[x] \in Nat
      BY <1>1 DEF TypeOK
    <3>5. Accounted(x)
      BY <2>1, <1>1
    <3> QED
      BY <3>1, <3>2, <3>3, <3>4, <3>5, <2>1, <2>3, <1>4, <1>5 DEF Accounted
  <2> QED
    BY <2>2, <2>3
<1>13. CASE UNCHANGED vars
  BY <1>13, <1>a DEF vars, timers, history, Entered
<1> QED
  BY <1>6, <1>7, <1>8, <1>9, <1>10, <1>11, <1>12, <1>13 DEF Next

(* A request that has timed out was charged for it.                        *)
LEMMA StepEarned == IInv /\ [Next]_vars => TimeoutIsEarned'
<1> SUFFICES ASSUME IInv, [Next]_vars, ~Stuck', NEW x \in Requests, x \in Expiring'
             PROVE  (idle[x] >= Budget[x] \/ ran[x] >= Longest(x))'
  BY DEF TimeoutIsEarned
<1>1. TypeOK /\ Counted /\ ~Stuck /\ \A r \in Entered : Accounted(r)
  BY StuckStays DEF IInv
<1>2. x \in Expiring => idle[x] >= Budget[x] \/ ran[x] >= Longest(x)
  BY <1>1 DEF IInv, TimeoutIsEarned
<1>a. ASSUME x \in Expiring, UNCHANGED <<ran[x], idle[x]>>
      PROVE  (idle[x] >= Budget[x] \/ ran[x] >= Longest(x))'
  BY <1>2, <1>a DEF Longest
<1>3. ASSUME NEW r \in Requests, Send(r) \/ Leave(r)
      PROVE  x \in Expiring /\ UNCHANGED <<ran[x], idle[x]>>
  BY <1>3, <1>1 DEF Send, Leave, Expiring, TypeOK, history
<1>4. ASSUME NEW r \in Requests, Expire(r), x \notin Expiring
      PROVE  (idle[x] >= Budget[x] \/ ran[x] >= Longest(x))'
  <2>1. r = x
    BY <1>4, <1>1 DEF Expire, Expiring, TypeOK
  <2>2. x \in Entered /\ when[x] # NoTime /\ when[x] <= now
    BY <2>1, <1>4 DEF Expire, Due
  <2>3. ~waiting /\ when[x] \in Nat /\ Left(x) = when[x] - now /\ Base = now
    BY <2>2, <1>1 DEF Accounted, Left, Base
  <2>4. Left(x) = 0 /\ now \in Nat
    BY <2>2, <2>3, <1>1 DEF Accounted, TypeOK
  <2>5. /\ idle[x] \in Nat /\ ran[x] \in Nat /\ early[x] \in Nat /\ capAt[x] \in Nat
        /\ Budget[x] \in Nat /\ Longest(x) \in Nat
    BY Budgets, <1>1 DEF TypeOK
  <2>6. idle[x] >= Budget[x] \/ ran[x] >= Longest(x)
    BY <2>2, <2>3, <2>4, <2>5, <1>1 DEF Accounted
  <2> QED
    BY <2>6, <1>4 DEF Expire, history, Longest
<1>5. ASSUME NEW r \in Requests, Expire(r), x \in Expiring
      PROVE  UNCHANGED <<ran[x], idle[x]>>
  BY <1>5 DEF Expire, history
<1>6. ASSUME NEW r \in Requests, NEW p \in 1..MaxProgress, Receive(r, p)
      PROVE  x \in Expiring /\ UNCHANGED <<ran[x], idle[x]>>
  BY <1>6, <1>1 DEF Receive, Expiring, Entered, TypeOK
<1>7. ASSUME NEW q \in Questions, AskFirst(q) \/ AskMore(q) \/ CloseOne(q) \/ CloseLast(q)
      PROVE  x \in Expiring /\ UNCHANGED <<ran[x], idle[x]>>
  BY <1>7 DEF AskFirst, AskMore, CloseOne, CloseLast, Expiring, history
<1>8. CASE Tick
  <2>1. x \in Expiring /\ UNCHANGED <<ran[x], idle[x]>>
    BY <1>8, <1>1 DEF Tick, Expiring, Entered, TypeOK
  <2> QED
    BY <2>1, <1>a
<1>9. CASE UNCHANGED vars
  <2>1. x \in Expiring /\ UNCHANGED <<ran[x], idle[x]>>
    BY <1>9 DEF vars, Expiring, history
  <2> QED
    BY <2>1, <1>a
<1> QED
  BY <1>a, <1>3, <1>4, <1>5, <1>6, <1>7, <1>8, <1>9 DEF Next

-----------------------------------------------------------------------------
(* The accounts of the clock, on which the theorems below rest.            *)
THEOREM Accounts == Spec => []IInv
<1>1. IInv /\ [Next]_vars => IInv'
  <2> SUFFICES ASSUME IInv, [Next]_vars
               PROVE  IInv'
    OBVIOUS
  <2>1. TypeOK' /\ Counted' /\ Unsent'
    BY StepType, StepCounted, StepUnsent DEF IInv
  <2>2. TimeoutIsEarned'
    BY StepEarned
  <2>3. ~Stuck' => \A r \in Entered' : Accounted(r)'
    BY StepAccounted DEF Entered
  <2> QED
    BY <2>1, <2>2, <2>3 DEF IInv
<1> QED
  BY <1>1, InitInv, PTL DEF Spec

(* The state of the clock has its type.                                    *)
THEOREM TypeCorrect == Spec => []TypeOK
BY Accounts, PTL DEF IInv

(* A timeout was earned, whatever questions came between: mcp/operator_wait.py *)
(* never charges a request for the operator's time.                        *)
THEOREM EarnedTheorem == Spec => []TimeoutIsEarned
BY Accounts, PTL DEF IInv

(* A silent request does not outlive its budget.                           *)
THEOREM SilenceTheorem == Spec => []SilenceEnds
<1>1. IInv => SilenceEnds
  <2> SUFFICES ASSUME IInv, ~Stuck, NEW r \in Entered
               PROVE  idle[r] <= Budget[r]
    BY DEF SilenceEnds
  <2>1. r \in Requests /\ Accounted(r) /\ idle[r] \in Nat /\ Budget[r] \in Nat
    BY Budgets DEF IInv, Entered, TypeOK
  <2>2. Left(r) \in Nat
    BY <2>1 DEF IInv, Accounted, Left, TypeOK
  <2> QED
    BY <2>1, <2>2 DEF Accounted
<1> QED
  BY <1>1, Accounts, PTL

(* Progress holds a request past its cap by no more than the part of a     *)
(* wait that lay before it (operator_turn credits the whole wait).         *)
THEOREM OverrunTheorem == Spec => []OverrunIsCredit
<1>1. IInv => OverrunIsCredit
  <2> SUFFICES ASSUME IInv, ~Stuck, NEW r \in Entered
               PROVE  ran[r] <= Longest(r) + early[r]
    BY DEF OverrunIsCredit
  <2>1. /\ r \in Requests /\ Accounted(r) /\ ran[r] \in Nat /\ early[r] \in Nat
        /\ Longest(r) \in Nat /\ capAt[r] \in Nat
    BY Budgets DEF IInv, Entered, TypeOK
  <2>2. Left(r) \in Nat /\ Base \in Nat
    BY <2>1 DEF IInv, Accounted, Left, Base, TypeOK, Counted
  <2> QED
    BY <2>1, <2>2 DEF Accounted
<1> QED
  BY <1>1, Accounts, PTL

(* Progress does not hold a request past its cap that was sent while       *)
(* nobody was asked (renew, operator_turn).                                *)
THEOREM CapTheorem == Spec => []CapHolds
<1>1. IInv /\ OverrunIsCredit => CapHolds
  <2> SUFFICES ASSUME IInv, OverrunIsCredit, ~Stuck, NEW r \in Entered, early[r] = 0
               PROVE  ran[r] <= Longest(r)
    BY DEF CapHolds
  <2>1. /\ ran[r] \in Nat /\ Longest(r) \in Nat
        /\ ran[r] <= Longest(r) + early[r]
    BY Budgets DEF IInv, Entered, TypeOK, OverrunIsCredit
  <2> QED
    BY <2>1
<1> QED
  BY <1>1, Accounts, OverrunTheorem, PTL

(* The deadlines of a server are suspended and resumed together.           *)
THEOREM TogetherTheorem == Spec => []SuspendedTogether
<1>1. IInv => SuspendedTogether
  <2> SUFFICES ASSUME IInv, ~Stuck
               PROVE  /\ waiting <=> Asked
                      /\ \A r \in Entered : /\ when[r] = NoTime <=> Asked
                                            /\ remaining[r] # NoTime <=> Asked
    BY DEF SuspendedTogether
  <2>1. waiting <=> Asked
    BY WaitingIsAsked DEF IInv, TypeOK
  <2> QED
    BY <2>1 DEF IInv, Accounted, NoTime
<1> QED
  BY <1>1, Accounts, PTL
=============================================================================
