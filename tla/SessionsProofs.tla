--------------------------- MODULE SessionsProofs ---------------------------
(***************************************************************************)
(* One auto-save worker, which writes the session in use; turns that stay  *)
(* on disk when they succeed and leave memory when they fail: for any      *)
(* operations, sessions, days and numbers of writes.                       *)
(*                                                                         *)
(* Two arguments meet.  The worker's: while no two stops overlap, an       *)
(* operation that relies on there being no worker is the only one that     *)
(* does, the slot is empty, and a worker that is still alive is the one    *)
(* that it joins.  The turn's: a turn that nothing overlapped has the      *)
(* session in use to itself, so that its messages are the tail of that     *)
(* session's list and of no other, and once it is over only a deletion or  *)
(* a second object of the session can keep them from the disk.             *)
(***************************************************************************)
EXTENDS Sessions, SequenceTheorems, FiniteSetTheorems, TLAPS

-----------------------------------------------------------------------------
(* Where each kind of operation may be.                                    *)
PlaceFits(o) ==
  \/ Kind[o] = "turn"   /\ pc[o] \in {"new", "running", "answered", "persist", "done", "failed",
                                      "unsaved"}
  \/ Kind[o] = "save"   /\ pc[o] \in {"new", "persist", "done", "failed"}
  \/ Kind[o] = "start"  /\ pc[o] \in {"new", "flush", "create", "persist", "stop", "join", "spawn",
                                      "switch", "done", "failed"}
  \/ Kind[o] = "load"   /\ pc[o] \in {"new", "flush", "read", "adopt", "stop", "join", "spawn",
                                      "switch", "done", "failed"}
  \/ Kind[o] = "delete" /\ pc[o] \in {"new", "listed", "stop", "join", "forget", "erase", "done"}
  \/ Kind[o] = "quit"   /\ pc[o] \in {"new", "persist", "cleanup", "leave", "stop", "join", "close",
                                      "flush", "forget", "done", "failed"}

\* A start or a load has made its object, or has not, or ended without it.
Makes(o)   == Kind[o] \in {"start", "load"}
Unmade(o)  == pc[o] \in {"new", "flush", "create", "read"}
HasMade(o) == pc[o] \in {"adopt", "persist", "stop", "join", "spawn", "switch"}

\* The objects that anything refers to exist.
OpRefers(o) ==
  /\ PlaceFits(o)
  /\ o \in born => Makes(o) /\ ~Unmade(o)
  /\ Makes(o) /\ HasMade(o) => o \in born
  /\ hold[o] \in born \cup {None}
  /\ home[o] \in born \cup {None}
  /\ pc[o] \in {"flush", "persist"} => hold[o] # None
  /\ pc[o] = "join" => waitFor[o] # None

WorkerRefers(w) ==
  /\ captured[w] \in born \cup {None}
  /\ worker[w] = "saving" => captured[w] # None

Referred == (\A o \in Ops : OpRefers(o)) /\ (\A w \in Workers : WorkerRefers(w))

-----------------------------------------------------------------------------
(* The worker.                                                             *)

Joined(w) == \E o \in Ops : pc[o] = "join" /\ waitFor[o] = w

OneStops ==
  /\ \A o, p \in Ops : Stopped(o) /\ Stopped(p) => o = p
  /\ slot # None => \A o \in Ops : ~Stopped(o)
  /\ \A w \in Workers : Alive(w) => w = slot \/ Joined(w)

Leaving(o) == Kind[o] \in {"start", "load"} /\ pc[o] \in {"persist", "stop", "join", "failed"}
Follows ==
  \A w \in Workers : worker[w] = "saving" /\ captured[w] # mgr => \E o \in Ops : Leaving(o)

WorkerInv == ~contended => OneStops /\ Follows

-----------------------------------------------------------------------------
(* The turns.                                                              *)

Has(s, t) == \E k \in 1..Len(s) : s[k] = Own(t)

\* The turn's own messages are the last ones.
TailOf(s, t) ==
  \E m \in 0..Len(s) : /\ \A k \in 1..m : s[k] # Own(t)
                       /\ \A k \in (m + 1)..Len(s) : s[k] = Own(t)

Undisturbed(t) == t \in Turns /\ t \notin disturbed

\* Nothing that disturbs it is under way.
Alone ==
  \A t \in Ops : Undisturbed(t) /\ Busy(t) => \A p \in Ops \ {t} : Busy(p) => ~Disturbs(p)

InHand(t) ==
  /\ orch = home[t] /\ home[t] # None
  /\ TailOf(messages[home[t]], t)
  /\ \A s \in Objects \ {home[t]} : ~Has(messages[s], t)

Nowhere(t) == \A s \in Objects : ~Has(messages[s], t)

OnDisk(t) == \E k \in 1..Len(rows[Sid(home[t])].messages) :
               rows[Sid(home[t])].messages[k].turn = t

TurnKept(t) ==
  /\ pc[t] \in {"new", "failed"} => Nowhere(t)
  /\ pc[t] \in {"running", "answered"} => InHand(t)
  /\ pc[t] \in {"persist", "done"} => home[t] # None /\ Has(messages[home[t]], t)
  /\ pc[t] = "persist" => hold[t] = home[t]
  /\ pc[t] = "done" /\ ~Aliased(Sid(home[t])) /\ Sid(home[t]) \notin erased => OnDisk(t)

TurnInv == Alone /\ \A t \in Ops : Undisturbed(t) => TurnKept(t)

IInv == TypeOK /\ Referred /\ WorkerInv /\ TurnInv

-----------------------------------------------------------------------------
(* Lists of messages.                                                      *)

LEMMA AppendHas ==
  ASSUME NEW s \in Seq(Message), NEW t \in Ops, NEW u \in Ops
  PROVE  /\ Append(s, Own(t)) \in Seq(Message)
         /\ Has(Append(s, Own(t)), t)
         /\ u # t => (Has(Append(s, Own(t)), u) <=> Has(s, u))
         /\ Has(s, u) => Has(Append(s, Own(t)), u)
         /\ ~Has(s, t) \/ TailOf(s, t) => TailOf(Append(s, Own(t)), t)
<1>1. Own(t) \in Message /\ (u # t => Own(u) # Own(t))
  BY DEF Own, Message
<1>2. /\ Append(s, Own(t)) \in Seq(Message)
      /\ Len(Append(s, Own(t))) = Len(s) + 1 /\ Len(s) \in Nat
      /\ \A k \in 1..Len(s) : Append(s, Own(t))[k] = s[k]
      /\ Append(s, Own(t))[Len(s) + 1] = Own(t)
  BY <1>1, AppendProperties
<1> DEFINE a == Append(s, Own(t))
<1> HIDE DEF a
<1>3. Has(a, t)
  BY <1>2 DEF Has, a
<1>4. Has(s, u) => Has(a, u)
  BY <1>2 DEF Has, a
<1>5. ASSUME u # t, Has(a, u)
      PROVE  Has(s, u)
  <2>1. PICK k \in 1..Len(a) : a[k] = Own(u)
    BY <1>5 DEF Has
  <2>2. k \in 1..Len(s)
    BY <2>1, <1>1, <1>2, <1>5 DEF a
  <2> QED
    BY <2>1, <2>2, <1>2 DEF Has, a
<1>6. ASSUME ~Has(s, t)
      PROVE  TailOf(a, t)
  <2>1. Len(s) \in 0..Len(a)
    BY <1>2 DEF a
  <2>2. \A k \in 1..Len(s) : a[k] # Own(t)
    BY <1>6, <1>2 DEF a, Has
  <2>3. \A k \in (Len(s) + 1)..Len(a) : a[k] = Own(t)
    BY <1>2 DEF a
  <2> QED
    BY <2>1, <2>2, <2>3 DEF TailOf
<1>7. ASSUME TailOf(s, t)
      PROVE  TailOf(a, t)
  <2>1. PICK m \in 0..Len(s) : /\ \A k \in 1..m : s[k] # Own(t)
                               /\ \A k \in (m + 1)..Len(s) : s[k] = Own(t)
    BY <1>7 DEF TailOf
  <2>2. m \in 0..Len(a)
    BY <1>2 DEF a
  <2>3. \A k \in 1..m : a[k] # Own(t)
    BY <2>1, <1>2 DEF a
  <2>4. \A k \in (m + 1)..Len(a) : a[k] = Own(t)
    BY <2>1, <1>2 DEF a
  <2> QED
    BY <2>2, <2>3, <2>4 DEF TailOf
<1> QED
  BY <1>2, <1>3, <1>4, <1>5, <1>6, <1>7 DEF a

(* A rollback cuts off exactly the turn's own messages at the end: the set *)
(* of places counted reaches up to the end, so its size says where it      *)
(* begins.                                                                 *)
LEMMA RollbackCuts ==
  ASSUME NEW s \in Seq(Message), NEW t \in Ops
  PROVE  \E n \in 0..Len(s) : /\ Rollback(s, t) = SubSeq(s, 1, n)
                              /\ \A k \in (n + 1)..Len(s) : s[k] = Own(t)
                              /\ n > 0 => s[n] # Own(t)
<1> DEFINE Mine == {k \in 1..Len(s) : \A j \in k..Len(s) : s[j] = Own(t)}
           c == Cardinality(Mine)
           n == Len(s) - c
<1> HIDE DEF c
<1>0. Len(s) \in Nat
  OBVIOUS
<1>1. IsFiniteSet(1..Len(s)) /\ Cardinality(1..Len(s)) = Len(s)
  BY <1>0, FS_Interval, SMTT(40)
<1>2. /\ IsFiniteSet(Mine) /\ c <= Len(s)
      /\ \A T \in SUBSET Mine : Cardinality(T) <= c
  <2>1. Mine \subseteq 1..Len(s)
    OBVIOUS
  <2> HIDE DEF Mine
  <2> QED
    BY <2>1, <1>1, FS_Subset DEF c
<1>3. c \in Nat
  BY <1>2, FS_CardinalityType DEF c
<1>4. ASSUME NEW k \in Mine
      PROVE  k >= n + 1
  <2>1. k..Len(s) \subseteq Mine
    BY <1>0
  <2>2. Cardinality(k..Len(s)) = Len(s) - k + 1
    BY <1>0, FS_Interval
  <2> QED
    BY <2>1, <2>2, <1>2, <1>3, <1>0
<1>5. Mine = (n + 1)..Len(s)
  <2>1. Mine \subseteq (n + 1)..Len(s)
    BY <1>4, <1>0, <1>3
  <2>2. IsFiniteSet((n + 1)..Len(s)) /\ Cardinality((n + 1)..Len(s)) = c
    BY <1>0, <1>2, <1>3, FS_Interval
  <2> HIDE DEF Mine
  <2> QED
    BY <2>1, <2>2, FS_Subset DEF c
<1>6. Rollback(s, t) = SubSeq(s, 1, n)
  BY DEF Rollback, c
<1>7. \A k \in (n + 1)..Len(s) : s[k] = Own(t)
  BY <1>5, <1>0, <1>3
<1>8. ASSUME n > 0
      PROVE  s[n] # Own(t)
  <2>1. n \in 1..Len(s) /\ n \notin (n + 1)..Len(s)
    BY <1>8, <1>0, <1>2, <1>3
  <2>2. ~(\A j \in n..Len(s) : s[j] = Own(t))
    BY <2>1, <1>5
  <2> QED
    BY <2>1, <2>2, <1>7, <1>0, <1>3
<1> QED
  BY <1>0, <1>2, <1>3, <1>6, <1>7, <1>8

LEMMA RollbackHas ==
  ASSUME NEW s \in Seq(Message), NEW t \in Ops, NEW u \in Ops
  PROVE  /\ Rollback(s, t) \in Seq(Message)
         /\ Has(Rollback(s, t), u) => Has(s, u)
         /\ u # t => (Has(s, u) => Has(Rollback(s, t), u))
         /\ TailOf(s, t) => ~Has(Rollback(s, t), t)
<1>1. PICK n \in 0..Len(s) : /\ Rollback(s, t) = SubSeq(s, 1, n)
                             /\ \A k \in (n + 1)..Len(s) : s[k] = Own(t)
                             /\ n > 0 => s[n] # Own(t)
  BY RollbackCuts
<1> DEFINE r == Rollback(s, t)
<1> HIDE DEF r
<1>2. /\ r \in Seq(Message) /\ Len(r) = n
      /\ \A k \in 1..n : r[k] = s[k]
  <2>1. n = 0 => SubSeq(s, 1, n) = << >>
    BY SubSeqProperties
  <2>2. 1..n \subseteq 1..Len(s) /\ Len(s) \in Nat
    OBVIOUS
  <2> QED
    BY <1>1, <2>1, <2>2, SubSeqProperties DEF r
<1>3. Len(s) \in Nat /\ (u # t => Own(u) # Own(t))
  BY DEF Own
<1>4. Has(r, u) => Has(s, u)
  BY <1>2, <1>3 DEF Has
<1>5. ASSUME u # t, Has(s, u)
      PROVE  Has(r, u)
  <2>1. PICK k \in 1..Len(s) : s[k] = Own(u)
    BY <1>5 DEF Has
  <2>2. k \in 1..n
    BY <2>1, <1>1, <1>3, <1>5
  <2> QED
    BY <2>1, <2>2, <1>2 DEF Has
<1>6. ASSUME TailOf(s, t), Has(r, t)
      PROVE  FALSE
  <2>1. PICK m \in 0..Len(s) : /\ \A k \in 1..m : s[k] # Own(t)
                               /\ \A k \in (m + 1)..Len(s) : s[k] = Own(t)
    BY <1>6 DEF TailOf
  <2>2. n <= m
    BY <2>1, <1>1, <1>3
  <2>3. PICK k \in 1..n : r[k] = Own(t)
    BY <1>6, <1>2 DEF Has
  <2> QED
    BY <2>1, <2>2, <2>3, <1>2, <1>3
<1> QED
  BY <1>2, <1>4, <1>5, <1>6 DEF r

\* What load() reads back are copies, and nobody's own.
LEMMA CopiesHas ==
  ASSUME NEW s \in Seq(Message), NEW t \in Ops
  PROVE  LET copies == [i \in 1..Len(s) |-> [s[i] EXCEPT !.copy = TRUE]]
         IN  copies \in Seq(Message) /\ ~Has(copies, t)
<1> DEFINE copies == [i \in 1..Len(s) |-> [s[i] EXCEPT !.copy = TRUE]]
<1>1. ASSUME NEW i \in 1..Len(s)
      PROVE  copies[i] \in Message /\ copies[i].copy = TRUE
  <2>1. s[i] \in Message
    BY ElementOfSeq
  <2>2. copies[i] = [s[i] EXCEPT !.copy = TRUE]
    OBVIOUS
  <2> QED
    BY <2>1, <2>2 DEF Message
<1>2. Len(s) \in Nat
  OBVIOUS
<1>3. copies \in [1..Len(s) -> Message]
  BY <1>1
<1>4. copies \in Seq(Message) /\ Len(copies) = Len(s)
  BY <1>2, <1>3, SeqDef
<1>5. \A i \in 1..Len(copies) : copies[i] # Own(t)
  BY <1>1, <1>4 DEF Own
<1> QED
  BY <1>4, <1>5 DEF Has

-----------------------------------------------------------------------------
(* Types, and what anything refers to.                                     *)

LEMMA SidType == \A o \in Objects : Sid(o) \in Ids
  BY TargetAssumption DEF Sid, Objects

LEMMA AfterWritePlaces ==
  ASSUME NEW o \in Ops, PlaceFits(o), pc[o] \in {"flush", "persist"}
  PROVE  /\ Kind[o] \in {"turn", "save"} => AfterWrite(o) = "done"
         /\ Kind[o] = "start" /\ pc[o] = "flush" => AfterWrite(o) = "create"
         /\ Kind[o] = "start" /\ pc[o] = "persist" => AfterWrite(o) = "stop"
         /\ Kind[o] = "load" => AfterWrite(o) = "read" /\ pc[o] = "flush"
         /\ Kind[o] = "quit" /\ pc[o] = "persist" => AfterWrite(o) = "cleanup"
         /\ Kind[o] = "quit" /\ pc[o] = "flush" => AfterWrite(o) = "forget"
         /\ Kind[o] # "delete"
  BY DEF AfterWrite, PlaceFits

LEMMA AfterStopPlaces ==
  ASSUME NEW o \in Ops, PlaceFits(o), pc[o] \in {"stop", "join"}
  PROVE  /\ Kind[o] = "delete" => AfterStop(o) = "forget"
         /\ Kind[o] = "quit" => AfterStop(o) = "close"
         /\ Kind[o] \in {"start", "load"} => AfterStop(o) = "spawn"
         /\ Kind[o] \in {"start", "load", "delete", "quit"}
  BY DEF AfterStop, PlaceFits

LEMMA OpType ==
  ASSUME TypeOK, Referred, NEW o \in Ops, OpStep(o)
  PROVE  TypeOK'
<1>p. PlaceFits(o)
  BY DEF Referred, OpRefers
<1>k. Overlaps(o) \subseteq Turns
  BY DEF Overlaps
<1>i. \A s \in Objects : Sid(s) \in Ids
  BY SidType
<1>m. \A t \in Ops, s \in Objects : Append(messages[s], Own(t)) \in Seq(Message)
  BY AppendHas DEF TypeOK
<1> USE <1>p, <1>k, NoneAssumption DEF TypeOK, Objects, Workers, OpPlaces, WorkerPlaces,
        Goto, Begins, Say,
        opVars, memory, managerVars, workerVars, history
<1>1. CASE TurnBegins(o)
  BY <1>1, <1>m DEF TurnBegins
<1>2. CASE TurnRefused(o)
  BY <1>2 DEF TurnRefused
<1>3. CASE TurnAnswers(o)
  BY <1>3, <1>m DEF TurnAnswers
<1>4. CASE TurnSucceeds(o)
  BY <1>4, <1>m DEF TurnSucceeds
<1>5. CASE TurnFails(o)
  <2>1. \A s \in Objects : Rollback(messages[s], o) \in Seq(Message)
    BY RollbackHas
  <2> QED
    BY <1>5, <2>1 DEF TurnFails
<1>6. CASE SaveBegins(o)
  BY <1>6 DEF SaveBegins
<1>7. CASE StartBegins(o)
  BY <1>7 DEF StartBegins, SwitchBegins
<1>8. CASE LoadBegins(o)
  BY <1>8 DEF LoadBegins, SwitchBegins
<1>9. CASE QuitBegins(o)
  BY <1>9 DEF QuitBegins
<1>10. CASE DialogOpens(o)
  BY <1>10 DEF DialogOpens
<1>11. CASE DeleteBegins(o)
  BY <1>11 DEF DeleteBegins
<1>12. CASE Write(o)
  <2>1. hold[o] \in Objects
    BY <1>12 DEF Write, Referred, OpRefers
  <2>2. rows' \in [Ids -> Row \cup {Absent}] /\ used' \in [Ids -> 0..Days]
    BY <1>12, <2>1, <1>i DEF Write, Persist, Row
  <2>3. AfterWrite(o) \in OpPlaces
    BY <1>12, AfterWritePlaces DEF Write, PlaceFits
  <2> QED
    BY <1>12, <2>2, <2>3 DEF Write
<1>13. CASE WriteFails(o)
  BY <1>13 DEF WriteFails
<1>14. CASE Create(o)
  BY <1>14, SMTT(40) DEF Create
<1>15. CASE ReadRow(o)
  <2>1. rows[Target[o]] \in Row
    BY <1>15, TargetAssumption DEF ReadRow
  <2>2. rows[Target[o]].messages \in Seq(Message) /\ rows[Target[o]].stamp \in Nat
    BY <2>1 DEF Row
  <2>3. messages' \in [Objects -> Seq(Message)]
    BY <1>15, <2>2, CopiesHas DEF ReadRow
  <2> QED
    BY <1>15, <2>2, <2>3 DEF ReadRow
<1>16. CASE ReadNothing(o)
  BY <1>16 DEF ReadNothing
<1>17. CASE Adopt(o)
  BY <1>17 DEF Adopt, Referred, OpRefers, Makes, HasMade, PlaceFits
<1>18. CASE Switch(o)
  BY <1>18 DEF Switch, Referred, OpRefers, Makes, HasMade, PlaceFits
<1>19. CASE Forget(o)
  BY <1>19 DEF Forget
<1>20. CASE Erase(o)
  BY <1>20, TargetAssumption, ZenonT(60) DEF Erase
<1>21. CASE Cleanup(o)
  BY <1>21 DEF Cleanup
<1>22. CASE Leave(o)
  BY <1>22 DEF Leave
<1>23. CASE CloseSaves(o)
  BY <1>23 DEF CloseSaves
<1>24. CASE StopWorker(o)
  <2>1. AfterStop(o) \in OpPlaces
    BY <1>24, AfterStopPlaces DEF StopWorker
  <2>0. contended' \in BOOLEAN
    BY <1>24 DEF StopWorker
  <2> DEFINE Same == UNCHANGED <<hold, memory, rows, mgr, orch, captured, saved, today, home,
                                 disturbed, erased, used>>
  <2>4. Same
    BY <1>24 DEF StopWorker
  <2>2. CASE slot = None
    <3>1. pc' = [pc EXCEPT ![o] = AfterStop(o)] /\ UNCHANGED <<waitFor, slot, stop, worker>>
      BY <1>24, <2>2 DEF StopWorker
    <3> QED
      BY <3>1, <2>0, <2>1, <2>4
  <2>3. CASE slot # None
    <3>1. /\ pc' = [pc EXCEPT ![o] = "join"] /\ stop' = TRUE /\ slot' = None
          /\ waitFor' = [waitFor EXCEPT ![o] = slot]
          /\ worker' = [w \in Workers |-> IF worker[w] = "waiting" THEN "dead" ELSE worker[w]]
      BY <1>24, <2>3 DEF StopWorker
    <3> QED
      BY <3>1, <2>0, <2>4
  <2> QED
    BY <2>2, <2>3
<1>25. CASE Join(o)
  BY <1>25, AfterStopPlaces DEF Join
<1>26. CASE Spawn(o)
  BY <1>26 DEF Spawn
<1> QED
  BY <1>1, <1>2, <1>3, <1>4, <1>5, <1>6, <1>7, <1>8, <1>9, <1>10, <1>11, <1>12,
     <1>13, <1>14, <1>15, <1>16, <1>17, <1>18, <1>19, <1>20, <1>21, <1>22, <1>23,
     <1>24, <1>25, <1>26 DEF OpStep

LEMMA StepType ==
  ASSUME TypeOK, Referred, [Next]_vars
  PROVE  TypeOK'
<1> USE NoneAssumption DEF TypeOK, Objects, Workers, opVars, memory, managerVars, workerVars,
        history
<1>1. ASSUME NEW o \in Ops, OpStep(o)
      PROVE  TypeOK'
  BY <1>1, OpType
<1>2. ASSUME NEW w \in Workers, Check(w)
      PROVE  TypeOK'
  BY <1>2 DEF Check, WorkerPlaces
<1>3. ASSUME NEW w \in Workers, Wake(w)
      PROVE  TypeOK'
  BY <1>3, BoundAssumption, SMTT(40) DEF Wake, WorkerPlaces
<1>4. ASSUME NEW w \in Workers, AutoSave(w)
      PROVE  TypeOK'
  <2>1. captured[w] \in Objects
    <3>1. worker[w] = "saving" /\ WorkerRefers(w)
      BY <1>4 DEF AutoSave, Referred
    <3> QED
      BY <3>1 DEF WorkerRefers
  <2>2. rows' \in [Ids -> Row \cup {Absent}] /\ used' \in [Ids -> 0..Days]
    <3>1. Persist(captured[w]) \/ UNCHANGED <<rows, used>>
      BY <1>4 DEF AutoSave
    <3>2. CASE Persist(captured[w])
      BY <2>1, <3>2, SidType DEF Persist, Row
    <3>3. CASE UNCHANGED <<rows, used>>
      BY <3>3
    <3> QED
      BY <3>1, <3>2, <3>3
  <2> QED
    BY <1>4, <2>2 DEF AutoSave, WorkerPlaces
<1>5. CASE Touch
  BY <1>5 DEF Touch
<1>6. CASE DayPasses
  BY <1>6, BoundAssumption DEF DayPasses
<1>7. CASE UNCHANGED vars
  BY <1>7 DEF vars
<1> QED
  BY <1>1, <1>2, <1>3, <1>4, <1>5, <1>6, <1>7 DEF Next

\* An operation forgets no object and puts no worker to writing.
LEMMA OpFrame ==
  ASSUME TypeOK, NEW o \in Ops, OpStep(o)
  PROVE  /\ born \subseteq born' /\ captured' = captured
         /\ \A w \in Workers : worker'[w] = "saving" => worker[w] = "saving"
<1> USE NoneAssumption DEF TypeOK, opVars, memory, managerVars, workerVars, history
<1>1. CASE TurnBegins(o)
  BY <1>1 DEF TurnBegins
<1>2. CASE TurnRefused(o)
  BY <1>2 DEF TurnRefused
<1>3. CASE TurnAnswers(o)
  BY <1>3 DEF TurnAnswers
<1>4. CASE TurnSucceeds(o)
  BY <1>4 DEF TurnSucceeds
<1>5. CASE TurnFails(o)
  BY <1>5 DEF TurnFails
<1>6. CASE SaveBegins(o)
  BY <1>6 DEF SaveBegins
<1>7. CASE StartBegins(o)
  BY <1>7 DEF StartBegins, SwitchBegins
<1>8. CASE LoadBegins(o)
  BY <1>8 DEF LoadBegins, SwitchBegins
<1>9. CASE QuitBegins(o)
  BY <1>9 DEF QuitBegins
<1>10. CASE DialogOpens(o)
  BY <1>10 DEF DialogOpens
<1>11. CASE DeleteBegins(o)
  BY <1>11 DEF DeleteBegins
<1>12. CASE Write(o)
  BY <1>12 DEF Write
<1>13. CASE WriteFails(o)
  BY <1>13 DEF WriteFails
<1>14. CASE Create(o)
  BY <1>14 DEF Create
<1>15. CASE ReadRow(o)
  BY <1>15 DEF ReadRow
<1>16. CASE ReadNothing(o)
  BY <1>16 DEF ReadNothing
<1>17. CASE Adopt(o)
  BY <1>17 DEF Adopt
<1>18. CASE Switch(o)
  BY <1>18 DEF Switch
<1>19. CASE Forget(o)
  BY <1>19 DEF Forget
<1>20. CASE Erase(o)
  BY <1>20 DEF Erase
<1>21. CASE Cleanup(o)
  BY <1>21 DEF Cleanup
<1>22. CASE Leave(o)
  BY <1>22 DEF Leave
<1>23. CASE CloseSaves(o)
  BY <1>23 DEF CloseSaves
<1>24. CASE StopWorker(o)
  BY <1>24 DEF StopWorker
<1>25. CASE Join(o)
  BY <1>25 DEF Join
<1>26. CASE Spawn(o)
  BY <1>26, SMTT(40) DEF Spawn
<1> QED
  BY <1>1, <1>2, <1>3, <1>4, <1>5, <1>6, <1>7, <1>8, <1>9, <1>10, <1>11, <1>12,
     <1>13, <1>14, <1>15, <1>16, <1>17, <1>18, <1>19, <1>20, <1>21, <1>22, <1>23,
     <1>24, <1>25, <1>26 DEF OpStep

LEMMA OpReferred ==
  ASSUME TypeOK, Referred, NEW o \in Ops, OpStep(o)
  PROVE  Referred'
<1>0. born \subseteq born' /\ captured' = captured
      /\ \A w \in Workers : worker'[w] = "saving" => worker[w] = "saving"
  BY OpFrame
<1>w. ASSUME NEW w \in Workers
      PROVE  WorkerRefers(w)'
  BY <1>0 DEF Referred, WorkerRefers
<1> SUFFICES ASSUME NEW p \in Ops
             PROVE  OpRefers(p)'
  BY <1>w DEF Referred
<1>b. OpRefers(p) /\ OpRefers(o)
  BY DEF Referred
<1> USE <1>b, NoneAssumption DEF TypeOK, Objects, Workers, Goto, Begins, OpRefers, PlaceFits,
        Makes, Unmade, HasMade,
        opVars, memory, managerVars, workerVars, history
<1>1. CASE TurnBegins(o)
  BY <1>1 DEF TurnBegins
<1>2. CASE TurnRefused(o)
  BY <1>2, SMTT(40) DEF TurnRefused
<1>3. CASE TurnAnswers(o)
  BY <1>3, SMTT(40) DEF TurnAnswers
<1>4. CASE TurnSucceeds(o)
  BY <1>4 DEF TurnSucceeds
<1>5. CASE TurnFails(o)
  BY <1>5, SMTT(40) DEF TurnFails
<1>6. CASE SaveBegins(o)
  BY <1>6, ZenonT(60) DEF SaveBegins
<1>7. CASE StartBegins(o)
  BY <1>7, SMTT(40) DEF StartBegins, SwitchBegins
<1>8. CASE LoadBegins(o)
  BY <1>8, SMTT(40) DEF LoadBegins, SwitchBegins
<1>9. CASE QuitBegins(o)
  BY <1>9, SMTT(40) DEF QuitBegins
<1>10. CASE DialogOpens(o)
  BY <1>10, SMTT(40) DEF DialogOpens
<1>11. CASE DeleteBegins(o)
  BY <1>11 DEF DeleteBegins
<1>12. CASE Write(o)
  BY <1>12, AfterWritePlaces, SMTT(40) DEF Write
<1>13. CASE WriteFails(o)
  BY <1>13 DEF WriteFails
<1>14. CASE Create(o)
  BY <1>14, SMTT(40) DEF Create
<1>15. CASE ReadRow(o)
  BY <1>15, ZenonT(60) DEF ReadRow
<1>16. CASE ReadNothing(o)
  BY <1>16 DEF ReadNothing
<1>17. CASE Adopt(o)
  BY <1>17, ZenonT(60) DEF Adopt
<1>18. CASE Switch(o)
  BY <1>18 DEF Switch
<1>19. CASE Forget(o)
  BY <1>19, SMTT(40) DEF Forget
<1>20. CASE Erase(o)
  BY <1>20 DEF Erase
<1>21. CASE Cleanup(o)
  BY <1>21 DEF Cleanup
<1>22. CASE Leave(o)
  BY <1>22, SMTT(40) DEF Leave
<1>23. CASE CloseSaves(o)
  BY <1>23 DEF CloseSaves
<1>24. CASE StopWorker(o)
  <2>0. UNCHANGED <<born, hold, home>>
    BY <1>24 DEF StopWorker
  <2>1. CASE slot = None
    <3>1. /\ pc' = [pc EXCEPT ![o] = AfterStop(o)] /\ pc[o] = "stop"
          /\ UNCHANGED <<waitFor, slot, stop, worker>>
      BY <1>24, <2>1 DEF StopWorker
    <3> QED
      BY <3>1, <2>0, AfterStopPlaces, SMTT(40)
  <2>2. CASE slot # None
    <3>1. /\ pc' = [pc EXCEPT ![o] = "join"] /\ pc[o] = "stop"
          /\ waitFor' = [waitFor EXCEPT ![o] = slot]
      BY <1>24, <2>2 DEF StopWorker
    <3> QED
      BY <3>1, <2>0, <2>2, SMTT(40)
  <2> QED
    BY <2>1, <2>2
<1>25. CASE Join(o)
  BY <1>25, AfterStopPlaces, SMTT(40) DEF Join
<1>26. CASE Spawn(o)
  BY <1>26, SMTT(40) DEF Spawn
<1> QED
  BY <1>1, <1>2, <1>3, <1>4, <1>5, <1>6, <1>7, <1>8, <1>9, <1>10, <1>11, <1>12,
     <1>13, <1>14, <1>15, <1>16, <1>17, <1>18, <1>19, <1>20, <1>21, <1>22, <1>23,
     <1>24, <1>25, <1>26 DEF OpStep

LEMMA StepReferred ==
  ASSUME TypeOK, Referred, [Next]_vars
  PROVE  Referred'
<1> USE NoneAssumption DEF TypeOK, Objects, Workers, opVars, memory, managerVars, workerVars,
        history
<1>1. ASSUME NEW o \in Ops, OpStep(o)
      PROVE  Referred'
  BY <1>1, OpReferred
<1>2. ASSUME UNCHANGED <<opVars, born, home>>, \A w \in Workers : WorkerRefers(w)'
      PROVE  Referred'
  BY <1>2 DEF Referred, OpRefers, PlaceFits, Makes, Unmade, HasMade
<1>3. ASSUME NEW w \in Workers, Check(w)
      PROVE  Referred'
  BY <1>2, <1>3 DEF Check, Referred, WorkerRefers
<1>4. ASSUME NEW w \in Workers, Wake(w)
      PROVE  Referred'
  BY <1>2, <1>4 DEF Wake, Referred, WorkerRefers
<1>5. ASSUME NEW w \in Workers, AutoSave(w)
      PROVE  Referred'
  BY <1>2, <1>5 DEF AutoSave, Referred, WorkerRefers
<1>6. CASE Touch
  BY <1>2, <1>6 DEF Touch, Referred, WorkerRefers
<1>7. CASE DayPasses
  BY <1>2, <1>7 DEF DayPasses, Referred, WorkerRefers
<1>8. CASE UNCHANGED vars
  BY <1>2, <1>8 DEF vars, Referred, WorkerRefers
<1> QED
  BY <1>1, <1>3, <1>4, <1>5, <1>6, <1>7, <1>8 DEF Next

-----------------------------------------------------------------------------
(* The worker's argument.                                                  *)

\* Nobody relies on there being no worker who did not before, and who joins, joins on.
StopsQuietly ==
  /\ slot' = slot /\ contended' = contended
  /\ \A w \in Workers : /\ Alive(w)' => Alive(w)
                        /\ worker'[w] = "saving" /\ worker[w] # "saving" => captured'[w] = mgr'
                        /\ worker'[w] = "saving" /\ worker[w] = "saving" => captured'[w] = captured[w]
  /\ \A o \in Ops : /\ Stopped(o)' => Stopped(o)
                    /\ pc[o] = "join" => pc'[o] = "join" /\ waitFor'[o] = waitFor[o]

\* The session in use stays, or is left by a switch that has yet to join the worker,
\* or by one that has.
LeavesRightly ==
  \/ mgr' = mgr /\ \A o \in Ops : Leaving(o) => Leaving(o)'
  \/ \E o \in Ops : Leaving(o)'
  \/ \E o \in Ops : Stopped(o) /\ pc[o] # "join"

LEMMA NoneAlive ==
  ASSUME TypeOK, OneStops,
         \/ \E o \in Ops : Stopped(o) /\ (pc[o] = "join" => ~Alive(waitFor[o]))
         \/ slot = None /\ \A o \in Ops : ~Stopped(o)
  PROVE  slot = None /\ \A w \in Workers : ~Alive(w)
<1>1. slot = None
  BY DEF OneStops
<1>2. ASSUME NEW w \in Workers, Alive(w)
      PROVE  FALSE
  <2>1. Joined(w)
    BY <1>1, <1>2, NoneAssumption DEF OneStops, Workers
  <2>2. PICK p \in Ops : pc[p] = "join" /\ waitFor[p] = w
    BY <2>1 DEF Joined
  <2>3. Stopped(p)
    BY <2>2 DEF Stopped
  <2> QED
    BY <1>2, <2>2, <2>3 DEF OneStops
<1> QED
  BY <1>1, <1>2

LEMMA QuietStep ==
  ASSUME TypeOK, WorkerInv, StopsQuietly, LeavesRightly
  PROVE  WorkerInv'
<1> SUFFICES ASSUME ~contended
             PROVE  OneStops' /\ Follows'
  BY DEF WorkerInv, StopsQuietly
<1>1. OneStops /\ Follows
  BY DEF WorkerInv
<1>2. \A w \in Workers : Joined(w) => Joined(w)'
  BY DEF Joined, StopsQuietly
<1>3. OneStops'
  BY <1>1, <1>2 DEF OneStops, StopsQuietly
<1>4. Follows'
  <2>1. CASE mgr' = mgr /\ \A o \in Ops : Leaving(o) => Leaving(o)'
    BY <1>1, <2>1 DEF Follows, StopsQuietly
  <2>2. CASE \E o \in Ops : Leaving(o)'
    BY <2>2 DEF Follows
  <2>3. CASE \E o \in Ops : Stopped(o) /\ pc[o] # "join"
    <3>1. \A w \in Workers : ~Alive(w)
      BY <1>1, <2>3, NoneAlive
    <3>2. \A w \in Workers : worker'[w] # "saving"
      BY <3>1, SMTT(40) DEF StopsQuietly, Alive
    <3> QED
      BY <3>2 DEF Follows
  <2> QED
    BY <2>1, <2>2, <2>3 DEF LeavesRightly
<1> QED
  BY <1>3, <1>4

LEMMA OpQuiet ==
  ASSUME TypeOK, Referred, NEW o \in Ops, OpStep(o), ~(StopWorker(o) \/ Join(o) \/ Spawn(o))
  PROVE  StopsQuietly /\ LeavesRightly
<1>b. PlaceFits(o)
  BY DEF Referred, OpRefers
<1>p. pc \in [Ops -> OpPlaces]
  BY DEF TypeOK
<1> USE <1>b, <1>p DEF StopsQuietly, LeavesRightly, Stopped, Leaving, Alive, PlaceFits, Goto,
        Begins,
        opVars, memory, managerVars, workerVars, history
<1>1. CASE TurnBegins(o)
  BY <1>1 DEF TurnBegins
<1>2. CASE TurnRefused(o)
  BY <1>2 DEF TurnRefused
<1>3. CASE TurnAnswers(o)
  BY <1>3 DEF TurnAnswers
<1>4. CASE TurnSucceeds(o)
  BY <1>4 DEF TurnSucceeds
<1>5. CASE TurnFails(o)
  BY <1>5 DEF TurnFails
<1>6. CASE SaveBegins(o)
  BY <1>6 DEF SaveBegins
<1>7. CASE StartBegins(o)
  BY <1>7 DEF StartBegins, SwitchBegins
<1>8. CASE LoadBegins(o)
  BY <1>8 DEF LoadBegins, SwitchBegins
<1>9. CASE QuitBegins(o)
  BY <1>9 DEF QuitBegins
<1>10. CASE DialogOpens(o)
  BY <1>10 DEF DialogOpens
<1>11. CASE DeleteBegins(o)
  BY <1>11 DEF DeleteBegins
<1>12. CASE Write(o)
  BY <1>12, AfterWritePlaces DEF Write
<1>13. CASE WriteFails(o)
  BY <1>13 DEF WriteFails
<1>14. CASE Create(o)
  BY <1>14 DEF Create
<1>15. CASE ReadRow(o)
  BY <1>15 DEF ReadRow
<1>16. CASE ReadNothing(o)
  BY <1>16 DEF ReadNothing
<1>17. CASE Adopt(o)
  BY <1>17 DEF Adopt
<1>18. CASE Switch(o)
  BY <1>18 DEF Switch
<1>19. CASE Forget(o)
  BY <1>19 DEF Forget
<1>20. CASE Erase(o)
  BY <1>20 DEF Erase
<1>21. CASE Cleanup(o)
  BY <1>21 DEF Cleanup
<1>22. CASE Leave(o)
  BY <1>22 DEF Leave
<1>23. CASE CloseSaves(o)
  BY <1>23 DEF CloseSaves
<1> QED
  BY <1>1, <1>2, <1>3, <1>4, <1>5, <1>6, <1>7, <1>8, <1>9, <1>10, <1>11, <1>12,
     <1>13, <1>14, <1>15, <1>16, <1>17, <1>18, <1>19, <1>20, <1>21, <1>22, <1>23 DEF OpStep

LEMMA OpWorker ==
  ASSUME TypeOK, Referred, WorkerInv, NEW o \in Ops, OpStep(o)
  PROVE  WorkerInv'
<1>t. /\ pc \in [Ops -> OpPlaces] /\ waitFor \in [Ops -> Workers \cup {None}]
      /\ worker \in [Workers -> WorkerPlaces] /\ slot \in Workers \cup {None}
  BY DEF TypeOK
<1>p. PlaceFits(o)
  BY DEF Referred, OpRefers
<1>n. None \notin Workers
  BY NoneAssumption DEF Workers
<1>1. CASE StopWorker(o)
  <2> SUFFICES ASSUME ~contended'
               PROVE  OneStops' /\ Follows'
    BY DEF WorkerInv
  <2>1. OneStops /\ Follows /\ (\A p \in Ops : ~Stopped(p)) /\ pc[o] = "stop"
    BY <1>1 DEF StopWorker, WorkerInv
  <2>2. CASE slot = None
    <3>1. /\ pc' = [pc EXCEPT ![o] = AfterStop(o)] /\ UNCHANGED <<waitFor, slot, stop, worker>>
      BY <1>1, <2>2 DEF StopWorker, Goto
    <3>2. \A w \in Workers : ~Alive(w)
      BY <2>1, <2>2, NoneAlive
    <3>3. \A w \in Workers : ~Alive(w)' /\ worker'[w] # "saving"
      BY <3>1, <3>2 DEF Alive
    <3>4. \A p \in Ops : Stopped(p)' => p = o
      BY <1>t, <3>1, <2>1 DEF Stopped
    <3> QED
      BY <3>1, <3>3, <3>4, <2>2 DEF OneStops, Follows
  <2>3. CASE slot # None
    <3>1. /\ pc' = [pc EXCEPT ![o] = "join"] /\ slot' = None
          /\ waitFor' = [waitFor EXCEPT ![o] = slot]
          /\ worker' = [w \in Workers |-> IF worker[w] = "waiting" THEN "dead" ELSE worker[w]]
          /\ captured' = captured /\ mgr' = mgr
      BY <1>1, <2>3 DEF StopWorker, Goto
    <3>2. \A p \in Ops : Stopped(p)' => p = o
      BY <1>t, <3>1, <2>1 DEF Stopped
    <3>3. pc'[o] = "join" /\ waitFor'[o] = slot
      BY <1>t, <3>1
    <3>4. \A w \in Workers : /\ Alive(w)' => Alive(w)
                             /\ worker'[w] = "saving" => worker[w] = "saving"
      BY <1>t, <3>1 DEF Alive
    <3>5. \A w \in Workers : Alive(w)' => Joined(w)'
      <4>1. \A w \in Workers : ~Joined(w)
        BY <2>1 DEF Joined, Stopped
      <4> QED
        BY <3>3, <3>4, <4>1, <2>1 DEF OneStops, Joined
    <3>6. \A p \in Ops : Leaving(p) => Leaving(p)'
      BY <1>t, <3>1, <2>1 DEF Leaving
    <3> QED
      BY <3>1, <3>2, <3>4, <3>5, <3>6, <2>1 DEF OneStops, Follows
  <2> QED
    BY <2>2, <2>3
<1>2. CASE Join(o)
  <2> SUFFICES ASSUME ~contended'
               PROVE  OneStops' /\ Follows'
    BY DEF WorkerInv
  <2>1. /\ OneStops /\ pc[o] = "join" /\ ~Alive(waitFor[o])
        /\ pc' = [pc EXCEPT ![o] = AfterStop(o)]
        /\ slot' = slot /\ worker' = worker
    BY <1>2 DEF Join, WorkerInv, Goto, managerVars, workerVars
  <2>2. slot = None /\ \A w \in Workers : ~Alive(w)
    BY <2>1, NoneAlive DEF Stopped
  <2>3. \A w \in Workers : ~Alive(w)' /\ worker'[w] # "saving"
    BY <2>1, <2>2 DEF Alive
  <2>4. \A p \in Ops : Stopped(p)' => Stopped(p)
    BY <1>t, <2>1 DEF Stopped
  <2> QED
    BY <2>1, <2>2, <2>3, <2>4 DEF OneStops, Follows
<1>3. CASE Spawn(o)
  <2> SUFFICES ASSUME ~contended'
               PROVE  OneStops' /\ Follows'
    BY DEF WorkerInv
  <2>1. /\ OneStops /\ pc[o] = "spawn"
        /\ pc' = [pc EXCEPT ![o] = "switch"]
        /\ slot' = o /\ worker' = [worker EXCEPT ![o] = "checking"]
    BY <1>3 DEF Spawn, WorkerInv, Goto, history
  <2>2. \A w \in Workers : ~Alive(w)
    BY <2>1, NoneAlive DEF Stopped
  <2>3. \A w \in Workers : (Alive(w)' => w = o) /\ worker'[w] # "saving"
    BY <1>t, <2>1, <2>2 DEF Alive
  <2>4. \A p \in Ops : ~Stopped(p)'
    <3>1. \A p \in Ops : Stopped(p) => p = o
      BY <2>1 DEF OneStops, Stopped
    <3> QED
      BY <1>t, <1>p, <2>1, <3>1 DEF Stopped
  <2> QED
    BY <2>1, <2>3, <2>4 DEF OneStops, Follows
<1>4. CASE ~(StopWorker(o) \/ Join(o) \/ Spawn(o))
  BY <1>4, OpQuiet, QuietStep
<1> QED
  BY <1>1, <1>2, <1>3, <1>4

LEMMA StepWorker ==
  ASSUME TypeOK, Referred, WorkerInv, [Next]_vars
  PROVE  WorkerInv'
<1>t. worker \in [Workers -> WorkerPlaces] /\ captured \in [Workers -> Objects \cup {None}]
  BY DEF TypeOK
<1> USE <1>t DEF opVars, memory, managerVars, workerVars, history
<1>1. ASSUME NEW o \in Ops, OpStep(o)
      PROVE  WorkerInv'
  BY <1>1, OpWorker
<1>2. ASSUME StopsQuietly, UNCHANGED <<pc, mgr>>
      PROVE  WorkerInv'
  <2>1. LeavesRightly
    BY <1>2 DEF LeavesRightly, Leaving
  <2> QED
    BY <1>2, <2>1, QuietStep
<1>3. ASSUME NEW w \in Workers, Check(w)
      PROVE  StopsQuietly /\ UNCHANGED <<pc, mgr>>
  BY <1>3 DEF Check, StopsQuietly, Alive, Stopped
<1>4. ASSUME NEW w \in Workers, Wake(w)
      PROVE  StopsQuietly /\ UNCHANGED <<pc, mgr>>
  BY <1>4 DEF Wake, StopsQuietly, Alive, Stopped
<1>5. ASSUME NEW w \in Workers, AutoSave(w)
      PROVE  StopsQuietly /\ UNCHANGED <<pc, mgr>>
  BY <1>5 DEF AutoSave, StopsQuietly, Alive, Stopped
<1>6. CASE Touch
  BY <1>2, <1>6 DEF Touch, StopsQuietly, Alive, Stopped
<1>7. CASE DayPasses
  BY <1>2, <1>7 DEF DayPasses, StopsQuietly, Alive, Stopped
<1>8. CASE UNCHANGED vars
  BY <1>2, <1>8 DEF vars, StopsQuietly, Alive, Stopped
<1> QED
  BY <1>1, <1>2, <1>3, <1>4, <1>5, <1>6, <1>7, <1>8 DEF Next

-----------------------------------------------------------------------------
(* The turns' argument.                                                    *)

\* Only who begins comes to disturb, and it is noted whom.
LEMMA Begun ==
  ASSUME TypeOK, Referred, NEW o \in Ops, OpStep(o)
  PROVE  /\ pc' = [pc EXCEPT ![o] = pc'[o]]
         /\ pc[o] = "new" => disturbed' = disturbed \cup Overlaps(o)
         /\ pc[o] # "new" => disturbed' = disturbed /\ (Busy(o) \/ ~Disturbs(o))
<1>p. pc \in [Ops -> OpPlaces]
  BY DEF TypeOK
<1> USE <1>p DEF Goto, Begins, Busy, Disturbs, opVars, memory, managerVars, workerVars, history
<1>1. CASE TurnBegins(o)
  BY <1>1 DEF TurnBegins
<1>2. CASE TurnRefused(o)
  BY <1>2 DEF TurnRefused
<1>3. CASE TurnAnswers(o)
  BY <1>3 DEF TurnAnswers
<1>4. CASE TurnSucceeds(o)
  BY <1>4 DEF TurnSucceeds
<1>5. CASE TurnFails(o)
  BY <1>5 DEF TurnFails
<1>6. CASE SaveBegins(o)
  BY <1>6 DEF SaveBegins
<1>7. CASE StartBegins(o)
  BY <1>7 DEF StartBegins, SwitchBegins
<1>8. CASE LoadBegins(o)
  BY <1>8 DEF LoadBegins, SwitchBegins
<1>9. CASE QuitBegins(o)
  BY <1>9 DEF QuitBegins
<1>10. CASE DialogOpens(o)
  BY <1>10 DEF DialogOpens, Overlaps
<1>11. CASE DeleteBegins(o)
  <2>1. Kind[o] = "delete"
    BY <1>11 DEF DeleteBegins, Referred, OpRefers, PlaceFits
  <2> QED
    BY <1>11, <2>1 DEF DeleteBegins
<1>12. CASE Write(o)
  BY <1>12 DEF Write
<1>13. CASE WriteFails(o)
  BY <1>13 DEF WriteFails
<1>14. CASE Create(o)
  BY <1>14 DEF Create
<1>15. CASE ReadRow(o)
  BY <1>15 DEF ReadRow
<1>16. CASE ReadNothing(o)
  BY <1>16 DEF ReadNothing
<1>17. CASE Adopt(o)
  BY <1>17 DEF Adopt
<1>18. CASE Switch(o)
  <2>1. pc[o] = "switch" /\ pc' = [pc EXCEPT ![o] = "done"] /\ disturbed' = disturbed
    BY <1>18 DEF Switch
  <2> QED
    BY <2>1
<1>19. CASE Forget(o)
  BY <1>19 DEF Forget
<1>20. CASE Erase(o)
  BY <1>20 DEF Erase
<1>21. CASE Cleanup(o)
  BY <1>21 DEF Cleanup
<1>22. CASE Leave(o)
  BY <1>22 DEF Leave
<1>23. CASE CloseSaves(o)
  BY <1>23 DEF CloseSaves
<1>24. CASE StopWorker(o)
  <2>1. pc[o] = "stop" /\ disturbed' = disturbed
    BY <1>24 DEF StopWorker
  <2>2. \E place : pc' = [pc EXCEPT ![o] = place]
    BY <1>24 DEF StopWorker
  <2> QED
    BY <2>1, <2>2
<1>25. CASE Join(o)
  BY <1>25 DEF Join
<1>26. CASE Spawn(o)
  BY <1>26 DEF Spawn
<1> QED
  BY <1>1, <1>2, <1>3, <1>4, <1>5, <1>6, <1>7, <1>8, <1>9, <1>10, <1>11, <1>12,
     <1>13, <1>14, <1>15, <1>16, <1>17, <1>18, <1>19, <1>20, <1>21, <1>22, <1>23,
     <1>24, <1>25, <1>26 DEF OpStep

LEMMA OpAlone ==
  ASSUME TypeOK, Referred, Alone, NEW o \in Ops, OpStep(o)
  PROVE  Alone' /\ \A t \in Ops : Undisturbed(t)' => Undisturbed(t)
<1>p. pc \in [Ops -> OpPlaces] /\ pc' = [pc EXCEPT ![o] = pc'[o]]
  BY Begun DEF TypeOK
<1>1. \A p \in Ops \ {o} : Busy(p)' = Busy(p)
  BY <1>p DEF Busy
<1>2. \A t \in Ops : Undisturbed(t)' => Undisturbed(t)
  BY Begun DEF Undisturbed
<1>3. ASSUME NEW t \in Ops, Undisturbed(t)', Busy(t)', NEW p \in Ops \ {t}, Busy(p)', Disturbs(p)
      PROVE  FALSE
  <2>1. CASE pc[o] = "new"
    <3>1. t \notin Overlaps(o) /\ t \in Turns
      BY <1>3, <2>1, Begun DEF Undisturbed
    <3>2. CASE t = o
      <4>1. Disturbs(o) /\ Busy(p)
        BY <1>1, <1>3, <3>1, <3>2 DEF Disturbs, Turns
      <4> QED
        BY <4>1, <1>3, <3>1, <3>2 DEF Overlaps
    <3>3. CASE p = o
      <4>1. Busy(t)
        BY <1>1, <1>3, <3>3
      <4> QED
        BY <4>1, <1>3, <3>1, <3>3 DEF Overlaps
    <3>4. CASE t # o /\ p # o
      BY <1>1, <1>2, <1>3, <3>4 DEF Alone
    <3> QED
      BY <3>2, <3>3, <3>4
  <2>2. CASE pc[o] # "new"
    <3>1. Busy(t) \/ (t = o /\ ~Disturbs(t))
      BY <1>1, <1>3, <2>2, Begun
    <3>2. Busy(p)
      BY <1>1, <1>3, <2>2, Begun
    <3>3. Disturbs(t)
      BY <1>3 DEF Undisturbed, Turns, Disturbs
    <3> QED
      BY <3>1, <3>2, <3>3, <1>2, <1>3 DEF Alone
  <2> QED
    BY <2>1, <2>2
<1> QED
  BY <1>2, <1>3 DEF Alone

\* Nobody touches the session of a turn that goes on to be undisturbed.
LEMMA HandsOff ==
  ASSUME TypeOK, Referred, Alone, NEW o \in Ops, OpStep(o),
         NEW t \in Ops \ {o}, Busy(t), Undisturbed(t)'
  PROVE  messages' = messages /\ orch' = orch
<1>1. Undisturbed(t)
  BY OpAlone
<1>2. ~Disturbs(o)
  <2>1. CASE pc[o] = "new"
    <3>1. t \notin Overlaps(o) /\ t \in Turns
      BY <2>1, Begun DEF Undisturbed
    <3> QED
      BY <3>1 DEF Overlaps
  <2>2. CASE pc[o] # "new"
    BY <1>1, <2>2, Begun DEF Alone
  <2> QED
    BY <2>1, <2>2
<1>3. Kind[o] \in {"save", "delete"}
  BY <1>2, KindAssumption DEF Disturbs, Kinds
<1>4. PlaceFits(o)
  BY DEF Referred, OpRefers
<1> USE <1>3, <1>4 DEF PlaceFits, Begins, opVars, memory, managerVars, workerVars, history
<1>a1. CASE TurnBegins(o)
  BY <1>a1 DEF TurnBegins
<1>a2. CASE TurnRefused(o)
  BY <1>a2 DEF TurnRefused
<1>a3. CASE TurnAnswers(o)
  BY <1>a3 DEF TurnAnswers
<1>a4. CASE TurnSucceeds(o)
  BY <1>a4 DEF TurnSucceeds
<1>a5. CASE TurnFails(o)
  BY <1>a5 DEF TurnFails
<1>a6. CASE SaveBegins(o)
  BY <1>a6 DEF SaveBegins
<1>a7. CASE StartBegins(o)
  BY <1>a7 DEF StartBegins, SwitchBegins
<1>a8. CASE LoadBegins(o)
  BY <1>a8 DEF LoadBegins, SwitchBegins
<1>a9. CASE QuitBegins(o)
  BY <1>a9 DEF QuitBegins
<1>a10. CASE DialogOpens(o)
  BY <1>a10 DEF DialogOpens
<1>a11. CASE DeleteBegins(o)
  BY <1>a11 DEF DeleteBegins
<1>a12. CASE Write(o)
  BY <1>a12 DEF Write
<1>a13. CASE WriteFails(o)
  BY <1>a13 DEF WriteFails
<1>a14. CASE Create(o)
  BY <1>a14 DEF Create
<1>a15. CASE ReadRow(o)
  BY <1>a15 DEF ReadRow
<1>a16. CASE ReadNothing(o)
  BY <1>a16 DEF ReadNothing
<1>a17. CASE Adopt(o)
  BY <1>a17 DEF Adopt
<1>a18. CASE Switch(o)
  BY <1>a18 DEF Switch
<1>a19. CASE Forget(o)
  BY <1>a19 DEF Forget
<1>a20. CASE Erase(o)
  BY <1>a20 DEF Erase
<1>a21. CASE Cleanup(o)
  BY <1>a21 DEF Cleanup
<1>a22. CASE Leave(o)
  BY <1>a22 DEF Leave
<1>a23. CASE CloseSaves(o)
  BY <1>a23 DEF CloseSaves
<1>a24. CASE StopWorker(o)
  BY <1>a24 DEF StopWorker
<1>a25. CASE Join(o)
  BY <1>a25 DEF Join
<1>a26. CASE Spawn(o)
  BY <1>a26 DEF Spawn
<1> QED
  BY <1>a1, <1>a2, <1>a3, <1>a4, <1>a5, <1>a6, <1>a7, <1>a8, <1>a9, <1>a10, <1>a11, <1>a12,
     <1>a13, <1>a14, <1>a15, <1>a16, <1>a17, <1>a18, <1>a19, <1>a20, <1>a21, <1>a22, <1>a23,
     <1>a24, <1>a25, <1>a26 DEF OpStep

\* Which operations change a list of messages.
LEMMA MessagesOf ==
  ASSUME NEW o \in Ops, OpStep(o)
  PROVE  \/ ReadRow(o) \/ TurnBegins(o) \/ TurnAnswers(o) \/ TurnSucceeds(o) \/ TurnFails(o)
         \/ messages' = messages
<1> USE DEF memory
<1>1. CASE TurnBegins(o)
  BY <1>1
<1>2. CASE TurnRefused(o)
  BY <1>2 DEF TurnRefused
<1>3. CASE TurnAnswers(o)
  BY <1>3
<1>4. CASE TurnSucceeds(o)
  BY <1>4
<1>5. CASE TurnFails(o)
  BY <1>5
<1>6. CASE SaveBegins(o)
  BY <1>6 DEF SaveBegins
<1>7. CASE StartBegins(o)
  BY <1>7 DEF StartBegins, SwitchBegins
<1>8. CASE LoadBegins(o)
  BY <1>8 DEF LoadBegins, SwitchBegins
<1>9. CASE QuitBegins(o)
  BY <1>9 DEF QuitBegins
<1>10. CASE DialogOpens(o)
  BY <1>10 DEF DialogOpens
<1>11. CASE DeleteBegins(o)
  BY <1>11 DEF DeleteBegins
<1>12. CASE Write(o)
  BY <1>12 DEF Write
<1>13. CASE WriteFails(o)
  BY <1>13 DEF WriteFails
<1>14. CASE Create(o)
  BY <1>14 DEF Create
<1>15. CASE ReadRow(o)
  BY <1>15
<1>16. CASE ReadNothing(o)
  BY <1>16 DEF ReadNothing
<1>17. CASE Adopt(o)
  BY <1>17 DEF Adopt
<1>18. CASE Switch(o)
  BY <1>18 DEF Switch
<1>19. CASE Forget(o)
  BY <1>19 DEF Forget
<1>20. CASE Erase(o)
  BY <1>20 DEF Erase
<1>21. CASE Cleanup(o)
  BY <1>21 DEF Cleanup
<1>22. CASE Leave(o)
  BY <1>22 DEF Leave
<1>23. CASE CloseSaves(o)
  BY <1>23 DEF CloseSaves
<1>24. CASE StopWorker(o)
  BY <1>24 DEF StopWorker
<1>25. CASE Join(o)
  BY <1>25 DEF Join
<1>26. CASE Spawn(o)
  BY <1>26 DEF Spawn
<1> QED
  BY <1>1, <1>2, <1>3, <1>4, <1>5, <1>6, <1>7, <1>8, <1>9, <1>10, <1>11, <1>12,
     <1>13, <1>14, <1>15, <1>16, <1>17, <1>18, <1>19, <1>20, <1>21, <1>22, <1>23,
     <1>24, <1>25, <1>26 DEF OpStep

\* An operation adds to a list, or removes from it, no message of a turn that is not its own.
LEMMA OthersMessages ==
  ASSUME TypeOK, Referred, NEW o \in Ops, OpStep(o), NEW t \in Ops \ {o}, NEW s \in Objects
  PROVE  /\ Has(messages'[s], t) => Has(messages[s], t)
         /\ s \in born /\ Has(messages[s], t) => Has(messages'[s], t)
<1>b. messages \in [Objects -> Seq(Message)] /\ orch \in Objects \cup {None}
  BY DEF TypeOK
<1>1. ASSUME orch # None, messages' = [messages EXCEPT ![orch] = Append(@, Own(o))]
      PROVE  Has(messages'[s], t) <=> Has(messages[s], t)
  BY <1>b, <1>1, AppendHas
<1>2. ASSUME orch # None, messages' = [messages EXCEPT ![orch] = Rollback(@, o)]
      PROVE  Has(messages'[s], t) <=> Has(messages[s], t)
  BY <1>b, <1>2, RollbackHas
<1>3. CASE ReadRow(o)
  <2>1. rows[Target[o]].messages \in Seq(Message)
    BY <1>3, TargetAssumption DEF ReadRow, TypeOK, Row
  <2>2. o \notin born
    BY <1>3 DEF ReadRow, Referred, OpRefers, Unmade
  <2>3. s # o => messages'[s] = messages[s]
    BY <1>b, <1>3 DEF ReadRow
  <2>4. s = o => ~Has(messages'[s], t)
    <3>1. s = o => messages'[s] = [i \in 1..Len(rows[Target[o]].messages) |->
                                     [rows[Target[o]].messages[i] EXCEPT !.copy = TRUE]]
      BY <1>b, <1>3 DEF ReadRow
    <3> QED
      BY <3>1, <2>1, CopiesHas
  <2> QED
    BY <2>2, <2>3, <2>4
<1>4. CASE TurnBegins(o) \/ TurnAnswers(o) \/ TurnSucceeds(o)
  BY <1>1, <1>4 DEF TurnBegins, TurnAnswers, TurnSucceeds, Say
<1>5. CASE TurnFails(o)
  BY <1>2, <1>5 DEF TurnFails
<1>6. CASE messages' = messages
  BY <1>6
<1>7. \/ ReadRow(o) \/ TurnBegins(o) \/ TurnAnswers(o) \/ TurnSucceeds(o) \/ TurnFails(o)
      \/ messages' = messages
  BY MessagesOf
<1> QED
  BY <1>3, <1>4, <1>5, <1>6, <1>7

\* What becomes of a row: it stays, it is deleted, or it is what a session is.
RowKept(i) ==
  \/ rows'[i] = rows[i]
  \/ i \in erased'
  \/ messages' = messages /\ \E s \in born : Sid(s) = i /\ rows'[i].messages = messages[s]

LEMMA Persists ==
  ASSUME TypeOK, NEW s \in born, Persist(s), messages' = messages, NEW i \in Ids
  PROVE  RowKept(i)
<1>1. /\ Sid(s) \in Ids
      /\ rows' = [rows EXCEPT ![Sid(s)] = [messages |-> messages[s], stamp |-> stamp[s]]]
  BY SidType DEF TypeOK, Persist
<1>2. CASE i = Sid(s)
  BY <1>1, <1>2 DEF RowKept, TypeOK
<1>3. CASE i # Sid(s)
  BY <1>1, <1>3 DEF RowKept, TypeOK
<1> QED
  BY <1>2, <1>3

LEMMA OpRows ==
  ASSUME TypeOK, Referred, NEW o \in Ops, OpStep(o)
  PROVE  erased \subseteq erased' /\ \A i \in Ids : RowKept(i)
<1>r. rows \in [Ids -> Row \cup {Absent}]
  BY DEF TypeOK
<1> USE <1>r DEF RowKept, opVars, memory, managerVars, workerVars, history
<1>1. CASE TurnBegins(o)
  BY <1>1 DEF TurnBegins
<1>2. CASE TurnRefused(o)
  BY <1>2 DEF TurnRefused
<1>3. CASE TurnAnswers(o)
  BY <1>3 DEF TurnAnswers
<1>4. CASE TurnSucceeds(o)
  BY <1>4 DEF TurnSucceeds
<1>5. CASE TurnFails(o)
  BY <1>5 DEF TurnFails
<1>6. CASE SaveBegins(o)
  BY <1>6 DEF SaveBegins
<1>7. CASE StartBegins(o)
  BY <1>7 DEF StartBegins, SwitchBegins
<1>8. CASE LoadBegins(o)
  BY <1>8 DEF LoadBegins, SwitchBegins
<1>9. CASE QuitBegins(o)
  BY <1>9 DEF QuitBegins
<1>10. CASE DialogOpens(o)
  BY <1>10 DEF DialogOpens
<1>11. CASE DeleteBegins(o)
  BY <1>11 DEF DeleteBegins
<1>12. CASE Write(o)
  <2>1. hold[o] \in born /\ Persist(hold[o]) /\ messages' = messages /\ erased' = erased
    BY <1>12 DEF Write, Referred, OpRefers
  <2> QED
    BY <2>1, Persists
<1>13. CASE WriteFails(o)
  BY <1>13 DEF WriteFails
<1>14. CASE Create(o)
  BY <1>14 DEF Create
<1>15. CASE ReadRow(o)
  BY <1>15 DEF ReadRow
<1>16. CASE ReadNothing(o)
  BY <1>16 DEF ReadNothing
<1>17. CASE Adopt(o)
  BY <1>17 DEF Adopt
<1>18. CASE Switch(o)
  BY <1>18 DEF Switch
<1>19. CASE Forget(o)
  BY <1>19 DEF Forget
<1>20. CASE Erase(o)
  BY <1>20 DEF Erase
<1>21. CASE Cleanup(o)
  <2>1. /\ rows' = [i \in Ids |-> IF Stale(i) THEN Absent ELSE rows[i]]
        /\ erased' = erased \cup {i \in Ids : Stale(i)}
    BY <1>21 DEF Cleanup
  <2> QED
    BY <2>1
<1>22. CASE Leave(o)
  BY <1>22 DEF Leave
<1>23. CASE CloseSaves(o)
  BY <1>23 DEF CloseSaves
<1>24. CASE StopWorker(o)
  BY <1>24 DEF StopWorker
<1>25. CASE Join(o)
  BY <1>25 DEF Join
<1>26. CASE Spawn(o)
  BY <1>26 DEF Spawn
<1> QED
  BY <1>1, <1>2, <1>3, <1>4, <1>5, <1>6, <1>7, <1>8, <1>9, <1>10, <1>11, <1>12,
     <1>13, <1>14, <1>15, <1>16, <1>17, <1>18, <1>19, <1>20, <1>21, <1>22, <1>23,
     <1>24, <1>25, <1>26 DEF OpStep

\* A turn that is on disk stays there.
LEMMA DiskKept ==
  ASSUME TypeOK, Referred, Referred', NEW t \in Ops, home[t] \in born,
         home'[t] = home[t], born \subseteq born', erased \subseteq erased',
         RowKept(Sid(home[t])), Has(messages[home[t]], t),
         ~Aliased(Sid(home[t])) /\ Sid(home[t]) \notin erased => OnDisk(t)
  PROVE  ~Aliased(Sid(home[t]))' /\ Sid(home[t]) \notin erased' => OnDisk(t)'
<1> DEFINE i == Sid(home[t])
<1> SUFFICES ASSUME ~Aliased(Sid(home[t]))', i \notin erased'
             PROVE  OnDisk(t)'
  OBVIOUS
<1>0. Sid(home'[t]) = i
  OBVIOUS
<1>1. \A s, u \in born' : Sid(s) = i /\ Sid(u) = i => s = u
  BY <1>0 DEF Aliased, Sid
<1>2. ~Aliased(i) /\ i \notin erased
  BY <1>1 DEF Aliased
<1>3. OnDisk(t)
  BY <1>2
<1>4. CASE rows'[i] = rows[i]
  BY <1>0, <1>3, <1>4 DEF OnDisk, Sid
<1>5. CASE \E s \in born : Sid(s) = i /\ rows'[i].messages = messages[s]
  <2>1. rows'[i].messages = messages[home[t]]
    BY <1>1, <1>5
  <2>2. PICK k \in 1..Len(messages[home[t]]) : messages[home[t]][k] = Own(t)
    BY DEF Has
  <2> QED
    BY <1>0, <2>1, <2>2 DEF OnDisk, Own, Sid
<1> QED
  BY <1>4, <1>5 DEF RowKept

\* What a step of another operation leaves of a turn.
LEMMA OthersTurn ==
  ASSUME TypeOK, Referred, Referred', Alone, NEW o \in Ops, OpStep(o),
         NEW t \in Ops \ {o}, Undisturbed(t)', TurnKept(t),
         pc'[t] = pc[t], home'[t] = home[t], hold'[t] = hold[t], born \subseteq born'
  PROVE  TurnKept(t)'
<1>0. home[t] \in born \cup {None} /\ born \subseteq Objects /\ None \notin Objects
  BY NoneAssumption DEF Referred, OpRefers, TypeOK, Objects
<1>1. ASSUME pc[t] \in {"new", "failed"}
      PROVE  Nowhere(t)'
  BY <1>1, OthersMessages DEF TurnKept, Nowhere
<1>2. ASSUME pc[t] \in {"running", "answered"}
      PROVE  InHand(t)'
  <2>1. InHand(t) /\ Busy(t)
    BY <1>2 DEF TurnKept, Busy
  <2>2. messages' = messages /\ orch' = orch
    BY <2>1, HandsOff
  <2> QED
    BY <2>1, <2>2 DEF InHand
<1>3. ASSUME pc[t] \in {"persist", "done"}
      PROVE  home[t] \in born /\ Has(messages[home[t]], t) /\ Has(messages'[home[t]], t)
  BY <1>0, <1>3, OthersMessages DEF TurnKept
<1>4. ASSUME pc[t] = "done"
      PROVE  ~Aliased(Sid(home[t]))' /\ Sid(home[t]) \notin erased' => OnDisk(t)'
  <2>1. home[t] \in born /\ Has(messages[home[t]], t)
    BY <1>3, <1>4
  <2>2. Sid(home[t]) \in Ids
    BY <1>0, <2>1, SidType
  <2> QED
    BY <1>4, <2>1, <2>2, OpRows, DiskKept DEF TurnKept
<1>5. Sid(home[t])' = Sid(home[t])
  BY DEF Sid
<1> QED
  BY <1>0, <1>1, <1>2, <1>3, <1>4, <1>5 DEF TurnKept

\* What a step leaves of the other operations.
LEMMA OthersPlaces ==
  ASSUME TypeOK, NEW o \in Ops, OpStep(o), NEW t \in Ops \ {o}
  PROVE  pc'[t] = pc[t] /\ home'[t] = home[t] /\ hold'[t] = hold[t]
<1> USE DEF TypeOK, Goto, Begins, opVars, memory, managerVars, workerVars, history
<1>1. CASE TurnBegins(o)
  BY <1>1 DEF TurnBegins
<1>2. CASE TurnRefused(o)
  BY <1>2 DEF TurnRefused
<1>3. CASE TurnAnswers(o)
  BY <1>3 DEF TurnAnswers
<1>4. CASE TurnSucceeds(o)
  BY <1>4 DEF TurnSucceeds
<1>5. CASE TurnFails(o)
  BY <1>5 DEF TurnFails
<1>6. CASE SaveBegins(o)
  BY <1>6 DEF SaveBegins
<1>7. CASE StartBegins(o)
  BY <1>7 DEF StartBegins, SwitchBegins
<1>8. CASE LoadBegins(o)
  BY <1>8 DEF LoadBegins, SwitchBegins
<1>9. CASE QuitBegins(o)
  BY <1>9 DEF QuitBegins
<1>10. CASE DialogOpens(o)
  BY <1>10 DEF DialogOpens
<1>11. CASE DeleteBegins(o)
  BY <1>11 DEF DeleteBegins
<1>12. CASE Write(o)
  BY <1>12 DEF Write
<1>13. CASE WriteFails(o)
  BY <1>13 DEF WriteFails
<1>14. CASE Create(o)
  BY <1>14 DEF Create
<1>15. CASE ReadRow(o)
  BY <1>15 DEF ReadRow
<1>16. CASE ReadNothing(o)
  BY <1>16 DEF ReadNothing
<1>17. CASE Adopt(o)
  BY <1>17 DEF Adopt
<1>18. CASE Switch(o)
  BY <1>18 DEF Switch
<1>19. CASE Forget(o)
  BY <1>19 DEF Forget
<1>20. CASE Erase(o)
  BY <1>20 DEF Erase
<1>21. CASE Cleanup(o)
  BY <1>21 DEF Cleanup
<1>22. CASE Leave(o)
  BY <1>22 DEF Leave
<1>23. CASE CloseSaves(o)
  BY <1>23 DEF CloseSaves
<1>24. CASE StopWorker(o)
  <2>1. home' = home /\ hold' = hold /\ \E place : pc' = [pc EXCEPT ![o] = place]
    BY <1>24 DEF StopWorker
  <2> QED
    BY <2>1
<1>25. CASE Join(o)
  BY <1>25 DEF Join
<1>26. CASE Spawn(o)
  BY <1>26 DEF Spawn
<1> QED
  BY <1>1, <1>2, <1>3, <1>4, <1>5, <1>6, <1>7, <1>8, <1>9, <1>10, <1>11, <1>12,
     <1>13, <1>14, <1>15, <1>16, <1>17, <1>18, <1>19, <1>20, <1>21, <1>22, <1>23,
     <1>24, <1>25, <1>26 DEF OpStep

\* A turn's own step.
LEMMA OwnTurn ==
  ASSUME TypeOK, Referred, NEW o \in Ops, OpStep(o), o \in Turns, TurnKept(o)
  PROVE  TurnKept(o)'
<1>k. /\ Kind[o] = "turn"
      /\ pc[o] \in {"new", "running", "answered", "persist", "done", "failed", "unsaved"}
  BY DEF Turns, Referred, OpRefers, PlaceFits
<1>t. /\ pc \in [Ops -> OpPlaces] /\ home \in [Ops -> Objects \cup {None}]
      /\ hold \in [Ops -> Objects \cup {None}]
      /\ messages \in [Objects -> Seq(Message)] /\ orch \in Objects \cup {None}
      /\ None \notin Objects
  BY NoneAssumption DEF TypeOK, Objects
<1>1. CASE TurnBegins(o)
  <2>1. /\ orch # None /\ Nowhere(o) /\ pc'[o] = "running" /\ orch' = orch /\ home'[o] = orch
        /\ messages' = [messages EXCEPT ![orch] = Append(@, Own(o))]
    BY <1>1, <1>t DEF TurnBegins, Begins, Goto, Say, TurnKept, managerVars
  <2>2. TailOf(messages'[orch], o)
    BY <1>t, <2>1, AppendHas DEF Nowhere
  <2>3. \A s \in Objects \ {orch} : ~Has(messages'[s], o)
    BY <1>t, <2>1 DEF Nowhere
  <2> QED
    BY <2>1, <2>2, <2>3 DEF TurnKept, InHand
<1>2. CASE TurnRefused(o)
  <2>1. Nowhere(o) /\ pc'[o] = "failed" /\ messages' = messages
    BY <1>2, <1>t DEF TurnRefused, Begins, Goto, TurnKept, memory
  <2> QED
    BY <2>1 DEF TurnKept, Nowhere
<1>3. CASE TurnAnswers(o)
  <2>1. /\ InHand(o) /\ pc'[o] = "answered" /\ orch' = orch /\ home' = home
        /\ messages' = [messages EXCEPT ![orch] = Append(@, Own(o))]
    BY <1>3, <1>t DEF TurnAnswers, Goto, Say, TurnKept, managerVars, history
  <2>2. TailOf(messages'[orch], o)
    BY <1>t, <2>1, AppendHas DEF InHand
  <2>3. \A s \in Objects \ {orch} : ~Has(messages'[s], o)
    BY <1>t, <2>1 DEF InHand
  <2> QED
    BY <2>1, <2>2, <2>3 DEF TurnKept, InHand
<1>4. CASE TurnSucceeds(o)
  <2>1. /\ InHand(o) /\ pc'[o] = "persist" /\ hold'[o] = orch /\ home' = home
        /\ messages' = [messages EXCEPT ![orch] = Append(@, Own(o))]
    BY <1>4, <1>t DEF TurnSucceeds, Goto, Say, TurnKept, history
  <2>2. Has(messages'[orch], o)
    BY <1>t, <2>1, AppendHas DEF InHand
  <2> QED
    BY <2>1, <2>2 DEF TurnKept, InHand
<1>5. CASE TurnFails(o)
  <2>1. InHand(o) /\ pc'[o] = "failed"
    BY <1>5, <1>t DEF TurnFails, Goto, TurnKept
  <2>2. orch \in Objects /\ messages' = [messages EXCEPT ![orch] = Rollback(@, o)]
    BY <1>5, <1>t, <2>1 DEF TurnFails, InHand
  <2>3. ~Has(messages'[orch], o)
    BY <1>t, <2>1, <2>2, RollbackHas DEF InHand
  <2>4. \A s \in Objects \ {orch} : ~Has(messages'[s], o)
    BY <1>t, <2>1, <2>2 DEF InHand
  <2> QED
    BY <2>1, <2>3, <2>4 DEF TurnKept, Nowhere
<1>6. CASE Write(o)
  <2>1. /\ pc[o] = "persist" /\ hold[o] = home[o] /\ home[o] # None /\ Has(messages[home[o]], o)
        /\ messages' = messages /\ home' = home /\ Persist(home[o])
    BY <1>6, <1>k DEF Write, TurnKept, memory
  <2>2. AfterWrite(o) = "done"
    BY <1>k, <2>1 DEF AfterWrite
  <2>3. pc'[o] = "done"
    BY <1>6, <1>t, <2>2 DEF Write, Goto
  <2>4. rows'[Sid(home[o])].messages = messages[home[o]]
    <3>1. Sid(home[o]) \in Ids
      BY <1>t, <2>1, SidType
    <3> QED
      BY <2>1, <3>1 DEF Persist, TypeOK
  <2>5. OnDisk(o)'
    <3>1. PICK k \in 1..Len(messages[home[o]]) : messages[home[o]][k] = Own(o)
      BY <2>1 DEF Has
    <3> QED
      BY <2>1, <2>4, <3>1 DEF OnDisk, Own, Sid
  <2> QED
    BY <2>1, <2>3, <2>5 DEF TurnKept
<1>7. CASE WriteFails(o)
  BY <1>7, <1>k, <1>t DEF WriteFails, Goto, TurnKept
<1>8. TurnBegins(o) \/ TurnRefused(o) \/ TurnAnswers(o) \/ TurnSucceeds(o) \/ TurnFails(o) \/ Write(o)
      \/ WriteFails(o)
  BY <1>k DEF OpStep, SaveBegins, SwitchBegins, StartBegins, LoadBegins, QuitBegins,
          DialogOpens,
     DeleteBegins, Create, ReadRow, ReadNothing, Adopt, Switch, Forget, Erase, Cleanup, Leave,
     CloseSaves, StopWorker, Join, Spawn, Begins
<1> QED
  BY <1>1, <1>2, <1>3, <1>4, <1>5, <1>6, <1>7, <1>8

LEMMA StepTurn ==
  ASSUME TypeOK, Referred, Referred', TurnInv, [Next]_vars
  PROVE  TurnInv'
<1>1. ASSUME NEW o \in Ops, OpStep(o)
      PROVE  TurnInv'
  <2>1. Alone' /\ \A t \in Ops : Undisturbed(t)' => Undisturbed(t) /\ TurnKept(t)
    BY <1>1, OpAlone DEF TurnInv
  <2>2. ASSUME NEW t \in Ops, Undisturbed(t)', t # o
        PROVE  TurnKept(t)'
    <3>1. born \subseteq born'
      BY <1>1, OpFrame
    <3> QED
      BY <1>1, <2>1, <2>2, <3>1, OthersPlaces, OthersTurn DEF TurnInv
  <2>3. Undisturbed(o)' => TurnKept(o)'
    BY <1>1, <2>1, OwnTurn DEF Undisturbed
  <2> QED
    BY <2>1, <2>2, <2>3 DEF TurnInv
<1>2. ASSUME UNCHANGED <<pc, home, hold, messages, orch, born, disturbed, erased>>,
             \A i \in Ids : RowKept(i)
      PROVE  TurnInv'
  <2>1. Alone'
    BY <1>2 DEF TurnInv, Alone, Undisturbed, Busy
  <2>2. ASSUME NEW t \in Ops, Undisturbed(t)'
        PROVE  TurnKept(t)'
    <3>1. TurnKept(t)
      BY <1>2, <2>2 DEF TurnInv, Undisturbed
    <3>2. ASSUME pc[t] = "done"
          PROVE  ~Aliased(Sid(home[t]))' /\ Sid(home[t]) \notin erased' => OnDisk(t)'
      <4>1. home[t] \in born /\ Has(messages[home[t]], t) /\ Sid(home[t]) \in Ids
        BY <3>1, <3>2, SidType DEF TurnKept, Referred, OpRefers, TypeOK
      <4> QED
        BY <1>2, <3>1, <3>2, <4>1, DiskKept DEF TurnKept
    <3>3. Nowhere(t)' = Nowhere(t) /\ InHand(t)' = InHand(t)
      BY <1>2 DEF Nowhere, InHand
    <3> QED
      BY <1>2, <3>1, <3>2, <3>3 DEF TurnKept, Sid
  <2> QED
    BY <2>1, <2>2 DEF TurnInv
<1> USE DEF opVars, memory, managerVars, workerVars, history
<1>3. ASSUME NEW w \in Workers, Check(w) \/ Wake(w)
      PROVE  TurnInv'
  BY <1>2, <1>3 DEF Check, Wake, RowKept
<1>4. ASSUME NEW w \in Workers, AutoSave(w)
      PROVE  TurnInv'
  <2>1. captured[w] \in born
    <3>1. worker[w] = "saving" /\ WorkerRefers(w)
      BY <1>4 DEF AutoSave, Referred
    <3> QED
      BY <3>1 DEF WorkerRefers
  <2>2. UNCHANGED <<pc, home, hold, messages, orch, born, disturbed, erased>>
    BY <1>4 DEF AutoSave
  <2>3. CASE Persist(captured[w])
    BY <1>2, <2>1, <2>2, <2>3, Persists
  <2>4. CASE UNCHANGED <<rows, used>>
    BY <1>2, <2>2, <2>4 DEF RowKept
  <2> QED
    BY <1>4, <2>3, <2>4 DEF AutoSave
<1>5. CASE Touch
  BY <1>2, <1>5 DEF Touch, RowKept
<1>6. CASE DayPasses
  BY <1>2, <1>6 DEF DayPasses, RowKept
<1>7. CASE UNCHANGED vars
  BY <1>2, <1>7 DEF vars, RowKept
<1> QED
  BY <1>1, <1>3, <1>4, <1>5, <1>6, <1>7 DEF Next

-----------------------------------------------------------------------------
(* The invariant, and what follows.                                        *)

LEMMA InitInv == Init => IInv
<1> SUFFICES ASSUME Init
             PROVE  IInv
  OBVIOUS
<1>1. TypeOK
  <2>1. rows \in [Ids -> Row \cup {Absent}]
    <3>1. [messages |-> << >>, stamp |-> 0] \in Row
      BY EmptySeq DEF Row
    <3> QED
      BY <3>1 DEF Init
  <2>2. messages \in [Objects -> Seq(Message)]
    BY EmptySeq DEF Init
  <2>3. /\ pc \in [Ops -> OpPlaces] /\ worker \in [Workers -> WorkerPlaces]
        /\ slot \in Workers \cup {None} /\ born \subseteq Objects
    BY DEF Init, OpPlaces, WorkerPlaces, Workers, Objects
  <2>4. /\ saved \in [Workers -> 0..Saves] /\ today \in 0..Days /\ used \in [Ids -> 0..Days]
        /\ stamp \in [Objects -> Nat]
    BY BoundAssumption DEF Init
  <2> QED
    BY <2>1, <2>2, <2>3, <2>4 DEF Init, TypeOK
<1>2. Referred
  BY KindAssumption, NoneAssumption DEF Init, Referred, OpRefers, WorkerRefers, PlaceFits,
          Makes, Unmade,
     HasMade, Kinds, Workers
<1>3. WorkerInv
  BY DEF Init, WorkerInv, OneStops, Follows, Stopped, Alive, Workers
<1>4. TurnInv
  <2>1. Alone
    BY DEF Init, Alone, Busy
  <2>2. \A t \in Ops : Nowhere(t)
    BY EmptySeq DEF Init, Nowhere, Has
  <2> QED
    BY <2>1, <2>2 DEF Init, TurnInv, TurnKept
<1> QED
  BY <1>1, <1>2, <1>3, <1>4 DEF IInv

LEMMA StepInv == IInv /\ [Next]_vars => IInv'
  BY StepType, StepReferred, StepWorker, StepTurn DEF IInv

(* What the properties rest on, for any operations and any bounds.         *)
THEOREM Inductive == Spec => []IInv
<1> QED
  BY InitInv, StepInv, PTL DEF Spec

(* Every variable keeps to its values; the sessions that the orchestrator  *)
(* and the manager call current exist (core/session.py).                   *)
THEOREM TypeCorrect == Spec => []TypeOK
<1>1. IInv => TypeOK
  BY DEF IInv
<1> QED
  BY <1>1, Inductive, PTL

(* At most one auto-save worker is alive (session.py,                      *)
(* _start_auto_save_sync and _stop_auto_save_sync), unless a stop fell     *)
(* into another's work or gave up waiting.                                 *)
THEOREM OneWorkerTheorem == Spec => []OneWorkerUncontended
<1>1. ASSUME OneStops, NEW v \in Workers, NEW w \in Workers, Alive(v), Alive(w)
      PROVE  v = w
  <2>1. CASE slot # None
    BY <1>1, <2>1 DEF OneStops, Joined, Stopped
  <2>2. CASE slot = None
    <3>1. Joined(v) /\ Joined(w)
      BY <1>1, <2>2, NoneAssumption DEF OneStops, Workers
    <3> QED
      BY <1>1, <3>1 DEF OneStops, Joined, Stopped
  <2> QED
    BY <2>1, <2>2
<1>2. IInv => OneWorkerUncontended
  BY <1>1 DEF IInv, WorkerInv, OneWorkerUncontended, OneWorker
<1> QED
  BY <1>2, Inductive, PTL

(* Auto-save (session.py, _auto_save_once) writes a session that the       *)
(* manager has left only before the switch away from it has joined the     *)
(* worker.                                                                 *)
THEOREM AutoSaveTheorem == Spec => []AutoSaveFollows
<1>1. IInv => AutoSaveFollows
  BY DEF IInv, WorkerInv, Follows, Leaving, AutoSaveFollows
<1> QED
  BY <1>1, Inductive, PTL

(* A turn that nothing overlapped and that failed leaves no message of its *)
(* own in memory (orchestrator.py, _rollback_turn_messages), whatever was  *)
(* said, loaded or rolled back since.                                      *)
THEOREM ForgottenTheorem == Spec => []FailedTurnForgotten
<1>1. TypeOK /\ TurnInv => FailedTurnForgotten
  BY DEF TypeOK, TurnInv, Undisturbed, TurnKept, Nowhere, Has, FailedTurnForgotten, Leaves,
          Turns
<1> QED
  BY <1>1, Inductive, PTL DEF IInv

(* A turn that nothing overlapped and that was written stays on disk,      *)
(* whoever writes its session afterwards, unless it was deleted or is in   *)
(* memory twice (orchestrator.py, process_user_input; session.py,          *)
(* _persist_session).                                                      *)
THEOREM StoredTheorem == Spec => []CompletedTurnStored
<1>1. TurnInv => CompletedTurnStored
  BY DEF TurnInv, Undisturbed, TurnKept, OnDisk, CompletedTurnStored, Turns
<1> QED
  BY <1>1, Inductive, PTL DEF IInv
=============================================================================
