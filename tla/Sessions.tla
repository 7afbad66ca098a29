------------------------------ MODULE Sessions ------------------------------
(***************************************************************************)
(* Sessions: the Session objects in memory, the SessionStore rows on disk, *)
(* the SessionManager between them with its auto-save thread               *)
(* (core/session.py), and the operations of core/orchestrator.py that use  *)
(* it: user turns, start_session, load_session, save_session, the deletion *)
(* in ui/session_manager.py and the shutdown sequence of main.py.          *)
(*                                                                         *)
(* An operation is a coroutine.  What it does between two awaits is one    *)
(* step; the work it sends to a thread (a write, a read, the start and the *)
(* stop of the auto-save worker) is a step of its own.  Operations overlap *)
(* at their awaits, and the auto-save workers run all the time.            *)
(***************************************************************************)
EXTENDS Integers, Sequences, FiniteSets

CONSTANTS Ops,         \* the operations requested
          Kind,        \* what each of them is
          Target,      \* the session it creates, loads or deletes
          Ids,         \* session ids
          First,       \* the Session object in use at the beginning
          FirstId,     \* its id
          Saves,       \* bound: writes of one auto-save worker
          Days,        \* bound: days that pass
          Retention,   \* days cleanup() keeps a session
          None

Kinds == {"turn", "start", "load", "save", "delete", "quit"}
Turns == {o \in Ops : Kind[o] = "turn"}

ASSUME KindAssumption == Kind \in [Ops -> Kinds]
ASSUME TargetAssumption ==
  /\ Target \in [Ops -> Ids]
  /\ FirstId \in Ids
  /\ \A o \in Ops : Kind[o] = "start" =>
       Target[o] # FirstId /\ \A p \in Ops \ {o} : Kind[p] = "start" => Target[p] # Target[o]
ASSUME BoundAssumption == Saves \in Nat /\ Days \in Nat /\ Retention \in Nat
ASSUME NoneAssumption == First \notin Ops /\ None \notin Ops \cup {First}

(* An operation that creates a Session object or an auto-save worker names *)
(* it.                                                                     *)
Objects == Ops \cup {First}
Workers == Ops \cup {First}
Sid(o)  == IF o = First THEN FirstId ELSE Target[o]

VARIABLES
  pc,         \* where each operation is
  hold,       \* the session it is about to write
  waitFor,    \* the worker it joins
  home,       \* history: the session a turn began in
  messages,   \* Session.messages of each object
  stamp,      \* Session.updated_at of each object, as a day
  born,       \* the objects that exist
  rows,       \* the sessions table
  mgr,        \* SessionManager._current
  orch,       \* Orchestrator._current_session
  slot,       \* SessionManager._autosave_thread
  stop,       \* SessionManager._autosave_stop
  worker,     \* where each auto-save worker is
  captured,   \* the session it is about to write
  saved,      \* how often it has written
  today,
  disturbed,  \* history: turns that overlapped a switch, a quit or another turn
  erased,     \* history: sessions whose row was deleted
  used,       \* history: the day the messages of a row last changed
  contended   \* history: a stop of the worker fell into the work of another, or gave up

opVars     == <<pc, hold, waitFor>>
memory     == <<messages, stamp, born>>
managerVars == <<mgr, orch, slot, stop>>
workerVars == <<worker, captured, saved>>
history    == <<home, disturbed, erased, used, contended>>
vars == <<opVars, memory, rows, managerVars, workerVars, today, history>>

(* A message belongs to a turn; one read back from a row is another object *)
(* than the one its turn appended.                                         *)
Message == [turn : Ops, copy : BOOLEAN]
Own(t)  == [turn |-> t, copy |-> FALSE]
Absent  == [messages |-> <<>>, stamp |-> -1]
Row     == [messages : Seq(Message), stamp : Nat]

OpPlaces == {"new", "listed", "running", "answered", "flush", "create", "read", "adopt", "persist",
             "stop", "join", "spawn", "switch", "forget", "erase", "cleanup", "leave",
             "close", "done", "failed", "unsaved"}
WorkerPlaces == {"none", "checking", "waiting", "saving", "dead"}
Alive(w) == worker[w] \in {"checking", "waiting", "saving"}

TypeOK ==
  /\ pc \in [Ops -> OpPlaces]
  /\ hold \in [Ops -> Objects \cup {None}]
  /\ waitFor \in [Ops -> Workers \cup {None}]
  /\ home \in [Ops -> Objects \cup {None}]
  /\ messages \in [Objects -> Seq(Message)]
  /\ stamp \in [Objects -> Nat]
  /\ born \subseteq Objects
  /\ rows \in [Ids -> Row \cup {Absent}]
  /\ mgr \in born \cup {None}
  /\ orch \in born \cup {None}
  /\ slot \in Workers \cup {None}
  /\ stop \in BOOLEAN
  /\ worker \in [Workers -> WorkerPlaces]
  /\ captured \in [Workers -> Objects \cup {None}]
  /\ saved \in [Workers -> 0..Saves]
  /\ today \in 0..Days
  /\ disturbed \subseteq Turns
  /\ erased \subseteq Ids
  /\ used \in [Ids -> 0..Days]
  /\ contended \in BOOLEAN

(* One session is in use, just started and saved; the others are on disk   *)
(* unless an operation is going to create them.                            *)
Init ==
  /\ pc = [o \in Ops |-> "new"]
  /\ hold = [o \in Ops |-> None]
  /\ waitFor = [o \in Ops |-> None]
  /\ home = [o \in Ops |-> None]
  /\ messages = [o \in Objects |-> <<>>]
  /\ stamp = [o \in Objects |-> 0]
  /\ born = {First}
  /\ rows = [i \in Ids |-> IF \E o \in Ops : Kind[o] = "start" /\ Target[o] = i THEN Absent
                           ELSE [messages |-> <<>>, stamp |-> 0]]
  /\ mgr = First
  /\ orch = First
  /\ slot = First
  /\ stop = FALSE
  /\ worker = [w \in Workers |-> IF w = First THEN "checking" ELSE "none"]
  /\ captured = [w \in Workers |-> None]
  /\ saved = [w \in Workers |-> 0]
  /\ today = 0
  /\ disturbed = {}
  /\ erased = {}
  /\ used = [i \in Ids |-> 0]
  /\ contended = FALSE

-----------------------------------------------------------------------------
(* Overlaps, for the history. *)

Busy(o) == pc[o] \notin {"new", "listed", "done", "failed", "unsaved"}
Disturbs(o) == Kind[o] \in {"turn", "start", "load", "quit"}
Overlaps(o) ==
  IF ~Disturbs(o) THEN {}
  ELSE {t \in Turns : Busy(t)}
       \cup {t \in Turns : t = o /\ \E p \in Ops : Busy(p) /\ Disturbs(p)}

Goto(o, place) == pc' = [pc EXCEPT ![o] = place]

(* The first step of an operation. *)
Begins(o, kind, place) ==
  /\ pc[o] = "new"
  /\ Kind[o] = kind
  /\ Goto(o, place)
  /\ disturbed' = disturbed \cup Overlaps(o)

-----------------------------------------------------------------------------
(* User turns. *)

Say(s, t) == messages' = [messages EXCEPT ![s] = Append(@, Own(t))]

(* process_user_input and _run_user_turn: the user message is appended.    *)
TurnBegins(t) ==
  /\ orch # None
  /\ Begins(t, "turn", "running")
  /\ Say(orch, t)
  /\ home' = [home EXCEPT ![t] = orch]
  /\ UNCHANGED <<hold, waitFor, stamp, born, rows, managerVars, workerVars, today, erased, used, contended>>

TurnRefused(t) ==
  /\ orch = None
  /\ Begins(t, "turn", "failed")
  /\ UNCHANGED <<hold, waitFor, memory, rows, managerVars, workerVars, today, home, erased, used, contended>>

(* _run_agent_loop appends responses and tool results to whatever session  *)
(* is current by then, one round standing for all.                         *)
TurnAnswers(t) ==
  /\ pc[t] = "running"
  /\ orch # None
  /\ Say(orch, t)
  /\ Goto(t, "answered")
  /\ UNCHANGED <<hold, waitFor, stamp, born, rows, managerVars, workerVars, today, history>>

(* Mutant of TurnSucceeds: the turn is not written.                        *)
TurnSucceedsUnwritten(t) ==
  /\ pc[t] \in {"running", "answered"}
  /\ orch # None
  /\ Say(orch, t)
  /\ Goto(t, "done")
  /\ UNCHANGED <<hold, waitFor, stamp, born, rows, managerVars, workerVars, today, history>>

(* The last response ends the turn, which writes the session then current. *)
TurnSucceeds(t) ==
  /\ pc[t] \in {"running", "answered"}
  /\ orch # None
  /\ Say(orch, t)
  /\ hold' = [hold EXCEPT ![t] = orch]
  /\ Goto(t, "persist")
  /\ UNCHANGED <<waitFor, stamp, born, rows, managerVars, workerVars, today, history>>

(* Mutant of Rollback: the user message of a failed turn is kept.          *)
RollbackReplies(s, t) ==
  LET Mine == {k \in 1..Len(s) : \A j \in k..Len(s) : s[j] = Own(t)}
  IN  SubSeq(s, 1, Len(s) - (IF Mine = {} THEN 0 ELSE Cardinality(Mine) - 1))

(* _rollback_turn_messages: the turn's own messages at the end of the list *)
(* are removed.                                                            *)
Rollback(s, t) ==
  LET Mine == {k \in 1..Len(s) : \A j \in k..Len(s) : s[j] = Own(t)}
  IN  SubSeq(s, 1, Len(s) - Cardinality(Mine))

(* A cancel, a timeout or an error ends the turn: the session that is      *)
(* current by then is rolled back.                                         *)
TurnFails(t) ==
  /\ pc[t] \in {"running", "answered"}
  /\ Goto(t, "failed")
  /\ messages' = IF orch = None THEN messages
                 ELSE [messages EXCEPT ![orch] = Rollback(@, t)]
  /\ UNCHANGED <<hold, waitFor, stamp, born, rows, managerVars, workerVars, today, history>>

-----------------------------------------------------------------------------
(* Operations of the SessionManager. *)

(* save(): nothing without a current session.                              *)
SaveBegins(o) ==
  /\ Begins(o, "save", IF mgr = None THEN "done" ELSE "persist")
  /\ hold' = [hold EXCEPT ![o] = mgr]
  /\ UNCHANGED <<waitFor, memory, rows, managerVars, workerVars, today, home, erased, used, contended>>

(* create() and load() write the current session before they leave it.     *)
SwitchBegins(o, kind, next) ==
  /\ Begins(o, kind, IF mgr = None THEN next ELSE "flush")
  /\ hold' = [hold EXCEPT ![o] = mgr]
  /\ UNCHANGED <<waitFor, memory, rows, managerVars, workerVars, today, home, erased, used, contended>>

StartBegins(o) == SwitchBegins(o, "start", "create")
LoadBegins(o)  == SwitchBegins(o, "load", "read")

(* The deletion dialog opens and lists the sessions; it protects the one   *)
(* that is current at this moment.                                         *)
DialogOpens(o) ==
  /\ pc[o] = "new"
  /\ Kind[o] = "delete"
  /\ orch # None => Sid(orch) # Target[o]
  /\ \A q \in Ops : Kind[q] = "quit" => pc[q] = "new"
  /\ Goto(o, "listed")
  /\ UNCHANGED <<hold, waitFor, memory, rows, managerVars, workerVars, today, history>>

(* delete(): when the session is the manager's current one, the worker is  *)
(* stopped and the session forgotten first.                                *)
DeleteBegins(o) ==
  /\ pc[o] = "listed"
  /\ Goto(o, IF mgr # None /\ Sid(mgr) = Target[o] THEN "stop" ELSE "erase")
  /\ UNCHANGED <<hold, waitFor, memory, rows, managerVars, workerVars, today, history>>

(* Orchestrator.shutdown, then SessionManager.close.                       *)
QuitBegins(o) ==
  /\ Begins(o, "quit", IF orch = None THEN "cleanup" ELSE "persist")
  /\ hold' = [hold EXCEPT ![o] = orch]
  /\ UNCHANGED <<waitFor, memory, rows, managerVars, workerVars, today, home, erased, used, contended>>

(* _persist_session under the store lock: the row becomes what the session *)
(* is at that moment.                                                      *)
Authors(s) == [k \in 1..Len(s) |-> s[k].turn]
Persist(o) ==
  /\ rows' = [rows EXCEPT ![Sid(o)] = [messages |-> messages[o], stamp |-> stamp[o]]]
  /\ used' = [used EXCEPT ![Sid(o)] =
                 IF Authors(rows[Sid(o)].messages) = Authors(messages[o]) THEN @ ELSE today]

AfterWrite(o) ==
  CASE Kind[o] \in {"turn", "save"}                -> "done"
    [] Kind[o] = "start" /\ pc[o] = "flush"        -> "create"
    [] Kind[o] = "start" /\ pc[o] = "persist"      -> "stop"
    [] Kind[o] = "load"                            -> "read"
    [] Kind[o] = "quit"  /\ pc[o] = "persist"      -> "cleanup"
    [] Kind[o] = "quit"  /\ pc[o] = "flush"        -> "forget"

Write(o) ==
  /\ pc[o] \in {"flush", "persist"}
  /\ Persist(hold[o])
  /\ Goto(o, AfterWrite(o))
  /\ hold' = [hold EXCEPT ![o] = None]
  /\ UNCHANGED <<waitFor, memory, managerVars, workerVars, today, home, disturbed, erased,
                 contended>>

(* The transaction is rolled back and the error ends the operation; only   *)
(* shutdown() goes on.                                                     *)
WriteFails(o) ==
  /\ pc[o] \in {"flush", "persist"}
  /\ Goto(o, IF Kind[o] = "turn" THEN "unsaved"
             ELSE IF Kind[o] = "quit" /\ pc[o] = "persist" THEN "cleanup" ELSE "failed")
  /\ hold' = [hold EXCEPT ![o] = None]
  /\ UNCHANGED <<waitFor, memory, rows, managerVars, workerVars, today, history>>

(* create(): a new session becomes the current one and is written.         *)
Create(o) ==
  /\ pc[o] = "create"
  /\ born' = born \cup {o}
  /\ stamp' = [stamp EXCEPT ![o] = today]
  /\ mgr' = o
  /\ hold' = [hold EXCEPT ![o] = o]
  /\ Goto(o, "persist")
  /\ UNCHANGED <<waitFor, messages, rows, orch, slot, stop, workerVars, today, history>>

(* load(): the row is read in a thread into a new object.                  *)
ReadRow(o) ==
  /\ pc[o] = "read"
  /\ rows[Target[o]] # Absent
  /\ born' = born \cup {o}
  /\ stamp' = [stamp EXCEPT ![o] = rows[Target[o]].stamp]
  /\ LET stored == rows[Target[o]].messages
     IN  messages' = [messages EXCEPT ![o] =
                        [i \in 1..Len(stored) |-> [stored[i] EXCEPT !.copy = TRUE]]]
  /\ Goto(o, "adopt")
  /\ UNCHANGED <<hold, waitFor, rows, managerVars, workerVars, today, history>>

ReadNothing(o) ==
  /\ pc[o] = "read"
  /\ rows[Target[o]] = Absent
  /\ Goto(o, "failed")
  /\ UNCHANGED <<hold, waitFor, memory, rows, managerVars, workerVars, today, history>>

(* Mutant of Adopt: the auto-save worker is not restarted.                 *)
AdoptUnstopped(o) ==
  /\ pc[o] = "adopt"
  /\ mgr' = o
  /\ Goto(o, "switch")
  /\ UNCHANGED <<hold, waitFor, memory, rows, orch, slot, stop, workerVars, today, history>>

Adopt(o) ==
  /\ pc[o] = "adopt"
  /\ mgr' = o
  /\ Goto(o, "stop")
  /\ UNCHANGED <<hold, waitFor, memory, rows, orch, slot, stop, workerVars, today, history>>

(* start_session() and load_session() make it the orchestrator's session.  *)
Switch(o) ==
  /\ pc[o] = "switch"
  /\ orch' = o
  /\ Goto(o, "done")
  /\ UNCHANGED <<hold, waitFor, memory, rows, mgr, slot, stop, workerVars, today, history>>

(* delete() after the stop, close() after its last write.                  *)
Forget(o) ==
  /\ pc[o] = "forget"
  /\ mgr' = None
  /\ Goto(o, IF Kind[o] = "delete" THEN "erase" ELSE "done")
  /\ UNCHANGED <<hold, waitFor, memory, rows, orch, slot, stop, workerVars, today, history>>

Erase(o) ==
  /\ pc[o] = "erase"
  /\ rows' = [rows EXCEPT ![Target[o]] = Absent]
  /\ erased' = erased \cup {Target[o]}
  /\ Goto(o, "done")
  /\ UNCHANGED <<hold, waitFor, memory, managerVars, workerVars, today, home, disturbed, used, contended>>

(* cleanup(): rows whose updated_at is past the retention are deleted.     *)
Stale(i) == rows[i] # Absent /\ rows[i].stamp < today - Retention

Cleanup(o) ==
  /\ pc[o] = "cleanup"
  /\ rows' = [i \in Ids |-> IF Stale(i) THEN Absent ELSE rows[i]]
  /\ erased' = erased \cup {i \in Ids : Stale(i)}
  /\ Goto(o, "leave")
  /\ UNCHANGED <<hold, waitFor, memory, managerVars, workerVars, today, home, disturbed, used, contended>>

(* The finally of shutdown(); then close().                                *)
Leave(o) ==
  /\ pc[o] = "leave"
  /\ orch' = None
  /\ Goto(o, "stop")
  /\ UNCHANGED <<hold, waitFor, memory, rows, mgr, slot, stop, workerVars, today, history>>

CloseSaves(o) ==
  /\ pc[o] = "close"
  /\ Goto(o, IF mgr = None THEN "done" ELSE "flush")
  /\ hold' = [hold EXCEPT ![o] = mgr]
  /\ UNCHANGED <<waitFor, memory, rows, managerVars, workerVars, today, history>>

-----------------------------------------------------------------------------
(* The auto-save worker. *)

AfterStop(o) == CASE Kind[o] = "delete" -> "forget"
                  [] Kind[o] = "quit"   -> "close"
                  [] OTHER              -> "spawn"

(* From its stop on, until it has started a worker or has forgotten the    *)
(* session, an operation relies on there being no worker.                  *)
Stopped(o) == \/ pc[o] \in {"join", "spawn", "close", "forget"}
              \/ Kind[o] = "quit" /\ pc[o] = "flush"

(* _stop_auto_save_sync, under the lifecycle lock: the event wakes every   *)
(* worker that waits on it; the slot is emptied before the join.           *)
StopWorker(o) ==
  /\ pc[o] = "stop"
  /\ IF slot = None
     THEN /\ Goto(o, AfterStop(o))
          /\ UNCHANGED <<waitFor, slot, stop, worker>>
     ELSE /\ stop' = TRUE
          /\ slot' = None
          /\ waitFor' = [waitFor EXCEPT ![o] = slot]
          /\ worker' = [w \in Workers |-> IF worker[w] = "waiting" THEN "dead" ELSE worker[w]]
          /\ Goto(o, "join")
  /\ contended' = (contended \/ \E p \in Ops : Stopped(p))
  /\ UNCHANGED <<hold, memory, rows, mgr, orch, captured, saved, today, home, disturbed,
                 erased, used>>

(* Mutant of Join: the worker is not waited for.                           *)
JoinSkipped(o) ==
  /\ pc[o] = "join"
  /\ Goto(o, AfterStop(o))
  /\ waitFor' = [waitFor EXCEPT ![o] = None]
  /\ UNCHANGED <<hold, memory, rows, managerVars, workerVars, today, history>>

(* The worker has ended, or thread.join(timeout=5) gives up on one that is *)
(* held up, in a write for instance.                                       *)
Join(o) ==
  /\ pc[o] = "join"
  /\ contended' = (contended \/ Alive(waitFor[o]))
  /\ Goto(o, AfterStop(o))
  /\ waitFor' = [waitFor EXCEPT ![o] = None]
  /\ UNCHANGED <<hold, memory, rows, managerVars, workerVars, today, home, disturbed, erased, used>>

(* _start_auto_save_sync after the stop: the event is cleared for the new  *)
(* worker, which takes the slot.                                           *)
Spawn(o) ==
  /\ pc[o] = "spawn"
  /\ stop' = FALSE
  /\ slot' = o
  /\ worker' = [worker EXCEPT ![o] = "checking"]
  /\ Goto(o, "switch")
  /\ UNCHANGED <<hold, waitFor, memory, rows, mgr, orch, captured, saved, today, history>>

(* The head of the worker's loop.                                          *)
Check(w) ==
  /\ worker[w] = "checking"
  /\ worker' = [worker EXCEPT ![w] = IF stop THEN "dead" ELSE "waiting"]
  /\ UNCHANGED <<opVars, memory, rows, managerVars, captured, saved, today, history>>

(* The interval elapses: _auto_save_once takes the current session ...     *)
Wake(w) ==
  /\ worker[w] = "waiting"
  /\ saved[w] < Saves
  /\ mgr # None
  /\ worker' = [worker EXCEPT ![w] = "saving"]
  /\ captured' = [captured EXCEPT ![w] = mgr]
  /\ saved' = [saved EXCEPT ![w] = @ + 1]
  /\ UNCHANGED <<opVars, memory, rows, managerVars, today, history>>

(* ... and writes it; an error is logged and the loop goes on.             *)
AutoSave(w) ==
  /\ worker[w] = "saving"
  /\ Persist(captured[w]) \/ UNCHANGED <<rows, used>>
  /\ worker' = [worker EXCEPT ![w] = "checking"]
  /\ captured' = [captured EXCEPT ![w] = None]
  /\ UNCHANGED <<opVars, memory, managerVars, saved, today, home, disturbed, erased, contended>>

-----------------------------------------------------------------------------
(* A tag, a tool state or a bridge analysis sets updated_at.               *)
Touch ==
  /\ orch # None
  /\ stamp' = [stamp EXCEPT ![orch] = today]
  /\ UNCHANGED <<opVars, messages, born, rows, managerVars, workerVars, today, history>>

DayPasses ==
  /\ today < Days
  /\ today' = today + 1
  /\ UNCHANGED <<opVars, memory, rows, managerVars, workerVars, history>>

OpStep(o) ==
  \/ TurnBegins(o) \/ TurnRefused(o) \/ TurnAnswers(o) \/ TurnSucceeds(o) \/ TurnFails(o)
  \/ SaveBegins(o) \/ StartBegins(o) \/ LoadBegins(o) \/ QuitBegins(o)
  \/ DialogOpens(o) \/ DeleteBegins(o)
  \/ Write(o) \/ WriteFails(o)
  \/ Create(o) \/ ReadRow(o) \/ ReadNothing(o) \/ Adopt(o) \/ Switch(o)
  \/ Forget(o) \/ Erase(o) \/ Cleanup(o) \/ Leave(o) \/ CloseSaves(o)
  \/ StopWorker(o) \/ Join(o) \/ Spawn(o)

Next ==
  \/ \E o \in Ops : OpStep(o)
  \/ \E w \in Workers : Check(w) \/ Wake(w) \/ AutoSave(w)
  \/ Touch
  \/ DayPasses

Spec == Init /\ [][Next]_vars

-----------------------------------------------------------------------------
(* What holds. *)

(* Two objects stand for one session: it was loaded while, or after, it    *)
(* was in memory.                                                          *)
Aliased(i) == \E s, u \in born : s # u /\ Sid(s) = i /\ Sid(u) = i

(* A turn that succeeded and was written stays on disk, whatever writes    *)
(* its session afterwards (Save, auto-save, a switch away, shutdown), as   *)
(* long as nothing overlapped the turn, the session has one object and     *)
(* nothing deleted it (process_user_input, step 5).                        *)
CompletedTurnStored ==
  \A t \in Turns \ disturbed :
    LET i == Sid(home[t]) IN
    pc[t] = "done" /\ ~Aliased(i) /\ i \notin erased =>
      \E k \in 1..Len(rows[i].messages) : rows[i].messages[k].turn = t

(* A turn that failed and that nothing overlapped leaves no message of its *)
(* own in any session in memory (_rollback_turn_messages).                 *)
Leaves(t) == \E s \in born : \E k \in 1..Len(messages[s]) : messages[s][k] = Own(t)
FailedTurnForgotten == \A t \in Turns \ disturbed : pc[t] = "failed" => ~Leaves(t)

(* Unless a stop of the auto-save worker gave up waiting for it, or fell   *)
(* between the stop and the end of another switch, deletion or shutdown,   *)
(* at most one is alive, however its writes fall around the stop, the join *)
(* and the start of the next one (_stop_auto_save_sync).                   *)
OneWorker == \A v, w \in Workers : Alive(v) /\ Alive(w) => v = w
OneWorkerUncontended == contended \/ OneWorker

(* Auto-save writes a session the manager has left only while the switch   *)
(* away from it has yet to wait for the worker, or was given up: once      *)
(* load() or create() returns, nobody overwrites the row from a session    *)
(* that is no longer in use.                                               *)
AutoSaveFollows ==
  contended \/ \A w \in Workers : worker[w] = "saving" /\ captured[w] # mgr =>
    \E o \in Ops : Kind[o] \in {"start", "load"} /\ pc[o] \in {"persist", "stop", "join", "failed"}

(* What the documentation promises. *)

(* orchestrator.py:1441 "the on-disk state remains the last successful     *)
(* turn": no row holds a message of a turn that failed.                    *)
DiskHoldsSuccessfulTurns ==
  \A i \in Ids : \A k \in 1..Len(rows[i].messages) :
    pc[rows[i].messages[k].turn] # "failed"

(* ui/session_manager.py:1387 "This action cannot be undone."              *)
DeletedStaysDeleted ==
  \A o \in Ops : Kind[o] = "delete" /\ pc[o] = "done" => rows[Target[o]] = Absent

(* session.py:294 "When the session was last modified": shutdown removes   *)
(* no session whose messages changed within the retention.                 *)
CleanupSparesModified ==
  \A q \in Ops : Kind[q] = "quit" /\ pc[q] = "done" =>
    \A i \in erased : rows[i] = Absent => used[i] < today - Retention
=============================================================================
