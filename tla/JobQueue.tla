------------------------------- MODULE JobQueue -------------------------------
(***************************************************************************)
(* The background jobs of hexbench (src/hexbench/jobs.py): JobQueue keeps  *)
(* a log of JobRecords, runs the jobs on a ThreadPoolExecutor, and settles *)
(* each record in the done-callback of its future.                         *)
(*                                                                         *)
(* Threads: one caller per job (an HTTP request that calls submit), the    *)
(* pool's workers, and the closer that shutdown() starts.  A step is what  *)
(* one of them does while it holds the queue's lock, or one call into the  *)
(* executor.  A done-callback runs on whichever thread finished the        *)
(* future, or at once on the caller when the future is already finished    *)
(* by the time the callback is attached.                                   *)
(***************************************************************************)
EXTENDS Integers, Sequences, FiniteSets

CONSTANTS Jobs,        \* the jobs that clients submit
          Operation,   \* the catalogued operation each of them runs
          Workers,     \* the number of worker threads
          Limit        \* _HISTORY_LIMIT

ASSUME WorkersAssumption == Workers \in Nat \ {0}
ASSUME LimitAssumption == Limit \in Nat

VARIABLES
  pc,         \* where the caller of each job is
  state,      \* _records: the state of each job's record, or "absent"
  order,      \* _order
  raw,        \* _raw: the jobs whose payload waits to be collected
  exercised,  \* _exercised
  closed,     \* _closed
  pool,       \* the executor: "open", "draining" or "drained"
  queue,      \* its work queue
  future,     \* the future of each job
  settle,     \* how far its done-callback is
  taken       \* history: the jobs whose payload was handed over

logVars  == <<state, order, raw, exercised>>
poolVars == <<pool, queue, future>>
vars == <<pc, logVars, closed, poolVars, settle, taken>>

Active    == {"pending", "running"}
Terminal  == {"done", "failed"}
Succeeded == {"plain", "binary"}
Finished  == Succeeded \cup {"error", "cancelled"}

ThreadsTypeOK ==
  /\ pc \in [Jobs -> {"new", "registered", "queued", "settling", "returned", "refused"}]
  /\ state \in [Jobs -> {"absent"} \cup Active \cup Terminal]
  /\ raw \in SUBSET Jobs
  /\ exercised \in SUBSET {Operation[j] : j \in Jobs}
  /\ closed \in BOOLEAN
  /\ pool \in {"open", "draining", "drained"}
  /\ queue \in Seq(Jobs)
  /\ future \in [Jobs -> {"none", "pending", "taken", "running"} \cup Finished]
  /\ settle \in [Jobs -> {"none", "due", "stored", "over"}]
  /\ taken \in SUBSET Jobs

(* The _order deque lists the records and nothing else, each once: a       *)
(* withdrawn or evicted job leaves both (submit, _evict).                  *)
TypeOK ==
  /\ ThreadsTypeOK
  /\ order \in Seq(Jobs)
  /\ {order[i] : i \in DOMAIN order} = {j \in Jobs : state[j] # "absent"}
  /\ \A i, k \in DOMAIN order : order[i] = order[k] => i = k

Init ==
  /\ pc = [j \in Jobs |-> "new"]
  /\ state = [j \in Jobs |-> "absent"]
  /\ order = <<>>
  /\ raw = {}
  /\ exercised = {}
  /\ closed = FALSE
  /\ pool = "open"
  /\ queue = <<>>
  /\ future = [j \in Jobs |-> "none"]
  /\ settle = [j \in Jobs |-> "none"]
  /\ taken = {}

-------------------------------------------------------------------------------
(* The log.                                                                *)

(* Mutants: a scan that stops at the first active record; one that asks    *)
(* for no state.                                                           *)
DroppedUpToActive(o, s) ==
  {o[i] : i \in {k \in DOMAIN o : k <= Len(o) - Limit /\ \A m \in 1..k : s[o[m]] \notin Active}}
DroppedOldest(o, s) == {o[i] : i \in {k \in DOMAIN o : k <= Len(o) - Limit}}

(* The scan of _evict along the order o: how many of its first i entries   *)
(* it has dropped, each of them not active, until as many are gone as o    *)
(* exceeds the limit by.                                                   *)
Evicted(o, s) ==
  LET upto[i \in 0..Len(o)] ==
        IF i = 0 THEN 0
        ELSE IF s[o[i]] \notin Active /\ upto[i - 1] < Len(o) - Limit
             THEN upto[i - 1] + 1
             ELSE upto[i - 1]
  IN upto

Dropped(o, s) ==
  LET gone == Evicted(o, s) IN {o[i] : i \in {k \in DOMAIN o : gone[k - 1] < gone[k]}}

(* The order o without the jobs in S.                                      *)
Without(o, S) ==
  LET kept[i \in 0..Len(o)] ==
        IF i = 0 THEN <<>>
        ELSE IF o[i] \in S THEN kept[i - 1] ELSE Append(kept[i - 1], o[i])
  IN kept[Len(o)]

(* _amend leaves a record alone that has left the log.                     *)
Amend(j, s) == state' = [state EXCEPT ![j] = IF @ = "absent" THEN @ ELSE s]

-------------------------------------------------------------------------------
(* submit(), on the caller's thread.                                       *)

Refuse(j) ==
  /\ pc[j] = "new" /\ closed
  /\ pc' = [pc EXCEPT ![j] = "refused"]
  /\ UNCHANGED <<logVars, closed, poolVars, settle, taken>>

Register(j) ==
  LET registered == [state EXCEPT ![j] = "pending"]
      log == Append(order, j)
      dropped == Dropped(log, registered)
  IN  /\ pc[j] = "new" /\ ~closed
      /\ pc' = [pc EXCEPT ![j] = "registered"]
      /\ state' = [i \in Jobs |-> IF i \in dropped THEN "absent" ELSE registered[i]]
      /\ order' = Without(log, dropped)
      /\ raw' = raw \ dropped
      /\ UNCHANGED <<exercised, closed, poolVars, settle, taken>>

Enqueue(j) ==
  /\ pc[j] = "registered" /\ pool = "open"
  /\ pc' = [pc EXCEPT ![j] = "queued"]
  /\ queue' = Append(queue, j)
  /\ future' = [future EXCEPT ![j] = "pending"]
  /\ UNCHANGED <<logVars, closed, pool, settle, taken>>

(* The executor was shut down since the queue was found open: it raises    *)
(* once its own shutdown has let go of its lock.                           *)
Withdraw(j) ==
  /\ pc[j] = "registered" /\ pool = "drained"
  /\ pc' = [pc EXCEPT ![j] = "refused"]
  /\ state' = [state EXCEPT ![j] = "absent"]
  /\ order' = Without(order, {j})
  /\ UNCHANGED <<raw, exercised, closed, poolVars, settle, taken>>

(* Mutant: a callback attached to a finished future is not run.            *)
AttachOnly(j) ==
  /\ pc[j] = "queued"
  /\ pc' = [pc EXCEPT ![j] = "returned"]
  /\ UNCHANGED <<logVars, closed, poolVars, settle, taken>>

Attach(j) ==
  /\ pc[j] = "queued"
  /\ IF future[j] \in Finished
       THEN /\ pc' = [pc EXCEPT ![j] = "settling"]
            /\ settle' = [settle EXCEPT ![j] = "due"]
       ELSE /\ pc' = [pc EXCEPT ![j] = "returned"]
            /\ UNCHANGED settle
  /\ UNCHANGED <<logVars, closed, poolVars, taken>>

-------------------------------------------------------------------------------
(* The executor, and _run on a worker of it.                               *)

Settling(j) == settle[j] \in {"due", "stored"}

(* The jobs a worker is inside: their run, or their done-callback if it    *)
(* was attached when the run ended.                                        *)
Occupied == {j \in Jobs : \/ future[j] \in {"taken", "running"}
                          \/ /\ future[j] \in Succeeded \cup {"error"}
                             /\ Settling(j) /\ pc[j] = "returned"}

(* Resolving a future invokes the done-callback that is attached to it.    *)
Resolve(j, outcome) ==
  /\ future' = [future EXCEPT ![j] = outcome]
  /\ settle' = [settle EXCEPT ![j] = IF pc[j] = "returned" THEN "due" ELSE @]

Take(j) ==
  /\ queue # <<>> /\ j = Head(queue)
  /\ Cardinality(Occupied) < Workers
  /\ queue' = Tail(queue)
  /\ future' = [future EXCEPT ![j] = "taken"]
  /\ UNCHANGED <<pc, logVars, closed, pool, settle, taken>>

MarkRunning(j) ==
  /\ future[j] = "taken"
  /\ future' = [future EXCEPT ![j] = "running"]
  /\ Amend(j, "running")
  /\ UNCHANGED <<pc, order, raw, exercised, closed, pool, queue, settle, taken>>

RunEnds(j) ==
  /\ future[j] = "running"
  /\ \E outcome \in Succeeded \cup {"error"} : Resolve(j, outcome)
  /\ UNCHANGED <<pc, logVars, closed, pool, queue, taken>>

-------------------------------------------------------------------------------
(* _settle, on the thread that runs the done-callback.                     *)

Settled(j) ==
  /\ settle' = [settle EXCEPT ![j] = "over"]
  /\ pc' = [pc EXCEPT ![j] = IF @ = "settling" THEN "returned" ELSE @]

(* Mutants: the job is counted, not its operation; the record is done      *)
(* before the result is stored.                                            *)
StoreJob(j) ==
  /\ settle[j] = "due" /\ future[j] \in Succeeded
  /\ exercised' = exercised \cup {j}
  /\ raw' = IF future[j] = "binary" THEN raw \cup {j} ELSE raw
  /\ settle' = [settle EXCEPT ![j] = "stored"]
  /\ UNCHANGED <<pc, state, order, closed, poolVars, taken>>
StoreAfterDone(j) ==
  /\ settle[j] = "due" /\ future[j] \in Succeeded
  /\ Amend(j, "done")
  /\ settle' = [settle EXCEPT ![j] = "stored"]
  /\ UNCHANGED <<pc, order, raw, exercised, closed, poolVars, taken>>

StoreResult(j) ==
  /\ settle[j] = "due" /\ future[j] \in Succeeded
  /\ exercised' = exercised \cup {Operation[j]}
  /\ raw' = IF future[j] = "binary" THEN raw \cup {j} ELSE raw
  /\ settle' = [settle EXCEPT ![j] = "stored"]
  /\ UNCHANGED <<pc, state, order, closed, poolVars, taken>>

RecordDone(j) ==
  /\ settle[j] = "stored"
  /\ Amend(j, "done")
  /\ Settled(j)
  /\ UNCHANGED <<order, raw, exercised, closed, poolVars, taken>>

RecordFailed(j) ==
  /\ settle[j] = "due" /\ future[j] \notin Succeeded
  /\ Amend(j, "failed")
  /\ Settled(j)
  /\ UNCHANGED <<order, raw, exercised, closed, poolVars, taken>>

-------------------------------------------------------------------------------
(* Collecting a payload, and shutting down.                                *)

TakeRaw(j) ==
  /\ j \in raw
  /\ raw' = raw \ {j}
  /\ taken' = taken \cup {j}
  /\ UNCHANGED <<pc, state, order, exercised, closed, poolVars, settle>>

Shutdown ==
  /\ ~closed
  /\ closed' = TRUE
  /\ UNCHANGED <<pc, logVars, poolVars, settle, taken>>

(* The closer holds the executor's lock from here until it has emptied the *)
(* work queue.  It runs the done-callback of what it cancels before it     *)
(* goes on to the next.                                                    *)
CloseExecutor ==
  /\ closed /\ pool = "open"
  /\ pool' = "draining"
  /\ UNCHANGED <<pc, logVars, closed, queue, future, settle, taken>>

CloserSettling == \E j \in Jobs : future[j] = "cancelled" /\ Settling(j) /\ pc[j] = "returned"

CancelNext(j) ==
  /\ pool = "draining" /\ ~CloserSettling
  /\ queue # <<>> /\ j = Head(queue)
  /\ queue' = Tail(queue)
  /\ Resolve(j, "cancelled")
  /\ UNCHANGED <<pc, logVars, closed, pool, taken>>

Drain ==
  /\ pool = "draining" /\ ~CloserSettling /\ queue = <<>>
  /\ pool' = "drained"
  /\ UNCHANGED <<pc, logVars, closed, queue, future, settle, taken>>

-------------------------------------------------------------------------------
Caller(j) == Refuse(j) \/ Register(j) \/ Enqueue(j) \/ Withdraw(j) \/ Attach(j)
Runs(j)   == Take(j) \/ MarkRunning(j) \/ RunEnds(j)
Settles(j) == StoreResult(j) \/ RecordDone(j) \/ RecordFailed(j)
Closer    == CloseExecutor \/ Drain \/ \E j \in Jobs : CancelNext(j)

(* Every request was answered, the pool is shut down and nobody collects.  *)
AllOver ==
  /\ \A j \in Jobs : pc[j] \in {"returned", "refused"} /\ ~Settling(j)
  /\ pool = "drained" /\ Occupied = {} /\ raw = {}
  /\ UNCHANGED vars

Next ==
  \/ \E j \in Jobs : Caller(j) \/ Runs(j) \/ Settles(j) \/ TakeRaw(j)
  \/ Shutdown
  \/ Closer
  \/ AllOver

(* Threads run: a caller that entered submit() goes on, a free worker      *)
(* takes the next job, an invocation ends (the engine call returns), a     *)
(* done-callback that began ends, the closer goes on.  Nobody has to call  *)
(* shutdown() or to collect a payload.                                     *)
Fairness ==
  /\ \A j \in Jobs : /\ WF_vars(Enqueue(j) \/ Withdraw(j) \/ Attach(j))
                     /\ WF_vars(Runs(j))
                     /\ WF_vars(Settles(j))
  /\ WF_vars(Closer)

Spec == Init /\ [][Next]_vars
FairSpec == Spec /\ Fairness

-------------------------------------------------------------------------------
(* A binary payload belongs to a record a client can still poll: none is   *)
(* left behind by eviction, and none arrives for a job that was evicted or *)
(* refused (_evict, _succeed).  ImplementsLog implies it.                  *)
PayloadHasRecord == \A j \in raw : state[j] # "absent"

(* A job reported done has been counted, and its payload is waiting or was *)
(* handed over: a poll that answers "done" never comes too early           *)
(* (_succeed, take_raw).                                                   *)
DoneIsComplete ==
  \A j \in Jobs : state[j] = "done" =>
    /\ Operation[j] \in exercised
    /\ future[j] = "binary" => j \in raw \cup taken

(* take_raw hands each payload over once, as ImplementsLog says too.       *)
HandedOverOnce == raw \cap taken = {}

(* After a submission the log exceeds its limit only when every record in  *)
(* it is active: one long job at its head keeps nothing else in it         *)
(* (_evict).                                                               *)
EvictionTrims ==
  [][\A j \in Jobs : pc[j] = "new" /\ pc'[j] = "registered" =>
       \/ Len(order') <= Limit
       \/ \A i \in DOMAIN order' : state'[order'[i]] \in Active]_vars

(* Every job submit() registered is settled or withdrawn, whoever finishes *)
(* its future first and whenever shutdown() comes: none stays pending or   *)
(* running for ever (submit, _settle, shutdown).                           *)
EveryJobSettles ==
  \A j \in Jobs : pc[j] = "registered" ~> state[j] \notin Active

-------------------------------------------------------------------------------
(* The queue implements the job log.                                       *)
Status ==
  [j \in Jobs |-> IF state[j] # "absent" THEN state[j]
                  ELSE IF pc[j] = "new" THEN "new" ELSE "gone"]
Payload ==
  [j \in Jobs |-> IF j \in raw THEN "held"
                  ELSE IF j \in taken THEN "taken"
                  ELSE IF settle[j] \in {"stored", "over"} /\ future[j] = "binary" THEN "lost"
                  ELSE "none"]

Log == INSTANCE JobLog WITH status <- Status, payload <- Payload

(* The queue keeps what JobLog promises: a job goes from pending through   *)
(* running to its end, only a finished job is forgotten, the meter counts  *)
(* before the job is done and never back, a payload is handed over once.   *)
ImplementsLog == Log!Spec
===============================================================================
