-------------------------------- MODULE JobLog --------------------------------
(***************************************************************************)
(* What a hexbench JobQueue promises its clients, job by job: a job        *)
(* accepted is pending, then running, then done or failed; only a finished *)
(* job is ever forgotten, and a refused one was never run; an operation is *)
(* counted as exercised before its job is done, and never uncounted; a     *)
(* binary payload is handed over once, until its job is forgotten.         *)
(***************************************************************************)
CONSTANTS Jobs,        \* the jobs submitted
          Operation    \* the catalogued operation each of them runs

VARIABLES status, payload, exercised

vars == <<status, payload, exercised>>

Over == {"done", "failed"}

Init ==
  /\ status = [j \in Jobs |-> "new"]
  /\ payload = [j \in Jobs |-> "none"]
  /\ exercised = {}

(* A submission may age finished jobs, and their payloads, out of the log. *)
Accept(j) ==
  /\ status[j] = "new"
  /\ \E S \in SUBSET {i \in Jobs : status[i] \in Over} :
       /\ status' = [i \in Jobs |-> IF i = j THEN "pending"
                                    ELSE IF i \in S THEN "gone" ELSE status[i]]
       /\ payload' = [i \in Jobs |-> IF i \in S /\ payload[i] = "held" THEN "lost"
                                     ELSE payload[i]]
  /\ UNCHANGED exercised

Refuse(j) ==
  /\ status[j] \in {"new", "pending"}
  /\ status' = [status EXCEPT ![j] = "gone"]
  /\ UNCHANGED <<payload, exercised>>

Start(j) ==
  /\ status[j] = "pending"
  /\ status' = [status EXCEPT ![j] = "running"]
  /\ UNCHANGED <<payload, exercised>>

Produce(j) ==
  /\ status[j] = "running"
  /\ exercised' = exercised \cup {Operation[j]}
  /\ \/ UNCHANGED payload
     \/ payload[j] = "none" /\ payload' = [payload EXCEPT ![j] = "held"]
  /\ UNCHANGED status

Finish(j) ==
  /\ status[j] = "running"
  /\ Operation[j] \in exercised
  /\ status' = [status EXCEPT ![j] = "done"]
  /\ UNCHANGED <<payload, exercised>>

Fail(j) ==
  /\ status[j] \in {"pending", "running"}
  /\ status' = [status EXCEPT ![j] = "failed"]
  /\ UNCHANGED <<payload, exercised>>

Collect(j) ==
  /\ payload[j] = "held"
  /\ payload' = [payload EXCEPT ![j] = "taken"]
  /\ UNCHANGED <<status, exercised>>

Next ==
  \E j \in Jobs : Accept(j) \/ Refuse(j) \/ Start(j) \/ Produce(j) \/ Finish(j)
                    \/ Fail(j) \/ Collect(j)

Spec == Init /\ [][Next]_vars
===============================================================================
