----------------------------- MODULE McpServers -----------------------------
(***************************************************************************)
(* The connections to one configured MCP server: the supervisor task of    *)
(* each (mcp/connection.py, McpConnection), the manager's operations that  *)
(* create and tear them down (McpConnectionManager), the launch consent    *)
(* they ask for, and the end of the service (ui/mcp_service.py).           *)
(*                                                                         *)
(* Everything runs on one event loop.  "active" is the operation whose     *)
(* coroutine is running: until it awaits something nothing else runs.      *)
(* Servers do not share state, so one of them stands for all.              *)
(***************************************************************************)
EXTENDS Naturals, FiniteSets

CONSTANTS
  Ops,          \* operations, each requested once; a start's connection has its name
  None,
  KindsOf,      \* which kinds of operation each may be
  MaxAttempts   \* MAX_RECONNECT_ATTEMPTS

ASSUME AttemptsAssumption == MaxAttempts \in Nat \ {0}
ASSUME NoneAssumption == None \notin Ops

VARIABLES
  kind,         \* the kind of each operation
  op,           \* where each operation stands
  active,       \* the operation that is running, or None
  conn,         \* the McpConnection each operation made
  registered,   \* _connections[server_id], or None
  stopped,      \* the manager's _stopped
  closing,      \* the service's _stopped: nobody answers prompts any more
  trust,        \* what the consent store says of the launch
  overwritten   \* history: connections whose registration a start replaced unseen

operations == <<kind, op, active, registered, stopped, closing, overwritten>>
vars == <<operations, conn, trust>>

Kinds == {"boot", "start", "stop", "restart", "test", "quit"}

Pcs == {"idle", "reverting", "begin", "disconnect", "listenerEnd", "graceful", "join",
        "lateJoin", "told", "replaced", "removed", "settling", "failed", "timedOut",
        "abandoned", "bootEnd", "teardown", "ended"}

Sups == {"none", "created", "loop", "asking", "launching", "ready", "leaving", "backoff", "done"}

OpStates == [pc : Pcs, target : Ops \union {None}, then : Pcs,
             hadFailed : BOOLEAN, cancelled : BOOLEAN]

Connections ==
  [sup : Sups, why : {"stop", "fail", "cancel"},
   health : {"disconnected", "connecting", "ready", "failed"},
   stop : BOOLEAN, settled : BOOLEAN, task : BOOLEAN, cancelled : BOOLEAN,
   attempt : 0..(MaxAttempts - 1), follow : BOOLEAN, listener : BOOLEAN,
   dropped : BOOLEAN, broken : BOOLEAN, notice : {"none", "current", "old"}]

TypeOK ==
  /\ kind \in [Ops -> Kinds]
  /\ op \in [Ops -> OpStates]
  /\ active \in Ops \union {None}
  /\ conn \in [Ops -> Connections]
  /\ registered \in Ops \union {None}
  /\ stopped \in BOOLEAN
  /\ closing \in BOOLEAN
  /\ trust \in {"unknown", "allowed", "denied"}
  /\ overwritten \subseteq Ops

NewConn == [sup |-> "none", why |-> "stop", health |-> "disconnected", stop |-> FALSE,
            settled |-> FALSE, task |-> FALSE, cancelled |-> FALSE, attempt |-> 0,
            follow |-> FALSE, listener |-> FALSE, dropped |-> FALSE, broken |-> FALSE,
            notice |-> "none"]

Init ==
  /\ kind \in [Ops -> Kinds]
  /\ \A o \in Ops : kind[o] \in KindsOf[o]
  /\ op = [o \in Ops |-> [pc |-> "idle", target |-> None, then |-> "ended",
                          hadFailed |-> FALSE, cancelled |-> FALSE]]
  /\ active = None
  /\ conn = [o \in Ops |-> NewConn]
  /\ registered = None
  /\ stopped = FALSE
  /\ closing = FALSE
  /\ trust = "unknown"
  /\ overwritten = {}

\* The supervisor task exists and has not ended.
Alive(c) == conn[c].sup \notin {"none", "done"}
\* A child process may exist.
Child(c) == conn[c].sup \in {"launching", "ready", "leaving"}

\* The operator is being asked whether to launch.
Prompted(c) == conn[c].sup = "asking" /\ trust = "unknown" /\ ~closing

InFlight(o) == op[o].pc \notin {"idle", "ended"}

\* The supervisor task has ended; what only it looked at is forgotten.
Over(r, health, settled) ==
  [r EXCEPT !.sup = "done", !.health = health, !.settled = settled, !.cancelled = FALSE,
            !.why = "stop", !.attempt = 0, !.dropped = FALSE, !.broken = FALSE, !.notice = "none"]

-----------------------------------------------------------------------------
(* The supervisor of a connection.  Each action runs from one await to the *)
(* next; a cancelled task takes no other step than its cancellation.       *)

Step(c, from, r) ==
  /\ active = None
  /\ conn[c].sup = from
  /\ ~conn[c].cancelled
  /\ conn' = [conn EXCEPT ![c] = r]

\* _supervise_attempts: the head of the loop, and _serve_once as far as the consent.
BeginAttempt(c) ==
  /\ conn[c].sup \in {"created", "loop"}
  /\ Step(c, conn[c].sup,
       IF conn[c].stop
         THEN Over(conn[c], conn[c].health, TRUE)
         ELSE [conn[c] EXCEPT !.sup = "asking", !.health = "connecting", !.dropped = FALSE,
                              !.broken = FALSE,
                              !.notice = IF @ = "current" THEN "old" ELSE @])
  /\ UNCHANGED <<operations, trust>>

\* ensure_launch_consent: a recorded answer is used, or the operator approves.
Launch(c) ==
  /\ \/ trust = "allowed" /\ trust' = trust
     \/ trust # "denied" /\ ~closing /\ trust' = "allowed"
  /\ Step(c, "asking", [conn[c] EXCEPT !.sup = "launching"])
  /\ UNCHANGED operations

\* The launch is refused or blocked by the operator, by a recorded answer, or
\* because the service is closing: no further attempt is made.
Refused(c) ==
  /\ \/ trust = "unknown" /\ trust' \in {"unknown", "denied"} /\ (closing => trust' = "unknown")
     \/ trust = "denied" /\ trust' = trust
  /\ Step(c, "asking", Over(conn[c], "failed", TRUE))
  /\ UNCHANGED operations

\* The handshake and the tool listing are done, or fail or take too long.
Ready(c) ==
  /\ Step(c, "launching", [conn[c] EXCEPT !.sup = "ready", !.health = "ready",
                                          !.settled = TRUE, !.listener = @ \/ conn[c].follow])
  /\ UNCHANGED <<operations, trust>>

LaunchFails(c) ==
  /\ Step(c, "launching", [conn[c] EXCEPT !.sup = "leaving", !.why = "fail"])
  /\ UNCHANGED <<operations, trust>>

(* Mutant of Left: the listener is left to end by itself.                  *)
LeftListening(r, why) == [r EXCEPT !.sup = "leaving", !.why = why]

\* _hold_open ends: the listener is stopped and the transport is closed.
Left(r, why) == [r EXCEPT !.sup = "leaving", !.why = why, !.listener = FALSE]

HoldOpenEnds(c) ==
  /\ conn[c].stop \/ conn[c].dropped
  /\ Step(c, "ready", Left(conn[c], IF conn[c].stop THEN "stop" ELSE "fail"))
  /\ UNCHANGED <<operations, trust>>

\* _heartbeat finds the server unresponsive.
HeartbeatFails(c) ==
  /\ Step(c, "ready", Left(conn[c], "fail"))
  /\ UNCHANGED <<operations, trust>>

\* An attempt is under way whose loss would count.  While it is torn down
\* nobody looks at _dropped, and the next attempt clears it.
Attempted(c) == conn[c].sup \in {"launching", "ready"}

\* The server's stream ends, or a tool call finds the connection closed; the
\* notice of it is on its way.
StreamEnds(c) ==
  /\ conn[c].notice = "none"
  /\ active = None
  /\ Attempted(c)
  /\ conn' = [conn EXCEPT ![c].broken = TRUE, ![c].notice = "current"]
  /\ UNCHANGED <<operations, trust>>

(* Mutant of Concerns: a notice of an earlier attempt counts.              *)
ConcernsAny(r) == TRUE

\* Whether a notice is about the attempt in progress.
Concerns(r) == r.notice = "current"

\* _mark_dropped leaves alone what was told to stop, or is dropped already.
Droppable(r) == ~r.stop /\ ~r.dropped

\* _on_stream_closed compares the attempt, call_tool the client it called.
NoticeArrives(c) ==
  /\ active = None
  /\ conn[c].notice # "none"
  /\ conn' = [conn EXCEPT ![c].notice = "none",
                          ![c].dropped = @ \/ (Concerns(conn[c]) /\ Droppable(conn[c]))]
  /\ UNCHANGED <<operations, trust>>

\* _on_incoming: the session hands over an exception of its transport, which
\* counts against the attempt in progress, whatever its stream does.
FaultArrives(c) ==
  /\ active = None
  /\ Attempted(c)
  /\ Droppable(conn[c])
  /\ conn' = [conn EXCEPT ![c].broken = TRUE, ![c].dropped = TRUE]
  /\ UNCHANGED <<operations, trust>>

\* Whether the n-th failed attempt is followed by another.
Retries(r, n) == ~r.stop /\ n < MaxAttempts

\* The transport is closed.  A drop after a long time ready starts the count afresh.
Closed(c) ==
  /\ \/ /\ conn[c].why = "stop"
        /\ Step(c, "leaving", Over(conn[c], "disconnected", TRUE))
     \/ /\ conn[c].why = "fail"
        /\ \E n \in {conn[c].attempt + 1} \union (IF conn[c].health = "ready" THEN {1} ELSE {}) :
             Step(c, "leaving",
                  IF Retries(conn[c], n)
                    THEN [conn[c] EXCEPT !.sup = "backoff", !.health = "failed",
                                         !.settled = TRUE, !.attempt = n]
                    ELSE Over(conn[c], "failed", TRUE))
  /\ UNCHANGED <<operations, trust>>

\* The delay before the next attempt is over, or cut short by a stop.
BackoffEnds(c) ==
  /\ Step(c, "backoff", [conn[c] EXCEPT !.sup = "loop"])
  /\ UNCHANGED <<operations, trust>>

\* A cancellation is delivered.  A task that had not begun ends without setting
\* _settled; one with a transport closes it first.
CancelArrives(c) ==
  /\ active = None
  /\ conn[c].cancelled
  /\ \/ /\ conn[c].sup = "created"
        /\ conn' = [conn EXCEPT ![c] = Over(@, @.health, @.settled)]
     \/ /\ conn[c].sup \in {"loop", "asking", "backoff"}
        /\ conn' = [conn EXCEPT ![c] = Over(@, @.health, TRUE)]
     \/ /\ conn[c].sup \in {"launching", "ready", "leaving"}
        /\ conn' = [conn EXCEPT ![c] = [Left(@, "cancel") EXCEPT !.cancelled = FALSE]]
  /\ UNCHANGED <<operations, trust>>

\* The transport of a cancelled attempt is closed.
CancelledClosed(c) ==
  /\ conn[c].why = "cancel"
  /\ Step(c, "leaving", Over(conn[c], conn[c].health, TRUE))
  /\ UNCHANGED <<operations, trust>>

Supervisor(c) ==
  \/ BeginAttempt(c) \/ Launch(c) \/ Refused(c) \/ Ready(c) \/ LaunchFails(c)
  \/ HoldOpenEnds(c) \/ HeartbeatFails(c) \/ StreamEnds(c) \/ NoticeArrives(c)
  \/ FaultArrives(c) \/ Closed(c) \/ BackoffEnds(c) \/ CancelArrives(c) \/ CancelledClosed(c)

-----------------------------------------------------------------------------
(* The operations.  An operation runs until it waits; Then, Waits and Ends *)
(* say where it goes on, where it is suspended, and that it is over.       *)

Runs(o, pc) == active = o /\ op[o].pc = pc
Wakes(o, pc) == active = None /\ op[o].pc = pc /\ ~op[o].cancelled

Then(o, pc) == op' = [op EXCEPT ![o].pc = pc] /\ active' = o
Waits(o, pc) == op' = [op EXCEPT ![o].pc = pc] /\ active' = None
Ends(o) == op' = [op EXCEPT ![o].pc = "ended", ![o].target = None] /\ active' = None

\* Calls disconnect() of c, to go on at "then".
Disconnects(o, c, then) ==
  /\ op' = [op EXCEPT ![o].pc = "disconnect", ![o].target = c, ![o].then = then,
                      ![o].hadFailed = conn[c].health = "failed"]
  /\ active' = o

\* disconnect(): a listener is stopped first, which is waited for.
StopListener(o) ==
  /\ Runs(o, "disconnect")
  /\ conn[op[o].target].listener
  /\ conn' = [conn EXCEPT ![op[o].target].listener = FALSE]
  /\ Waits(o, "listenerEnd")
  /\ UNCHANGED <<kind, registered, stopped, closing, trust, overwritten>>

(* Mutant of Cancels: a task is told to stop and left to find out.         *)
CancelsNone(r) == FALSE

\* Whether disconnect() cancels the supervisor: not one that serves.
Cancels(r) == r.health # "ready"

\* The supervisor is told to stop; the first to tell takes the task, and cancels
\* it unless it is ready.  Any other finds nothing to wait for.
Tell(o) ==
  /\ \/ Runs(o, "disconnect") /\ ~conn[op[o].target].listener
     \/ Wakes(o, "listenerEnd")
  /\ LET c == op[o].target
         mine == conn[c].task /\ Alive(c)
     IN /\ conn' = [conn EXCEPT ![c].stop = TRUE, ![c].task = FALSE,
                                ![c].cancelled = @ \/ (mine /\ Cancels(conn[c]))]
        /\ \/ ~mine /\ Then(o, "told")
           \/ mine /\ conn[c].health = "ready" /\ Waits(o, "graceful")
           \/ mine /\ conn[c].health # "ready" /\ Waits(o, "join")
  /\ UNCHANGED <<kind, registered, stopped, closing, trust, overwritten>>

\* DISCONNECT_TIMEOUT_S is over.
GracefulTimeout(o) ==
  /\ Wakes(o, "graceful")
  /\ Alive(op[o].target)
  /\ conn' = [conn EXCEPT ![op[o].target].cancelled = TRUE]
  /\ Waits(o, "lateJoin")
  /\ UNCHANGED <<kind, registered, stopped, closing, trust, overwritten>>

Joined(o) ==
  /\ active = None
  /\ Wakes(o, "graceful") \/ Wakes(o, "join") \/ op[o].pc = "lateJoin"
  /\ ~Alive(op[o].target)
  /\ Then(o, "told")
  /\ UNCHANGED <<kind, conn, registered, stopped, closing, trust, overwritten>>

(* Mutant of HealthAfter: a disconnected server is disconnected.           *)
HealthAlwaysDisconnected(r) == "disconnected"

\* A connection that had failed stays so.
HealthAfter(r) == IF r.health = "failed" THEN "failed" ELSE "disconnected"

\* The end of disconnect().
Told(o) ==
  /\ Runs(o, "told")
  /\ conn' = [conn EXCEPT ![op[o].target].health = HealthAfter(conn[op[o].target])]
  /\ IF op[o].then = "ended" THEN Ends(o) ELSE Then(o, op[o].then)
  /\ UNCHANGED <<kind, registered, stopped, closing, trust, overwritten>>

\* start_server(): a connection of before is torn down first.
StartServer(o) ==
  /\ Runs(o, "begin")
  /\ \/ stopped /\ Ends(o)
     \/ ~stopped /\ registered # None /\ Disconnects(o, registered, "replaced")
     \/ ~stopped /\ registered = None /\ Then(o, "replaced")
  /\ UNCHANGED <<kind, conn, registered, stopped, closing, trust, overwritten>>

\* connect() as far as its first await, for the connection the operation makes.
Connects(o) ==
  /\ conn' = [conn EXCEPT ![o] = [NewConn EXCEPT !.sup = "created", !.task = TRUE,
                                                 !.health = "connecting"]]
  /\ Waits(o, "settling")

(* Mutant of Refuses: a shutdown during the teardown is not looked at.     *)
RefusesNever == FALSE

\* _refuse_if_stopped(), asked again after the teardown.
Refuses == stopped

RefusedStopped(o) ==
  /\ Runs(o, "replaced")
  /\ Refuses
  /\ Ends(o)
  /\ UNCHANGED <<kind, conn, registered, stopped, closing, trust, overwritten>>

\* The new connection is registered; whatever is registered by now is not looked at again.
Register(o) ==
  /\ Runs(o, "replaced")
  /\ ~Refuses
  /\ Connects(o)
  /\ registered' = o
  /\ overwritten' = overwritten \union ({registered} \ {None, op[o].target})
  /\ UNCHANGED <<kind, stopped, closing, trust>>

\* connect() fails: test_connection() disconnects all the same.
Fails(o) == IF kind[o] = "test" THEN Disconnects(o, o, "ended") ELSE Ends(o)

\* connect() goes on when the first attempt has settled; start_server() then listens.
Settle(o) ==
  /\ Wakes(o, "settling")
  /\ conn[o].settled
  /\ \/ /\ conn[o].stop
        /\ Fails(o)
        /\ conn' = conn
     \/ /\ ~conn[o].stop /\ conn[o].health # "ready"
        /\ Disconnects(o, o, "failed")
        /\ conn' = conn
     \/ /\ ~conn[o].stop /\ conn[o].health = "ready" /\ kind[o] = "test"
        /\ Disconnects(o, o, "ended")
        /\ conn' = conn
     \/ /\ ~conn[o].stop /\ conn[o].health = "ready" /\ kind[o] # "test"
        /\ conn' = [conn EXCEPT ![o].follow = TRUE,
                                ![o].listener = @ \/ conn[o].sup = "ready"]
        /\ Ends(o)
  /\ UNCHANGED <<kind, registered, stopped, closing, trust, overwritten>>

(* Mutant of TimesOut: only a handshake is timed.                          *)
HandshakeTimesOut(r) == r.sup = "launching"

\* The deadline runs until the first attempt has settled.
TimesOut(r) == ~r.settled

\* CONNECT_TIMEOUT_S is over; it does not run while the operator is asked.
ConnectTimeout(o) ==
  /\ Wakes(o, "settling")
  /\ TimesOut(conn[o])
  /\ ~Prompted(o)
  /\ IF conn[o].stop THEN Fails(o) ELSE Disconnects(o, o, "timedOut")
  /\ UNCHANGED <<kind, conn, registered, stopped, closing, trust, overwritten>>

TimedOut(o) ==
  /\ Runs(o, "timedOut")
  /\ conn' = [conn EXCEPT ![o].health = "failed"]
  /\ Fails(o)
  /\ UNCHANGED <<kind, registered, stopped, closing, trust, overwritten>>

ConnectFailed(o) ==
  /\ Runs(o, "failed")
  /\ Fails(o)
  /\ UNCHANGED <<kind, conn, registered, stopped, closing, trust, overwritten>>

-----------------------------------------------------------------------------
(* What is requested: by the settings dialog, at the start of the program  *)
(* and at its end.                                                         *)

Requested(o, k) == active = None /\ op[o].pc = "idle" /\ kind[o] = k

Start(o) ==
  /\ Requested(o, "start")
  /\ Then(o, "begin")
  /\ UNCHANGED <<kind, conn, registered, stopped, closing, trust, overwritten>>

\* stop_server(), and the first half of restart_server(): unregistered, then torn down.
Remove(o) ==
  /\ Requested(o, "stop") \/ Requested(o, "restart")
  /\ registered' = None
  /\ IF registered = None THEN Then(o, "removed") ELSE Disconnects(o, registered, "removed")
  /\ UNCHANGED <<kind, conn, stopped, closing, trust, overwritten>>

Removed(o) ==
  /\ Runs(o, "removed")
  /\ IF kind[o] = "restart" THEN Then(o, "begin") ELSE Ends(o)
  /\ UNCHANGED <<kind, conn, registered, stopped, closing, trust, overwritten>>

\* test_connection(): a connection that is never registered.
Test(o) ==
  /\ Requested(o, "test")
  /\ Connects(o)
  /\ UNCHANGED <<kind, registered, stopped, closing, trust, overwritten>>

\* McpService.start(), McpConnectionManager.start(): write grants are reverted first.
Boot(o) ==
  /\ Requested(o, "boot")
  /\ IF closing THEN Ends(o) ELSE Waits(o, "reverting")
  /\ UNCHANGED <<kind, conn, registered, stopped, closing, trust, overwritten>>

Reverted(o) ==
  /\ Wakes(o, "reverting")
  /\ Then(o, "begin")
  /\ UNCHANGED <<kind, conn, registered, stopped, closing, trust, overwritten>>

\* The start of the program is cancelled.  A connect is abandoned: _abandon(),
\* which nothing interrupts.  The end of a late teardown absorbs the cancellation.
BootCancelled(o) ==
  /\ active = None
  /\ op[o].cancelled
  /\ \/ /\ op[o].pc = "settling"
        /\ conn' = [conn EXCEPT ![o].stop = TRUE, ![o].task = FALSE,
                                ![o].cancelled = @ \/ (conn[o].task /\ Alive(o))]
        /\ op' = [op EXCEPT ![o].pc = "abandoned", ![o].cancelled = FALSE]
     \/ /\ op[o].pc = "lateJoin"
        /\ op' = [op EXCEPT ![o].cancelled = FALSE]
        /\ conn' = conn
     \/ /\ op[o].pc \in {"reverting", "listenerEnd", "graceful", "join"}
        /\ op' = [op EXCEPT ![o].pc = "ended", ![o].target = None, ![o].cancelled = FALSE]
        /\ conn' = conn
  /\ UNCHANGED <<kind, active, registered, stopped, closing, trust, overwritten>>

Abandoned(o) ==
  /\ Wakes(o, "abandoned")
  /\ ~Alive(o)
  /\ conn' = [conn EXCEPT ![o].health = "disconnected"]
  /\ Ends(o)
  /\ UNCHANGED <<kind, registered, stopped, closing, trust, overwritten>>

Booting == {b \in Ops : kind[b] = "boot" /\ InFlight(b)}

\* McpService.stop(): prompts are refused from here on, a start is cancelled and waited for.
Quit(o) ==
  /\ Requested(o, "quit")
  /\ closing' = TRUE
  /\ op' = [b \in Ops |-> IF b = o THEN [op[b] EXCEPT !.pc = "bootEnd"]
                          ELSE [op[b] EXCEPT !.cancelled = b \in Booting]]
  /\ active' = IF Booting = {} THEN o ELSE None
  /\ UNCHANGED <<kind, conn, registered, stopped, trust, overwritten>>

\* McpConnectionManager.stop(): what is registered is torn down by a task of its own.
StopAll(o) ==
  /\ Runs(o, "bootEnd") \/ (Wakes(o, "bootEnd") /\ Booting = {})
  /\ stopped' = TRUE
  /\ registered' = None
  /\ IF registered = None
       THEN Ends(o)
       ELSE /\ op' = [op EXCEPT ![o].pc = "teardown", ![o].target = registered]
            /\ active' = None
  /\ UNCHANGED <<kind, conn, closing, trust, overwritten>>

Teardown(o) ==
  /\ Wakes(o, "teardown")
  /\ Disconnects(o, op[o].target, "ended")
  /\ UNCHANGED <<kind, conn, registered, stopped, closing, trust, overwritten>>

\* What an operation does by itself, and what somebody asks for.
Operation(o) ==
  \/ StopListener(o) \/ Tell(o) \/ GracefulTimeout(o) \/ Joined(o) \/ Told(o)
  \/ StartServer(o) \/ RefusedStopped(o) \/ Register(o) \/ Settle(o) \/ ConnectTimeout(o)
  \/ TimedOut(o) \/ ConnectFailed(o) \/ Removed(o) \/ Reverted(o) \/ BootCancelled(o)
  \/ Abandoned(o) \/ StopAll(o) \/ Teardown(o)

Request(o) == Start(o) \/ Remove(o) \/ Test(o) \/ Boot(o) \/ Quit(o)

Next ==
  \/ \E o \in Ops : Request(o) \/ Operation(o)
  \/ \E c \in Ops : Supervisor(c)

Spec == Init /\ [][Next]_vars

(* The loop runs what can run and timers fire; a transport that is to be   *)
(* closed gets closed.  A recorded consent is used, and once the service   *)
(* closes every prompt is refused; before that the operator answers when   *)
(* he likes, or never.  Servers do what they like.                         *)
OwnSteps(c) ==
  \/ BeginAttempt(c) \/ HoldOpenEnds(c) \/ Closed(c) \/ BackoffEnds(c) \/ CancelArrives(c)
  \/ CancelledClosed(c) \/ Ready(c) \/ LaunchFails(c)

Fairness ==
  /\ \A o \in Ops : WF_vars(Operation(o))
  /\ \A c \in Ops : WF_vars(OwnSteps(c))
  /\ \A c \in Ops : WF_vars(~Prompted(c) /\ (Launch(c) \/ Refused(c)))

FairSpec == Spec /\ Fairness

-----------------------------------------------------------------------------
(* Properties.                                                             *)

Live(c) == Alive(c) /\ ~conn[c].stop

\* The operations that are responsible for a connection: its own, and any that
\* is tearing it down.
Responsible(o, c) == InFlight(o) /\ (o = c \/ op[o].target = c)

(* No connection is forgotten: one that goes on serving is the registered  *)
(* one, of a manager that was not stopped, or an operation in flight will  *)
(* see to it.  The only exception is a connection whose registration an    *)
(* overlapping start_server() replaced without looking (connection.py:2549). *)
NoStray ==
  \A c \in Ops : Live(c) => \/ registered = c /\ ~stopped
                            \/ c \in overwritten
                            \/ \E o \in Ops : Responsible(o, c)

(* connection.py:2450-2451: teardown is total, so that "no child process   *)
(* and no pending task outlives the call".  Even when every operation has  *)
(* come to its end a replaced connection goes on, child and all: refuted.  *)
StopIsTotal ==
  (stopped /\ \A o \in Ops : ~InFlight(o)) => \A c \in Ops : ~Alive(c)

(* A connection told to stop launches nothing any more: not after a        *)
(* consent that came too late, not as a reconnect that was already due.    *)
StoppedStaysDown ==
  [][\A c \in Ops : conn[c].stop /\ ~Child(c) => ~Child(c)']_vars

(* disconnect()'s promise that the reason a server is not running survives *)
(* the teardown (connection.py:1850-1852): the supervisor, a reconnect     *)
(* and a second teardown may run while it waits.  Only the abandonment of  *)
(* a start at the end of the program resets it.                            *)
ReasonSurvives ==
  [][\A o \in Ops : Runs(o, "told") /\ op[o].hadFailed
                      /\ ~(closing /\ kind[op[o].target] = "boot")
                      => conn'[op[o].target].health = "failed"]_vars

(* An attempt is dropped only for what happened to a connection while it   *)
(* was the attempt in progress: its stream ended, a call found it closed,  *)
(* or its session handed over an exception.  A late notice of an earlier   *)
(* attempt's end drops nothing.                                            *)
DropIsOwn ==
  \A c \in Ops : conn[c].sup \in {"asking", "launching", "ready"} /\ conn[c].dropped => conn[c].broken

(* The task that follows a server's changes lives with its client only: it *)
(* never outlives the attempt that it listens to.                          *)
ListenerHasClient == \A c \in Ops : conn[c].listener => conn[c].sup = "ready"

(* Every operation ends unless the operator owes an answer, whatever was   *)
(* being started, torn down or asked when it came; quitting ends though    *)
(* nobody answers, for it refuses every prompt.                            *)
OperationsEnd ==
  \A o \in Ops : InFlight(o) ~> (~InFlight(o) \/ \E c \in Ops : Prompted(c))
=============================================================================
