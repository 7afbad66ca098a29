-------------------------- MODULE McpServersProofs --------------------------
(***************************************************************************)
(* No connection to an MCP server is forgotten, for any operations in any  *)
(* overlap, except one whose registration was replaced without looking.    *)
(*                                                                         *)
(* The argument: a connection that still serves is registered, or an       *)
(* operation that nothing cancels is about to tell it to stop, or it is a  *)
(* probe whose test still waits for it.  An operation lets go of a         *)
(* connection only after that was told to stop, and a connection is made   *)
(* once, so that nothing tells it otherwise.                               *)
(*                                                                         *)
(* A second invariant looks at each connection by itself: what its         *)
(* supervisor, its listener and the notices of its stream rely on.  A      *)
(* third follows the reason of a failure through the teardowns that meet.  *)
(***************************************************************************)
EXTENDS McpServers, TLAPS

\* On the way to telling c to stop; the start of the program may be cancelled there.
Tearing(o, c) ==
  /\ kind[o] # "boot"
  /\ op[o].target = c
  /\ op[o].pc \in {"disconnect", "listenerEnd", "teardown"}

Kept(c) ==
  \/ registered = c /\ ~stopped
  \/ c \in overwritten
  \/ \E o \in Ops : Tearing(o, c)
  \/ kind[c] = "test" /\ op[c].pc = "settling"

AllKept == \A c \in Ops : Live(c) => Kept(c)

Disconnecting == {"disconnect", "listenerEnd", "graceful", "join", "lateJoin", "told"}

\* An operation that has not made its connection.
Before(o) ==
  \/ op[o].pc \in {"idle", "reverting", "begin", "replaced", "removed", "bootEnd", "teardown"}
  \/ op[o].pc \in Disconnecting /\ op[o].then \in {"replaced", "removed"}

\* One that has made it and will refer to it.
After(o) ==
  \/ op[o].pc \in {"settling", "failed", "timedOut"}
  \/ op[o].pc \in Disconnecting /\ op[o].then \in {"failed", "timedOut"}

\* Connections are made once, before anything refers to them.
MadeOnce ==
  /\ \A o \in Ops : (Before(o) => conn[o].sup = "none") /\ (After(o) => conn[o].sup # "none")
  /\ \A o, c \in Ops : registered = c \/ op[o].target = c => conn[c].sup # "none"

\* Where an operation has told its target to stop.
LetGo == {"begin", "replaced", "removed", "graceful", "join", "lateJoin", "told"}

\* What an operation has told to stop, and what it is about to tell.
Told4Good ==
  \A o \in Ops :
    /\ op[o].pc \in {"idle", "reverting"} => op[o].target = None
    /\ op[o].pc \in Disconnecting \union {"teardown"} => op[o].target # None
    /\ (op[o].pc \in LetGo /\ op[o].target # None) => conn[op[o].target].stop

KindsFit ==
  \A o \in Ops :
    /\ op[o].pc \in {"bootEnd", "teardown"} => kind[o] = "quit"
    /\ op[o].cancelled => kind[o] = "boot"
    /\ op[o].pc \in Disconnecting
         => op[o].then \in {"replaced", "removed", "failed", "timedOut", "ended"}

IInv == TypeOK /\ AllKept /\ MadeOnce /\ Told4Good /\ KindsFit

-----------------------------------------------------------------------------
LEMMA InitInv == Init => IInv
<1> SUFFICES ASSUME Init
             PROVE  IInv
  OBVIOUS
<1>1. TypeOK
  <2>1. NewConn \in Connections
    BY AttemptsAssumption DEF NewConn, Connections, Sups
  <2>2. op \in [Ops -> OpStates]
    BY DEF Init, OpStates, Pcs
  <2> QED
    BY <2>1, <2>2 DEF Init, TypeOK
<1>2. AllKept
  BY DEF Init, AllKept, Live, Alive, NewConn
<1>3. MadeOnce /\ Told4Good /\ KindsFit
  BY NoneAssumption DEF Init, MadeOnce, Told4Good, KindsFit, Before, After, Disconnecting, NewConn
<1> QED
  BY <1>1, <1>2, <1>3 DEF IInv

-----------------------------------------------------------------------------
\* A supervisor that is over, and one that leaves, as records.
LEMMA RecordTypes ==
  ASSUME NEW r \in Connections, NEW health \in {"disconnected", "connecting", "ready", "failed"},
         NEW why \in {"stop", "fail", "cancel"}
  PROVE  /\ Over(r, health, TRUE) \in Connections
         /\ Over(r, health, r.settled) \in Connections
         /\ Left(r, why) \in Connections
         /\ [Left(r, why) EXCEPT !.cancelled = FALSE] \in Connections
<1>0. 0 \in 0..(MaxAttempts - 1)
  BY AttemptsAssumption
<1>1. ASSUME NEW settled \in BOOLEAN
      PROVE  Over(r, health, settled) \in Connections
  BY <1>0, ZenonT(60) DEF Over, Connections, Sups
<1>2. r.settled \in BOOLEAN
  BY DEF Connections
<1>3. Left(r, why) \in Connections /\ [Left(r, why) EXCEPT !.cancelled = FALSE] \in Connections
  BY ZenonT(60) DEF Left, Connections, Sups
<1> QED
  BY <1>1, <1>2, <1>3

\* What an operation changes of a connection.
LEMMA FieldTypes ==
  ASSUME NEW r \in Connections, NEW x \in BOOLEAN
  PROVE  /\ [r EXCEPT !.listener = FALSE] \in Connections
         /\ [r EXCEPT !.cancelled = TRUE] \in Connections
         /\ [r EXCEPT !.health = "failed"] \in Connections
         /\ [r EXCEPT !.health = "disconnected"] \in Connections
         /\ [r EXCEPT !.follow = TRUE, !.listener = x] \in Connections
         /\ [r EXCEPT !.stop = TRUE, !.task = FALSE, !.cancelled = x] \in Connections
  BY ZenonT(60) DEF Connections

LEMMA SupervisorType ==
  ASSUME TypeOK, NEW c \in Ops, Supervisor(c)
  PROVE  conn' \in [Ops -> Connections] /\ trust' \in {"unknown", "allowed", "denied"}
<1>b. conn \in [Ops -> Connections] /\ trust \in {"unknown", "allowed", "denied"}
  BY DEF TypeOK
<1>r. /\ conn[c] \in Connections
      /\ conn[c].health \in {"disconnected", "connecting", "ready", "failed"}
  BY <1>b DEF Connections
<1> USE <1>b, <1>r DEF Step
<1>1. CASE BeginAttempt(c)
  <2>1. [conn[c] EXCEPT !.sup = "asking", !.health = "connecting", !.dropped = FALSE,
                        !.broken = FALSE,
                        !.notice = IF @ = "current" THEN "old" ELSE @] \in Connections
    BY ZenonT(60) DEF Connections, Sups
  <2> QED
    BY <1>1, <2>1, RecordTypes DEF BeginAttempt
<1>2. CASE Launch(c)
  BY <1>2 DEF Launch, Connections, Sups
<1>3. CASE Refused(c)
  BY <1>3, RecordTypes DEF Refused
<1>4. CASE Ready(c)
  BY <1>4 DEF Ready, Connections, Sups
<1>5. CASE LaunchFails(c)
  BY <1>5 DEF LaunchFails, Connections, Sups
<1>6. CASE BackoffEnds(c)
  BY <1>6 DEF BackoffEnds, Connections, Sups
<1>7. CASE HoldOpenEnds(c)
  BY <1>7, RecordTypes DEF HoldOpenEnds
<1>8. CASE HeartbeatFails(c)
  BY <1>8, RecordTypes DEF HeartbeatFails
<1>9. CASE StreamEnds(c)
  BY <1>9 DEF StreamEnds, Attempted, Connections
<1>10. CASE NoticeArrives(c)
  BY <1>10 DEF NoticeArrives, Connections
<1>11. CASE Closed(c)
  <2>1. ASSUME NEW n \in Nat, n >= 1, n < MaxAttempts
        PROVE  [conn[c] EXCEPT !.sup = "backoff", !.health = "failed",
                               !.settled = TRUE, !.attempt = n] \in Connections
    <3>1. n \in 0..(MaxAttempts - 1)
      BY <2>1, AttemptsAssumption
    <3> QED
      BY <3>1 DEF Connections, Sups
  <2>2. conn[c].attempt + 1 \in Nat /\ conn[c].attempt + 1 >= 1
    BY AttemptsAssumption DEF Connections
  <2>3. Over(conn[c], "failed", TRUE) \in Connections /\ Over(conn[c], "disconnected", TRUE) \in Connections
    BY RecordTypes
  <2>4. CASE conn[c].why = "stop"
    BY <2>4, <1>11, <2>3 DEF Closed
  <2>5. trust' = trust
    BY <1>11 DEF Closed
  <2>6. CASE conn[c].why # "stop"
    <3>1. PICK n \in {conn[c].attempt + 1} \union (IF conn[c].health = "ready" THEN {1} ELSE {}) :
            conn' = [conn EXCEPT ![c] =
                      IF Retries(conn[c], n)
                        THEN [conn[c] EXCEPT !.sup = "backoff", !.health = "failed",
                                             !.settled = TRUE, !.attempt = n]
                        ELSE Over(conn[c], "failed", TRUE)]
      BY <2>6, <1>11 DEF Closed
    <3>2. n \in Nat /\ n >= 1
      BY <2>2
    <3>3. CASE Retries(conn[c], n)
      <4>1. n < MaxAttempts
        BY <3>3 DEF Retries
      <4>2. [conn[c] EXCEPT !.sup = "backoff", !.health = "failed",
                            !.settled = TRUE, !.attempt = n] \in Connections
        BY <4>1, <3>2, <2>1
      <4> QED
        BY <3>1, <3>3, <4>2, <2>5
    <3>4. CASE ~Retries(conn[c], n)
      BY <3>1, <3>4, <2>3, <2>5
    <3> QED
      BY <3>3, <3>4
  <2> QED
    BY <2>4, <2>6
<1>12. CASE CancelArrives(c)
  <2>1. /\ Over(conn[c], conn[c].health, conn[c].settled) \in Connections
        /\ Over(conn[c], conn[c].health, TRUE) \in Connections
        /\ [Left(conn[c], "cancel") EXCEPT !.cancelled = FALSE] \in Connections
    BY RecordTypes
  <2> QED
    BY <1>12, <2>1 DEF CancelArrives
<1>13. CASE CancelledClosed(c)
  BY <1>13, RecordTypes DEF CancelledClosed
<1>14. CASE FaultArrives(c)
  BY <1>14 DEF FaultArrives, Attempted, Connections
<1> QED
  BY <1>1, <1>2, <1>3, <1>4, <1>5, <1>6, <1>7, <1>8, <1>9, <1>10, <1>11, <1>12, <1>13, <1>14
  DEF Supervisor

LEMMA OverFields ==
  ASSUME NEW r \in Connections, NEW health, NEW settled
  PROVE  Over(r, health, settled).sup = "done" /\ Over(r, health, settled).stop = r.stop
  BY DEF Over, Connections

(* What a step of a supervisor leaves as it is.                            *)
LEMMA SupervisorStep ==
  ASSUME TypeOK, NEW c \in Ops, Supervisor(c)
  PROVE  /\ UNCHANGED operations
         /\ \A d \in Ops \ {c} : conn'[d] = conn[d]
         /\ conn'[c].stop = conn[c].stop
         /\ Alive(c)' => Alive(c)
         /\ conn'[c].sup = "none" <=> conn[c].sup = "none"
<1>b. conn \in [Ops -> Connections]
  BY DEF TypeOK
<1>o. \A health, settled : /\ Over(conn[c], health, settled).sup = "done"
                           /\ Over(conn[c], health, settled).stop = conn[c].stop
  BY <1>b, OverFields
<1>p. /\ Over(conn[c], conn[c].health, TRUE).sup = "done"
      /\ Over(conn[c], conn[c].health, TRUE).stop = conn[c].stop
  BY <1>b, OverFields, ZenonT(60)
<1> USE <1>b DEF Alive, Connections, Step
<1>1. CASE BeginAttempt(c)
  BY <1>1 DEF BeginAttempt, Over
<1>2. CASE Launch(c)
  BY <1>2 DEF Launch
<1>3. CASE Refused(c)
  BY <1>3 DEF Refused, Over
<1>4. CASE Ready(c)
  BY <1>4 DEF Ready
<1>5. CASE LaunchFails(c)
  BY <1>5 DEF LaunchFails
<1>6. CASE BackoffEnds(c)
  BY <1>6 DEF BackoffEnds
<1>7. CASE HoldOpenEnds(c)
  BY <1>7 DEF HoldOpenEnds, Left
<1>8. CASE HeartbeatFails(c)
  BY <1>8 DEF HeartbeatFails, Left
<1>9. CASE StreamEnds(c)
  BY <1>9 DEF StreamEnds, Attempted
<1>10. CASE NoticeArrives(c)
  BY <1>10 DEF NoticeArrives
<1>11. CASE Closed(c)
  <2>0. UNCHANGED operations /\ conn[c].sup = "leaving"
    BY <1>11 DEF Closed
  <2>1. ASSUME NEW h, conn' = [conn EXCEPT ![c] = Over(conn[c], h, TRUE)]
        PROVE  conn'[c].stop = conn[c].stop /\ conn'[c].sup = "done"
    BY <2>1, <1>o
  <2>2. CASE conn[c].why = "stop"
    <3>1. conn' = [conn EXCEPT ![c] = Over(conn[c], "disconnected", TRUE)]
      BY <1>11, <2>2 DEF Closed
    <3> QED
      BY <3>1, <2>0, <2>1
  <2>3. CASE conn[c].why # "stop"
    <3>1. PICK n : conn' = [conn EXCEPT ![c] =
                             IF Retries(conn[c], n)
                               THEN [conn[c] EXCEPT !.sup = "backoff", !.health = "failed",
                                                    !.settled = TRUE, !.attempt = n]
                               ELSE Over(conn[c], "failed", TRUE)]
      BY <1>11, <2>3 DEF Closed
    <3>2. CASE Retries(conn[c], n)
      BY <3>1, <3>2, <2>0
    <3>3. CASE ~Retries(conn[c], n)
      BY <3>1, <3>3, <2>0, <2>1
    <3> QED
      BY <3>2, <3>3
  <2> QED
    BY <2>2, <2>3
<1>12. CASE CancelArrives(c)
  <2>0. UNCHANGED operations /\ conn[c].sup \notin {"none", "done"}
    BY <1>12 DEF CancelArrives
  <2>1. CASE conn[c].sup = "created"
    BY <1>12, <2>0, <2>1, <1>o DEF CancelArrives
  <2>2. CASE conn[c].sup \in {"loop", "asking", "backoff"}
    <3>1. conn' = [conn EXCEPT ![c] = Over(conn[c], conn[c].health, TRUE)]
      BY <1>12, <2>2 DEF CancelArrives
    <3>2. conn'[c] = Over(conn[c], conn[c].health, TRUE) /\ \A d \in Ops \ {c} : conn'[d] = conn[d]
      BY <3>1
    <3>3. conn'[c].sup = "done" /\ conn'[c].stop = conn[c].stop
      BY <3>2, <1>p
    <3> QED
      BY <3>2, <3>3, <2>0
  <2>3. CASE conn[c].sup \in {"launching", "ready", "leaving"}
    <3>1. conn' = [conn EXCEPT ![c] = [conn[c] EXCEPT !.sup = "leaving", !.why = "cancel",
                                                      !.listener = FALSE, !.cancelled = FALSE]]
      BY <1>12, <2>3 DEF CancelArrives, Left
    <3> QED
      BY <3>1, <2>0, <2>3
  <2> QED
    BY <1>12, <2>1, <2>2, <2>3 DEF CancelArrives
<1>13. CASE CancelledClosed(c)
  BY <1>13 DEF CancelledClosed, Over
<1>14. CASE FaultArrives(c)
  BY <1>14 DEF FaultArrives, Attempted
<1> QED
  BY <1>1, <1>2, <1>3, <1>4, <1>5, <1>6, <1>7, <1>8, <1>9, <1>10, <1>11, <1>12, <1>13, <1>14
  DEF Supervisor

(* A step of an operation moves no other, though it may cancel a start.    *)
LEMMA OpFrame ==
  ASSUME TypeOK, NEW o \in Ops, Request(o) \/ Operation(o), NEW b \in Ops
  PROVE  /\ kind' = kind
         /\ b # o => /\ op'[b].pc = op[b].pc
                     /\ op'[b].target = op[b].target
                     /\ op'[b].then = op[b].then
                     /\ op'[b].cancelled => op[b].cancelled \/ kind[b] = "boot"
<1>b. op \in [Ops -> OpStates]
  BY DEF TypeOK
<1> USE <1>b DEF OpStates, Then, Waits, Ends, Disconnects, Fails, Connects
<1>1. CASE StopListener(o)
  BY <1>1 DEF StopListener
<1>2. CASE Tell(o)
  BY <1>2 DEF Tell
<1>3. CASE GracefulTimeout(o)
  BY <1>3 DEF GracefulTimeout
<1>4. CASE Joined(o)
  BY <1>4 DEF Joined
<1>5. CASE Told(o)
  BY <1>5 DEF Told
<1>6. CASE StartServer(o)
  BY <1>6 DEF StartServer
<1>7. CASE RefusedStopped(o)
  BY <1>7 DEF RefusedStopped
<1>8. CASE Register(o)
  BY <1>8 DEF Register
<1>9. CASE Settle(o)
  BY <1>9 DEF Settle
<1>10. CASE ConnectTimeout(o)
  BY <1>10 DEF ConnectTimeout
<1>11. CASE TimedOut(o)
  BY <1>11 DEF TimedOut
<1>12. CASE ConnectFailed(o)
  BY <1>12 DEF ConnectFailed
<1>13. CASE Removed(o)
  BY <1>13 DEF Removed
<1>14. CASE Reverted(o)
  BY <1>14 DEF Reverted
<1>15. CASE BootCancelled(o)
  BY <1>15 DEF BootCancelled
<1>16. CASE Abandoned(o)
  BY <1>16 DEF Abandoned
<1>17. CASE StopAll(o)
  BY <1>17 DEF StopAll
<1>18. CASE Teardown(o)
  BY <1>18 DEF Teardown
<1>19. CASE Start(o)
  BY <1>19 DEF Start
<1>20. CASE Remove(o)
  BY <1>20 DEF Remove
<1>21. CASE Test(o)
  BY <1>21 DEF Test
<1>22. CASE Boot(o)
  BY <1>22 DEF Boot
<1>23. CASE Quit(o)
  BY <1>23 DEF Quit, Booting
<1> QED
  BY <1>1, <1>2, <1>3, <1>4, <1>5, <1>6, <1>7, <1>8, <1>9, <1>10, <1>11, <1>12, <1>13, <1>14, <1>15, <1>16, <1>17, <1>18, <1>19, <1>20, <1>21, <1>22, <1>23 DEF Request, Operation

(* ... and no connection but its own as it is made; told to stop stays so. *)
LEMMA ConnFrame ==
  ASSUME TypeOK, NEW o \in Ops, Request(o) \/ Operation(o)
  PROVE  \A c \in Ops : \/ c = o /\ (Register(o) \/ Test(o))
                        \/ /\ conn'[c].sup = conn[c].sup
                           /\ conn[c].stop => conn'[c].stop
<1>b. conn \in [Ops -> Connections]
  BY DEF TypeOK
<1> USE <1>b DEF Connections, Connects
<1>1. CASE StopListener(o)
  BY <1>1 DEF StopListener
<1>2. CASE Tell(o)
  BY <1>2 DEF Tell
<1>3. CASE GracefulTimeout(o)
  BY <1>3 DEF GracefulTimeout
<1>4. CASE Joined(o)
  BY <1>4 DEF Joined
<1>5. CASE Told(o)
  BY <1>5 DEF Told
<1>6. CASE StartServer(o)
  BY <1>6 DEF StartServer
<1>7. CASE RefusedStopped(o)
  BY <1>7 DEF RefusedStopped
<1>8. CASE Register(o)
  BY <1>8 DEF Register
<1>9. CASE Settle(o)
  BY <1>9 DEF Settle
<1>10. CASE ConnectTimeout(o)
  BY <1>10 DEF ConnectTimeout
<1>11. CASE TimedOut(o)
  BY <1>11 DEF TimedOut
<1>12. CASE ConnectFailed(o)
  BY <1>12 DEF ConnectFailed
<1>13. CASE Removed(o)
  BY <1>13 DEF Removed
<1>14. CASE Reverted(o)
  BY <1>14 DEF Reverted
<1>15. CASE BootCancelled(o)
  BY <1>15 DEF BootCancelled
<1>16. CASE Abandoned(o)
  BY <1>16 DEF Abandoned
<1>17. CASE StopAll(o)
  BY <1>17 DEF StopAll
<1>18. CASE Teardown(o)
  BY <1>18 DEF Teardown
<1>19. CASE Start(o)
  BY <1>19 DEF Start
<1>20. CASE Remove(o)
  BY <1>20 DEF Remove
<1>21. CASE Test(o)
  BY <1>21 DEF Test
<1>22. CASE Boot(o)
  BY <1>22 DEF Boot
<1>23. CASE Quit(o)
  BY <1>23 DEF Quit
<1> QED
  BY <1>1, <1>2, <1>3, <1>4, <1>5, <1>6, <1>7, <1>8, <1>9, <1>10, <1>11, <1>12, <1>13, <1>14, <1>15, <1>16, <1>17, <1>18, <1>19, <1>20, <1>21, <1>22, <1>23 DEF Request, Operation

\* Where an operation may go on.
LEMMA OpTypes ==
  ASSUME op \in [Ops -> OpStates], NEW o \in Ops, NEW pc \in Pcs
  PROVE  /\ Then(o, pc) => op' \in [Ops -> OpStates] /\ active' \in Ops \union {None}
         /\ Waits(o, pc) => op' \in [Ops -> OpStates] /\ active' \in Ops \union {None}
         /\ Ends(o) => op' \in [Ops -> OpStates] /\ active' \in Ops \union {None}
         /\ \A c \in Ops \union {None} :
              Disconnects(o, c, pc) => op' \in [Ops -> OpStates] /\ active' \in Ops \union {None}
<1>1. {"ended", "disconnect"} \subseteq Pcs
  BY DEF Pcs
<1>2. ASSUME Ends(o)
      PROVE  op' \in [Ops -> OpStates] /\ active' \in Ops \union {None}
  BY <1>1, <1>2, ZenonT(60) DEF OpStates, Ends
<1>3. ASSUME NEW c \in Ops \union {None}, Disconnects(o, c, pc)
      PROVE  op' \in [Ops -> OpStates] /\ active' \in Ops \union {None}
  <2>1. ASSUME NEW h \in BOOLEAN
        PROVE  [op[o] EXCEPT !.pc = "disconnect", !.target = c, !.then = pc, !.hadFailed = h]
                 \in OpStates
    BY <1>1 DEF OpStates
  <2>2. PICK h \in BOOLEAN : h = (conn[c].health = "failed")
    OBVIOUS
  <2>3. op' = [op EXCEPT ![o] = [op[o] EXCEPT !.pc = "disconnect", !.target = c, !.then = pc,
                                              !.hadFailed = h]]
    BY <1>3, <2>2 DEF Disconnects
  <2>4. op' \in [Ops -> OpStates]
    BY <2>1, <2>2, <2>3
  <2> QED
    BY <1>3, <2>4 DEF Disconnects
<1> QED
  BY <1>2, <1>3 DEF OpStates, Then, Waits

\* A step of an operation keeps the types.
LEMMA OperationType ==
  ASSUME TypeOK, Told4Good, NEW o \in Ops, Request(o) \/ Operation(o)
  PROVE  TypeOK'
<1>b. /\ op \in [Ops -> OpStates] /\ registered \in Ops \union {None} /\ active \in Ops \union {None}
      /\ conn \in [Ops -> Connections] /\ kind \in [Ops -> Kinds] /\ overwritten \subseteq Ops
      /\ stopped \in BOOLEAN /\ closing \in BOOLEAN /\ trust \in {"unknown", "allowed", "denied"}
  BY DEF TypeOK
<1>k. kind' = kind
  BY OpFrame
<1>a. op' \in [Ops -> OpStates] /\ active' \in Ops \union {None}
  <2>0. /\ {"begin", "replaced", "removed", "told", "failed", "timedOut", "ended"} \subseteq Pcs
        /\ {"reverting", "listenerEnd", "graceful", "join", "lateJoin", "settling"} \subseteq Pcs
        /\ {"abandoned", "bootEnd", "teardown"} \subseteq Pcs
    BY DEF Pcs
  <2>s. \A b \in Ops : /\ op[b].then \in Pcs
                       /\ op[b].target \in Ops \union {None}
    BY <1>b DEF OpStates
  <2> USE <1>b, <2>0, <2>s, OpTypes DEF Fails, Connects
  <2>1. CASE StopListener(o)
    BY <2>1 DEF StopListener
  <2>2. CASE Tell(o)
    BY <2>2 DEF Tell
  <2>3. CASE GracefulTimeout(o)
    BY <2>3 DEF GracefulTimeout
  <2>4. CASE Joined(o)
    BY <2>4 DEF Joined
  <2>5. CASE Told(o)
    BY <2>5 DEF Told
  <2>6. CASE StartServer(o)
    BY <2>6 DEF StartServer
  <2>7. CASE RefusedStopped(o)
    BY <2>7 DEF RefusedStopped
  <2>8. CASE Register(o)
    BY <2>8 DEF Register
  <2>9. CASE Settle(o)
    BY <2>9 DEF Settle
  <2>10. CASE ConnectTimeout(o)
    BY <2>10 DEF ConnectTimeout
  <2>11. CASE TimedOut(o)
    BY <2>11 DEF TimedOut
  <2>12. CASE ConnectFailed(o)
    BY <2>12 DEF ConnectFailed
  <2>13. CASE Removed(o)
    BY <2>13 DEF Removed
  <2>14. CASE Reverted(o)
    BY <2>14 DEF Reverted
  <2>15. CASE BootCancelled(o)
    <3>1. [op[o] EXCEPT !.pc = "abandoned", !.cancelled = FALSE] \in OpStates
      BY ZenonT(60) DEF OpStates
    <3>2. [op[o] EXCEPT !.cancelled = FALSE] \in OpStates
      BY ZenonT(60) DEF OpStates
    <3>3. [op[o] EXCEPT !.pc = "ended", !.target = None, !.cancelled = FALSE] \in OpStates
      BY ZenonT(60) DEF OpStates
    <3> QED
      <4>1. \/ op' = [op EXCEPT ![o] = [op[o] EXCEPT !.pc = "abandoned", !.cancelled = FALSE]]
            \/ op' = [op EXCEPT ![o] = [op[o] EXCEPT !.cancelled = FALSE]]
            \/ op' = [op EXCEPT ![o] = [op[o] EXCEPT !.pc = "ended", !.target = None,
                                                     !.cancelled = FALSE]]
        BY <2>15 DEF BootCancelled
      <4>2. active' = active
        BY <2>15 DEF BootCancelled
      <4> QED
        BY <3>1, <3>2, <3>3, <4>1, <4>2
  <2>16. CASE Abandoned(o)
    BY <2>16 DEF Abandoned
  <2>17. CASE StopAll(o)
    BY <2>17, SMTT(40) DEF StopAll, OpStates, Ends
  <2>18. CASE Teardown(o)
    BY <2>18 DEF Teardown
  <2>19. CASE Start(o)
    BY <2>19 DEF Start
  <2>20. CASE Remove(o)
    BY <2>20 DEF Remove
  <2>21. CASE Test(o)
    BY <2>21 DEF Test
  <2>22. CASE Boot(o)
    BY <2>22 DEF Boot
  <2>23. CASE Quit(o)
    <3>1. \A b \in Ops : [op[b] EXCEPT !.pc = "bootEnd"] \in OpStates
      BY SMTT(40) DEF OpStates
    <3>2. \A b \in Ops, x \in BOOLEAN : [op[b] EXCEPT !.cancelled = x] \in OpStates
      BY SMTT(40) DEF OpStates
    <3>3. \A b \in Ops : (b \in Booting) \in BOOLEAN
      OBVIOUS
    <3> QED
      BY <2>23, <3>1, <3>2, <3>3 DEF Quit
  <2> QED
    BY <2>1, <2>2, <2>3, <2>4, <2>5, <2>6, <2>7, <2>8, <2>9, <2>10, <2>11, <2>12, <2>13, <2>14, <2>15, <2>16, <2>17, <2>18, <2>19, <2>20, <2>21, <2>22, <2>23 DEF Request, Operation
<1>c. conn' \in [Ops -> Connections]
  <2>n. [NewConn EXCEPT !.sup = "created", !.task = TRUE, !.health = "connecting"] \in Connections
    <3>1. 0 \in 0..(MaxAttempts - 1)
      BY AttemptsAssumption
    <3> QED
      BY <3>1 DEF NewConn, Connections, Sups
  <2>t. op[o].pc \in Disconnecting => op[o].target \in Ops
    BY <1>b, SMTT(40) DEF Told4Good, OpStates
  <2>r. \A c \in Ops, x \in BOOLEAN :
          /\ [conn[c] EXCEPT !.listener = FALSE] \in Connections
          /\ [conn[c] EXCEPT !.cancelled = TRUE] \in Connections
          /\ [conn[c] EXCEPT !.health = "failed"] \in Connections
          /\ [conn[c] EXCEPT !.health = "disconnected"] \in Connections
          /\ [conn[c] EXCEPT !.follow = TRUE, !.listener = x] \in Connections
          /\ [conn[c] EXCEPT !.stop = TRUE, !.task = FALSE, !.cancelled = x] \in Connections
    BY <1>b, FieldTypes
  <2> USE <1>b DEF Connects, Disconnecting, Runs, Wakes
  <2>1. CASE StopListener(o)
    <3>1. conn' = [conn EXCEPT ![op[o].target] = [conn[op[o].target] EXCEPT !.listener = FALSE]]
      BY <2>1 DEF StopListener
    <3>2. op[o].target \in Ops
      BY <2>1, <2>t, SMTT(40) DEF StopListener
    <3> QED
      BY <3>1, <3>2, <2>r
  <2>2. CASE Tell(o)
    <3>2. op[o].target \in Ops
      BY <2>2, <2>t DEF Tell
    <3> DEFINE c == op[o].target
               y == conn[c].cancelled \/ ((conn[c].task /\ Alive(c)) /\ Cancels(conn[c]))
    <3>3. conn' = [conn EXCEPT ![c] = [conn[c] EXCEPT !.stop = TRUE, !.task = FALSE, !.cancelled = y]]
      BY <2>2 DEF Tell
    <3>4. y \in BOOLEAN
      BY <3>2 DEF Connections, Alive, Cancels
    <3>1. PICK x \in BOOLEAN :
            conn' = [conn EXCEPT ![op[o].target] =
                      [conn[op[o].target] EXCEPT !.stop = TRUE, !.task = FALSE, !.cancelled = x]]
      BY <3>3, <3>4
    <3> QED
      BY <3>1, <3>2, <2>r
  <2>3. CASE GracefulTimeout(o)
    <3>1. conn' = [conn EXCEPT ![op[o].target] = [conn[op[o].target] EXCEPT !.cancelled = TRUE]]
      BY <2>3 DEF GracefulTimeout
    <3>2. op[o].target \in Ops
      BY <2>3, <2>t DEF GracefulTimeout
    <3> QED
      BY <3>1, <3>2, <2>r
  <2>4. CASE Joined(o)
    BY <2>4, SMTT(40) DEF Joined
  <2>5. CASE Told(o)
    <3>1. PICK h \in {"failed", "disconnected"} :
            conn' = [conn EXCEPT ![op[o].target] = [conn[op[o].target] EXCEPT !.health = h]]
      BY <2>5 DEF Told, HealthAfter
    <3>2. op[o].target \in Ops
      BY <2>5, <2>t DEF Told
    <3> QED
      BY <3>1, <3>2, <2>r
  <2>6. CASE StartServer(o)
    BY <2>6 DEF StartServer
  <2>7. CASE RefusedStopped(o)
    BY <2>7 DEF RefusedStopped
  <2>8. CASE Register(o)
    BY <2>8, <2>n DEF Register
  <2>9. CASE Settle(o)
    <3>1. conn' = conn \/ \E x \in BOOLEAN :
            conn' = [conn EXCEPT ![o] = [conn[o] EXCEPT !.follow = TRUE, !.listener = x]]
      BY <2>9 DEF Settle, Connections
    <3> QED
      BY <3>1, <2>r
  <2>10. CASE ConnectTimeout(o)
    BY <2>10 DEF ConnectTimeout
  <2>11. CASE TimedOut(o)
    <3>1. conn' = [conn EXCEPT ![o] = [conn[o] EXCEPT !.health = "failed"]]
      BY <2>11 DEF TimedOut
    <3> QED
      BY <3>1, <2>r
  <2>12. CASE ConnectFailed(o)
    BY <2>12 DEF ConnectFailed
  <2>13. CASE Removed(o)
    BY <2>13 DEF Removed
  <2>14. CASE Reverted(o)
    BY <2>14, SMTT(40) DEF Reverted
  <2>15. CASE BootCancelled(o)
    <3>1. conn' = conn \/ \E x \in BOOLEAN :
            conn' = [conn EXCEPT ![o] =
                      [conn[o] EXCEPT !.stop = TRUE, !.task = FALSE, !.cancelled = x]]
      BY <2>15 DEF BootCancelled, Alive, Connections
    <3> QED
      BY <3>1, <2>r
  <2>16. CASE Abandoned(o)
    <3>1. conn' = [conn EXCEPT ![o] = [conn[o] EXCEPT !.health = "disconnected"]]
      BY <2>16 DEF Abandoned
    <3> QED
      BY <3>1, <2>r
  <2>17. CASE StopAll(o)
    BY <2>17 DEF StopAll
  <2>18. CASE Teardown(o)
    BY <2>18 DEF Teardown
  <2>19. CASE Start(o)
    BY <2>19 DEF Start
  <2>20. CASE Remove(o)
    BY <2>20 DEF Remove
  <2>21. CASE Test(o)
    BY <2>21, <2>n DEF Test
  <2>22. CASE Boot(o)
    BY <2>22 DEF Boot
  <2>23. CASE Quit(o)
    BY <2>23 DEF Quit
  <2> QED
    BY <2>1, <2>2, <2>3, <2>4, <2>5, <2>6, <2>7, <2>8, <2>9, <2>10, <2>11, <2>12, <2>13, <2>14, <2>15, <2>16, <2>17, <2>18, <2>19, <2>20, <2>21, <2>22, <2>23 DEF Request, Operation
<1>d. /\ registered' \in Ops \union {None}
      /\ stopped' \in BOOLEAN
      /\ closing' \in BOOLEAN
      /\ trust' \in {"unknown", "allowed", "denied"}
      /\ overwritten' \subseteq Ops
  <2> USE <1>b
  <2>1. CASE StopListener(o)
    BY <2>1 DEF StopListener
  <2>2. CASE Tell(o)
    BY <2>2 DEF Tell
  <2>3. CASE GracefulTimeout(o)
    BY <2>3 DEF GracefulTimeout
  <2>4. CASE Joined(o)
    BY <2>4 DEF Joined
  <2>5. CASE Told(o)
    BY <2>5 DEF Told
  <2>6. CASE StartServer(o)
    BY <2>6 DEF StartServer
  <2>7. CASE RefusedStopped(o)
    BY <2>7 DEF RefusedStopped
  <2>8. CASE Register(o)
    BY <2>8 DEF Register
  <2>9. CASE Settle(o)
    BY <2>9 DEF Settle
  <2>10. CASE ConnectTimeout(o)
    BY <2>10 DEF ConnectTimeout
  <2>11. CASE TimedOut(o)
    BY <2>11 DEF TimedOut
  <2>12. CASE ConnectFailed(o)
    BY <2>12 DEF ConnectFailed
  <2>13. CASE Removed(o)
    BY <2>13 DEF Removed
  <2>14. CASE Reverted(o)
    BY <2>14 DEF Reverted
  <2>15. CASE BootCancelled(o)
    BY <2>15 DEF BootCancelled
  <2>16. CASE Abandoned(o)
    BY <2>16 DEF Abandoned
  <2>17. CASE StopAll(o)
    BY <2>17 DEF StopAll
  <2>18. CASE Teardown(o)
    BY <2>18 DEF Teardown
  <2>19. CASE Start(o)
    BY <2>19 DEF Start
  <2>20. CASE Remove(o)
    BY <2>20 DEF Remove
  <2>21. CASE Test(o)
    BY <2>21 DEF Test
  <2>22. CASE Boot(o)
    BY <2>22 DEF Boot
  <2>23. CASE Quit(o)
    BY <2>23 DEF Quit
  <2> QED
    BY <2>1, <2>2, <2>3, <2>4, <2>5, <2>6, <2>7, <2>8, <2>9, <2>10, <2>11, <2>12, <2>13, <2>14, <2>15, <2>16, <2>17, <2>18, <2>19, <2>20, <2>21, <2>22, <2>23 DEF Request, Operation
<1> QED
  BY <1>b, <1>k, <1>a, <1>c, <1>d DEF TypeOK

LEMMA StepType == TypeOK /\ Told4Good /\ [Next]_vars => TypeOK'
<1> SUFFICES ASSUME TypeOK, Told4Good, [Next]_vars
             PROVE  TypeOK'
  OBVIOUS
<1>1. ASSUME NEW c \in Ops, Supervisor(c)
      PROVE  TypeOK'
  BY <1>1, SupervisorType, SupervisorStep DEF TypeOK, operations
<1>2. CASE UNCHANGED vars
  BY <1>2 DEF TypeOK, vars, operations
<1> QED
  BY <1>1, <1>2, OperationType DEF Next

-----------------------------------------------------------------------------
(* An operation that makes its connection had not made it.                 *)
LEMMA Makes ==
  ASSUME TypeOK, NEW o \in Ops, Register(o) \/ Test(o)
  PROVE  /\ Before(o) /\ op'[o].pc = "settling"
         /\ conn' = [conn EXCEPT ![o] = [NewConn EXCEPT !.sup = "created", !.task = TRUE,
                                                       !.health = "connecting"]]
         /\ conn'[o].sup = "created" /\ ~conn'[o].stop
<1>b. op \in [Ops -> OpStates] /\ conn \in [Ops -> Connections]
  BY DEF TypeOK
<1>1. /\ op[o].pc \in {"replaced", "idle"}
      /\ op' = [op EXCEPT ![o].pc = "settling"]
      /\ conn' = [conn EXCEPT ![o] = [NewConn EXCEPT !.sup = "created", !.task = TRUE,
                                                    !.health = "connecting"]]
  BY DEF Register, Test, Connects, Waits, Runs, Requested
<1>2. op'[o].pc = "settling"
  BY <1>1, <1>b DEF OpStates
<1>3. /\ [NewConn EXCEPT !.sup = "created", !.task = TRUE, !.health = "connecting"].sup = "created"
      /\ ~[NewConn EXCEPT !.sup = "created", !.task = TRUE, !.health = "connecting"].stop
  BY DEF NewConn
<1>4. conn'[o] = [NewConn EXCEPT !.sup = "created", !.task = TRUE, !.health = "connecting"]
  BY <1>1, <1>b
<1> QED
  BY <1>1, <1>2, <1>3, <1>4 DEF Before

(* What the moving operation keeps, of itself.                             *)
LEMMA OwnMade ==
  ASSUME TypeOK, MadeOnce, KindsFit, Told4Good, NEW o \in Ops, Request(o) \/ Operation(o)
  PROVE  /\ Before(o)' => Before(o)
         /\ After(o)' => After(o) \/ Register(o) \/ Test(o)
         /\ op'[o].target \in {op[o].target, registered, None} \/ (op'[o].target = o /\ After(o))
         /\ registered' \in {registered, None} \/ (registered' = o /\ Register(o))
<1>b. op \in [Ops -> OpStates] /\ KindsFit
  BY DEF TypeOK
<1> USE <1>b DEF OpStates, Before, After, Disconnecting, Then, Waits, Ends, Disconnects, Fails,
                 Connects, Runs, Wakes, Requested, KindsFit
<1>1. CASE StopListener(o)
  BY <1>1 DEF StopListener
<1>2. CASE Tell(o)
  BY <1>2 DEF Tell
<1>3. CASE GracefulTimeout(o)
  BY <1>3 DEF GracefulTimeout
<1>4. CASE Joined(o)
  BY <1>4 DEF Joined
<1>5. CASE Told(o)
  BY <1>5 DEF Told
<1>6. CASE StartServer(o)
  BY <1>6 DEF StartServer
<1>7. CASE RefusedStopped(o)
  BY <1>7 DEF RefusedStopped
<1>8. CASE Register(o)
  BY <1>8 DEF Register
<1>9. CASE Settle(o)
  BY <1>9 DEF Settle
<1>10. CASE ConnectTimeout(o)
  BY <1>10 DEF ConnectTimeout
<1>11. CASE TimedOut(o)
  BY <1>11 DEF TimedOut
<1>12. CASE ConnectFailed(o)
  BY <1>12 DEF ConnectFailed
<1>13. CASE Removed(o)
  BY <1>13 DEF Removed
<1>14. CASE Reverted(o)
  BY <1>14 DEF Reverted
<1>15. CASE BootCancelled(o)
  BY <1>15 DEF BootCancelled
<1>16. CASE Abandoned(o)
  BY <1>16 DEF Abandoned
<1>17. CASE StopAll(o)
  BY <1>17 DEF StopAll
<1>18. CASE Teardown(o)
  BY <1>18 DEF Teardown
<1>19. CASE Start(o)
  BY <1>19 DEF Start
<1>20. CASE Remove(o)
  BY <1>20 DEF Remove
<1>21. CASE Test(o)
  BY <1>21 DEF Test
<1>22. CASE Boot(o)
  BY <1>22 DEF Boot
<1>23. CASE Quit(o)
  BY <1>23 DEF Quit
<1> QED
  BY <1>1, <1>2, <1>3, <1>4, <1>5, <1>6, <1>7, <1>8, <1>9, <1>10, <1>11, <1>12, <1>13, <1>14, <1>15, <1>16, <1>17, <1>18, <1>19, <1>20, <1>21, <1>22, <1>23 DEF Request, Operation

LEMMA OwnTold ==
  ASSUME TypeOK, MadeOnce, KindsFit, Told4Good, NEW o \in Ops, Request(o) \/ Operation(o)
  PROVE  /\ op'[o].pc \in {"idle", "reverting"} => op'[o].target = None
         /\ op'[o].pc \in Disconnecting \union {"teardown"} => op'[o].target # None
         /\ (op'[o].pc \in LetGo /\ op'[o].target # None) =>
              \/ op[o].pc \in LetGo /\ op'[o].target = op[o].target
              \/ conn'[op'[o].target].stop
<1>b. op \in [Ops -> OpStates] /\ conn \in [Ops -> Connections]
  BY DEF TypeOK
<1>t. /\ op[o].pc \in {"idle", "reverting"} => op[o].target = None
      /\ op[o].pc \in Disconnecting \union {"teardown"} => op[o].target # None
      /\ op[o].target \in Ops \union {None}
      /\ op[o].pc = "told" => op[o].then \in {"replaced", "removed", "failed", "timedOut", "ended"}
  BY <1>b DEF Told4Good, KindsFit, OpStates, Disconnecting
<1> USE <1>b, <1>t, NoneAssumption DEF OpStates, Connections, Disconnecting, LetGo, Then, Waits,
                    Ends, Disconnects, Fails, Connects, Runs, Wakes, Requested
<1>1. CASE StopListener(o)
  BY <1>1 DEF StopListener
<1>2. CASE Tell(o)
  BY <1>2 DEF Tell
<1>3. CASE GracefulTimeout(o)
  BY <1>3 DEF GracefulTimeout
<1>4. CASE Joined(o)
  BY <1>4 DEF Joined
<1>5. CASE Told(o)
  BY <1>5 DEF Told
<1>6. CASE StartServer(o)
  BY <1>6 DEF StartServer
<1>7. CASE RefusedStopped(o)
  BY <1>7 DEF RefusedStopped
<1>8. CASE Register(o)
  BY <1>8 DEF Register
<1>9. CASE Settle(o)
  BY <1>9 DEF Settle
<1>10. CASE ConnectTimeout(o)
  BY <1>10 DEF ConnectTimeout
<1>11. CASE TimedOut(o)
  BY <1>11 DEF TimedOut
<1>12. CASE ConnectFailed(o)
  BY <1>12 DEF ConnectFailed
<1>13. CASE Removed(o)
  BY <1>13 DEF Removed
<1>14. CASE Reverted(o)
  BY <1>14 DEF Reverted
<1>15. CASE BootCancelled(o)
  BY <1>15 DEF BootCancelled
<1>16. CASE Abandoned(o)
  BY <1>16 DEF Abandoned
<1>17. CASE StopAll(o)
  BY <1>17 DEF StopAll
<1>18. CASE Teardown(o)
  BY <1>18 DEF Teardown
<1>19. CASE Start(o)
  BY <1>19 DEF Start
<1>20. CASE Remove(o)
  BY <1>20 DEF Remove
<1>21. CASE Test(o)
  BY <1>21 DEF Test
<1>22. CASE Boot(o)
  BY <1>22 DEF Boot
<1>23. CASE Quit(o)
  BY <1>23 DEF Quit
<1> QED
  BY <1>1, <1>2, <1>3, <1>4, <1>5, <1>6, <1>7, <1>8, <1>9, <1>10, <1>11, <1>12, <1>13, <1>14, <1>15, <1>16, <1>17, <1>18, <1>19, <1>20, <1>21, <1>22, <1>23 DEF Request, Operation

LEMMA OwnKind ==
  ASSUME TypeOK, KindsFit, NEW o \in Ops, Request(o) \/ Operation(o)
  PROVE  /\ op'[o].pc \in {"bootEnd", "teardown"} => kind[o] = "quit"
         /\ op'[o].cancelled => kind[o] = "boot"
         /\ op'[o].pc \in Disconnecting
              => op'[o].then \in {"replaced", "removed", "failed", "timedOut", "ended"}
<1>b. op \in [Ops -> OpStates]
  BY DEF TypeOK
<1>t. /\ op[o].pc \in {"bootEnd", "teardown"} => kind[o] = "quit"
      /\ op[o].cancelled => kind[o] = "boot"
      /\ op[o].pc \in Disconnecting
           => op[o].then \in {"replaced", "removed", "failed", "timedOut", "ended"}
  BY DEF KindsFit
<1> USE <1>b, <1>t DEF OpStates, Disconnecting, Then, Waits, Ends, Disconnects, Fails, Connects,
                       Runs, Wakes, Requested
<1>1. CASE StopListener(o)
  BY <1>1 DEF StopListener
<1>2. CASE Tell(o)
  BY <1>2 DEF Tell
<1>3. CASE GracefulTimeout(o)
  BY <1>3 DEF GracefulTimeout
<1>4. CASE Joined(o)
  BY <1>4 DEF Joined
<1>5. CASE Told(o)
  BY <1>5 DEF Told
<1>6. CASE StartServer(o)
  BY <1>6 DEF StartServer
<1>7. CASE RefusedStopped(o)
  BY <1>7 DEF RefusedStopped
<1>8. CASE Register(o)
  BY <1>8 DEF Register
<1>9. CASE Settle(o)
  BY <1>9 DEF Settle
<1>10. CASE ConnectTimeout(o)
  BY <1>10 DEF ConnectTimeout
<1>11. CASE TimedOut(o)
  BY <1>11 DEF TimedOut
<1>12. CASE ConnectFailed(o)
  BY <1>12 DEF ConnectFailed
<1>13. CASE Removed(o)
  BY <1>13 DEF Removed
<1>14. CASE Reverted(o)
  BY <1>14 DEF Reverted
<1>15. CASE BootCancelled(o)
  BY <1>15 DEF BootCancelled
<1>16. CASE Abandoned(o)
  BY <1>16 DEF Abandoned
<1>17. CASE StopAll(o)
  BY <1>17 DEF StopAll
<1>18. CASE Teardown(o)
  BY <1>18 DEF Teardown
<1>19. CASE Start(o)
  BY <1>19 DEF Start
<1>20. CASE Remove(o)
  BY <1>20 DEF Remove
<1>21. CASE Test(o)
  BY <1>21 DEF Test
<1>22. CASE Boot(o)
  BY <1>22 DEF Boot
<1>23. CASE Quit(o)
  BY <1>23 DEF Quit, Booting
<1> QED
  BY <1>1, <1>2, <1>3, <1>4, <1>5, <1>6, <1>7, <1>8, <1>9, <1>10, <1>11, <1>12, <1>13, <1>14, <1>15, <1>16, <1>17, <1>18, <1>19, <1>20, <1>21, <1>22, <1>23 DEF Request, Operation

-----------------------------------------------------------------------------
LEMMA OperationMade ==
  ASSUME TypeOK, MadeOnce, KindsFit, Told4Good, NEW o \in Ops, Request(o) \/ Operation(o)
  PROVE  MadeOnce'
<1>1. ASSUME NEW c \in Ops, conn[c].sup # "none"
      PROVE  conn'[c].sup # "none"
  BY <1>1, ConnFrame, Makes
<1>2. ASSUME NEW b \in Ops, Before(b)'
      PROVE  conn'[b].sup = "none"
  <2>1. Before(b)
    BY <1>2, OpFrame, OwnMade DEF Before
  <2>2. ~(b = o /\ (Register(o) \/ Test(o)))
    BY <1>2, Makes DEF Before, Disconnecting
  <2> QED
    BY <2>1, <2>2, ConnFrame DEF MadeOnce
<1>3. ASSUME NEW b \in Ops, After(b)'
      PROVE  conn'[b].sup # "none"
  <2>1. After(b) \/ (b = o /\ (Register(o) \/ Test(o)))
    BY <1>3, OpFrame, OwnMade DEF After
  <2> QED
    BY <2>1, <1>1, Makes DEF MadeOnce
<1>4. ASSUME NEW b \in Ops, NEW c \in Ops, op'[b].target = c
      PROVE  conn'[c].sup # "none"
  <2>1. CASE b # o
    BY <1>1, <1>4, <2>1, OpFrame DEF MadeOnce
  <2>2. CASE b = o
    <3>1. op[o].target = c \/ registered = c \/ (c = o /\ After(o))
      BY <1>4, <2>2, OwnMade, NoneAssumption
    <3> QED
      BY <3>1, <1>1 DEF MadeOnce
  <2> QED
    BY <2>1, <2>2
<1>5. ASSUME NEW c \in Ops, registered' = c
      PROVE  conn'[c].sup # "none"
  <2>1. registered = c \/ (c = o /\ Register(o))
    BY <1>5, OwnMade, NoneAssumption
  <2> QED
    BY <2>1, <1>1, Makes DEF MadeOnce
<1> QED
  BY <1>2, <1>3, <1>4, <1>5 DEF MadeOnce

LEMMA OperationTold ==
  ASSUME TypeOK, MadeOnce, KindsFit, Told4Good, NEW o \in Ops, Request(o) \/ Operation(o)
  PROVE  Told4Good'
<1>1. ASSUME NEW b \in Ops, op[b].pc \in LetGo, op[b].target # None
      PROVE  conn'[op[b].target].stop
  <2>1. conn[op[b].target].stop /\ op[b].target \in Ops /\ conn[op[b].target].sup # "none"
    BY <1>1 DEF Told4Good, TypeOK, OpStates, MadeOnce
  <2>2. ~(op[b].target = o /\ (Register(o) \/ Test(o)))
    BY <2>1, Makes DEF MadeOnce
  <2> QED
    BY <2>1, <2>2, ConnFrame
<1>2. ASSUME NEW b \in Ops
      PROVE  /\ op'[b].pc \in {"idle", "reverting"} => op'[b].target = None
             /\ op'[b].pc \in Disconnecting \union {"teardown"} => op'[b].target # None
             /\ (op'[b].pc \in LetGo /\ op'[b].target # None) => conn'[op'[b].target].stop
  <2>1. CASE b # o
    BY <1>1, <2>1, OpFrame DEF Told4Good
  <2>2. CASE b = o
    BY <1>1, <2>2, OwnTold
  <2> QED
    BY <2>1, <2>2
<1> QED
  BY <1>2 DEF Told4Good, Disconnecting, LetGo

LEMMA OperationKinds ==
  ASSUME TypeOK, KindsFit, NEW o \in Ops, Request(o) \/ Operation(o)
  PROVE  KindsFit'
<1>1. ASSUME NEW b \in Ops
      PROVE  /\ op'[b].pc \in {"bootEnd", "teardown"} => kind[b] = "quit"
             /\ op'[b].cancelled => kind[b] = "boot"
             /\ op'[b].pc \in Disconnecting
                  => op'[b].then \in {"replaced", "removed", "failed", "timedOut", "ended"}
  <2>1. CASE b # o
    BY <2>1, OpFrame DEF KindsFit
  <2>2. CASE b = o
    BY <2>2, OwnKind
  <2> QED
    BY <2>1, <2>2
<1> QED
  BY <1>1, OpFrame DEF KindsFit, Disconnecting

(* Which steps change what is registered, and how.                         *)
LEMMA RegistryFrame ==
  ASSUME NEW o \in Ops, Request(o) \/ Operation(o)
  PROVE  /\ overwritten \subseteq overwritten'
         /\ \/ registered' = registered /\ stopped' = stopped
            \/ Register(o) \/ Remove(o) \/ StopAll(o)
<1>1. CASE StopListener(o)
  BY <1>1 DEF StopListener
<1>2. CASE Tell(o)
  BY <1>2 DEF Tell
<1>3. CASE GracefulTimeout(o)
  BY <1>3 DEF GracefulTimeout
<1>4. CASE Joined(o)
  BY <1>4 DEF Joined
<1>5. CASE Told(o)
  BY <1>5 DEF Told
<1>6. CASE StartServer(o)
  BY <1>6 DEF StartServer
<1>7. CASE RefusedStopped(o)
  BY <1>7 DEF RefusedStopped
<1>8. CASE Register(o)
  BY <1>8 DEF Register
<1>9. CASE Settle(o)
  BY <1>9 DEF Settle
<1>10. CASE ConnectTimeout(o)
  BY <1>10 DEF ConnectTimeout
<1>11. CASE TimedOut(o)
  BY <1>11 DEF TimedOut
<1>12. CASE ConnectFailed(o)
  BY <1>12 DEF ConnectFailed
<1>13. CASE Removed(o)
  BY <1>13 DEF Removed
<1>14. CASE Reverted(o)
  BY <1>14 DEF Reverted
<1>15. CASE BootCancelled(o)
  BY <1>15 DEF BootCancelled
<1>16. CASE Abandoned(o)
  BY <1>16 DEF Abandoned
<1>17. CASE StopAll(o)
  BY <1>17 DEF StopAll
<1>18. CASE Teardown(o)
  BY <1>18 DEF Teardown
<1>19. CASE Start(o)
  BY <1>19 DEF Start
<1>20. CASE Remove(o)
  BY <1>20 DEF Remove
<1>21. CASE Test(o)
  BY <1>21 DEF Test
<1>22. CASE Boot(o)
  BY <1>22 DEF Boot
<1>23. CASE Quit(o)
  BY <1>23 DEF Quit
<1> QED
  BY <1>1, <1>2, <1>3, <1>4, <1>5, <1>6, <1>7, <1>8, <1>9, <1>10, <1>11, <1>12, <1>13, <1>14, <1>15, <1>16, <1>17, <1>18, <1>19, <1>20, <1>21, <1>22, <1>23 DEF Request, Operation

\* A teardown on its way tells the connection to stop, or is still on its way.
LEMMA TearingGoesOn ==
  ASSUME TypeOK, KindsFit, NEW o \in Ops, Request(o) \/ Operation(o), NEW c \in Ops, Tearing(o, c)
  PROVE  Tearing(o, c)' \/ conn'[c].stop
<1>b. /\ op \in [Ops -> OpStates] /\ conn \in [Ops -> Connections] /\ kind' = kind
      /\ ~op[o].cancelled
      /\ op[o].pc \in {"disconnect", "listenerEnd", "teardown"}
      /\ op[o].target = c /\ kind[o] # "boot"
  BY OpFrame DEF TypeOK, KindsFit, Tearing
<1> USE <1>b DEF OpStates, Connections, Tearing, Then, Waits, Ends, Disconnects, Fails, Connects,
                 Runs, Wakes, Requested
<1>1. CASE StopListener(o)
  BY <1>1 DEF StopListener
<1>2. CASE Tell(o)
  BY <1>2 DEF Tell
<1>3. CASE GracefulTimeout(o)
  BY <1>3 DEF GracefulTimeout
<1>4. CASE Joined(o)
  BY <1>4 DEF Joined
<1>5. CASE Told(o)
  BY <1>5 DEF Told
<1>6. CASE StartServer(o)
  BY <1>6 DEF StartServer
<1>7. CASE RefusedStopped(o)
  BY <1>7 DEF RefusedStopped
<1>8. CASE Register(o)
  BY <1>8 DEF Register
<1>9. CASE Settle(o)
  BY <1>9 DEF Settle
<1>10. CASE ConnectTimeout(o)
  BY <1>10 DEF ConnectTimeout
<1>11. CASE TimedOut(o)
  BY <1>11 DEF TimedOut
<1>12. CASE ConnectFailed(o)
  BY <1>12 DEF ConnectFailed
<1>13. CASE Removed(o)
  BY <1>13 DEF Removed
<1>14. CASE Reverted(o)
  BY <1>14 DEF Reverted
<1>15. CASE BootCancelled(o)
  BY <1>15 DEF BootCancelled
<1>16. CASE Abandoned(o)
  BY <1>16 DEF Abandoned
<1>17. CASE StopAll(o)
  BY <1>17 DEF StopAll
<1>18. CASE Teardown(o)
  BY <1>18 DEF Teardown
<1>19. CASE Start(o)
  BY <1>19 DEF Start
<1>20. CASE Remove(o)
  BY <1>20 DEF Remove
<1>21. CASE Test(o)
  BY <1>21 DEF Test
<1>22. CASE Boot(o)
  BY <1>22 DEF Boot
<1>23. CASE Quit(o)
  BY <1>23 DEF Quit, Booting
<1> QED
  BY <1>1, <1>2, <1>3, <1>4, <1>5, <1>6, <1>7, <1>8, <1>9, <1>10, <1>11, <1>12, <1>13, <1>14, <1>15, <1>16, <1>17, <1>18, <1>19, <1>20, <1>21, <1>22, <1>23 DEF Request, Operation

\* A test lets go of its connection only by tearing it down.
LEMMA TestGoesOn ==
  ASSUME TypeOK, KindsFit, NEW o \in Ops, Request(o) \/ Operation(o),
         kind[o] = "test", op[o].pc = "settling"
  PROVE  op'[o].pc = "settling" \/ Tearing(o, o)'
<1>b. op \in [Ops -> OpStates] /\ kind' = kind /\ ~op[o].cancelled
  BY OpFrame DEF TypeOK, KindsFit
<1> USE <1>b DEF OpStates, Tearing, Then, Waits, Ends, Disconnects, Fails, Connects, Runs, Wakes,
                 Requested
<1>1. CASE StopListener(o)
  BY <1>1 DEF StopListener
<1>2. CASE Tell(o)
  BY <1>2 DEF Tell
<1>3. CASE GracefulTimeout(o)
  BY <1>3 DEF GracefulTimeout
<1>4. CASE Joined(o)
  BY <1>4 DEF Joined
<1>5. CASE Told(o)
  BY <1>5 DEF Told
<1>6. CASE StartServer(o)
  BY <1>6 DEF StartServer
<1>7. CASE RefusedStopped(o)
  BY <1>7 DEF RefusedStopped
<1>8. CASE Register(o)
  BY <1>8 DEF Register
<1>9. CASE Settle(o)
  BY <1>9 DEF Settle
<1>10. CASE ConnectTimeout(o)
  BY <1>10 DEF ConnectTimeout
<1>11. CASE TimedOut(o)
  BY <1>11 DEF TimedOut
<1>12. CASE ConnectFailed(o)
  BY <1>12 DEF ConnectFailed
<1>13. CASE Removed(o)
  BY <1>13 DEF Removed
<1>14. CASE Reverted(o)
  BY <1>14 DEF Reverted
<1>15. CASE BootCancelled(o)
  BY <1>15 DEF BootCancelled
<1>16. CASE Abandoned(o)
  BY <1>16 DEF Abandoned
<1>17. CASE StopAll(o)
  BY <1>17 DEF StopAll
<1>18. CASE Teardown(o)
  BY <1>18 DEF Teardown
<1>19. CASE Start(o)
  BY <1>19 DEF Start
<1>20. CASE Remove(o)
  BY <1>20 DEF Remove
<1>21. CASE Test(o)
  BY <1>21 DEF Test
<1>22. CASE Boot(o)
  BY <1>22 DEF Boot
<1>23. CASE Quit(o)
  BY <1>23 DEF Quit, Booting
<1> QED
  BY <1>1, <1>2, <1>3, <1>4, <1>5, <1>6, <1>7, <1>8, <1>9, <1>10, <1>11, <1>12, <1>13, <1>14, <1>15, <1>16, <1>17, <1>18, <1>19, <1>20, <1>21, <1>22, <1>23 DEF Request, Operation

LEMMA OperationKept ==
  ASSUME IInv, NEW o \in Ops, Request(o) \/ Operation(o)
  PROVE  AllKept'
<1> USE DEF IInv
<1> SUFFICES ASSUME NEW c \in Ops, Live(c)'
             PROVE  Kept(c)'
  BY DEF AllKept
<1>k. kind' = kind /\ c # None /\ op \in [Ops -> OpStates]
  BY OpFrame, NoneAssumption DEF TypeOK
<1>1. CASE c = o /\ Register(o)
  BY <1>1 DEF Register, Refuses, Kept
<1>2. CASE c = o /\ Test(o)
  <2>1. kind[o] = "test"
    BY <1>2 DEF Test, Requested
  <2> QED
    BY <1>2, <2>1, <1>k, Makes DEF Kept
<1>3. CASE ~(c = o /\ (Register(o) \/ Test(o)))
  <2>1. Live(c) /\ ~conn'[c].stop
    BY <1>3, ConnFrame DEF Live, Alive
  <2>2. Kept(c)
    BY <2>1 DEF AllKept
  <2>3. CASE registered = c /\ ~stopped
    <3>1. CASE registered' = registered /\ stopped' = stopped
      BY <3>1, <2>3 DEF Kept
    <3>2. CASE Register(o)
      <4>1. op[o].target # c
        <5>1. op[o].pc \in LetGo
          BY <3>2 DEF Register, Runs, LetGo
        <5> QED
          BY <5>1, <2>1, <1>k DEF Told4Good, Live
      <4> QED
        BY <3>2, <4>1, <2>3, <1>k DEF Register, Kept
    <3>3. CASE Remove(o)
      <4>1. kind[o] # "boot"
        BY <3>3 DEF Remove, Requested
      <4>2. op'[o].pc = "disconnect" /\ op'[o].target = c
        BY <3>3, <2>3, <1>k DEF Remove, Disconnects, OpStates
      <4> QED
        BY <4>1, <4>2, <1>k DEF Tearing, Kept
    <3>4. CASE StopAll(o)
      <4>1. op'[o].pc = "teardown" /\ op'[o].target = c
        BY <3>4, <2>3, <1>k DEF StopAll, OpStates
      <4>2. kind[o] # "boot"
        BY <3>4 DEF StopAll, KindsFit, Runs, Wakes
      <4> QED
        BY <4>1, <4>2, <1>k DEF Tearing, Kept
    <3> QED
      BY <3>1, <3>2, <3>3, <3>4, RegistryFrame
  <2>4. CASE c \in overwritten
    BY <2>4, RegistryFrame DEF Kept
  <2>5. ASSUME NEW b \in Ops, Tearing(b, c)
        PROVE  Kept(c)'
    <3>1. CASE b = o
      BY <3>1, <2>1, <2>5, TearingGoesOn DEF Kept
    <3>2. CASE b # o
      BY <3>2, <2>5, OpFrame DEF Kept, Tearing
    <3> QED
      BY <3>1, <3>2
  <2>6. CASE kind[c] = "test" /\ op[c].pc = "settling"
    <3>1. CASE c = o
      BY <3>1, <2>6, <1>k, TestGoesOn DEF Kept
    <3>2. CASE c # o
      BY <3>2, <2>6, OpFrame DEF Kept
    <3> QED
      BY <3>1, <3>2
  <2> QED
    BY <2>2, <2>3, <2>4, <2>5, <2>6 DEF Kept
<1> QED
  BY <1>1, <1>2, <1>3

-----------------------------------------------------------------------------
\* A supervisor revives nothing and tells nobody.
LEMMA SupervisorInv ==
  ASSUME IInv, NEW c \in Ops, Supervisor(c)
  PROVE  AllKept' /\ MadeOnce' /\ Told4Good' /\ KindsFit'
<1>1. /\ kind' = kind /\ op' = op /\ registered' = registered /\ stopped' = stopped
      /\ overwritten' = overwritten
      /\ \A d \in Ops : /\ conn'[d].stop = conn[d].stop
                        /\ Alive(d)' => Alive(d)
                        /\ conn'[d].sup = "none" <=> conn[d].sup = "none"
  BY SupervisorStep DEF IInv, operations, Alive
<1>2. \A d \in Ops : Live(d)' => Live(d)
  BY <1>1 DEF Live
<1>3. \A d \in Ops : Kept(d) => Kept(d)'
  BY <1>1 DEF Kept, Tearing
<1>4. MadeOnce'
  BY <1>1 DEF IInv, MadeOnce, Before, After
<1>5. Told4Good'
  <2>1. \A b \in Ops : op[b].target \in Ops \union {None}
    BY DEF IInv, TypeOK, OpStates
  <2> QED
    BY <1>1, <2>1 DEF IInv, Told4Good
<1>6. KindsFit'
  BY <1>1 DEF IInv, KindsFit
<1> QED
  BY <1>2, <1>3, <1>4, <1>5, <1>6 DEF IInv, AllKept

LEMMA StepInv == IInv /\ [Next]_vars => IInv'
<1> SUFFICES ASSUME IInv, [Next]_vars
             PROVE  IInv'
  OBVIOUS
<1>1. TypeOK'
  BY StepType DEF IInv
<1>2. ASSUME NEW c \in Ops, Supervisor(c)
      PROVE  IInv'
  BY <1>1, <1>2, SupervisorInv DEF IInv
<1>3. ASSUME NEW o \in Ops, Request(o) \/ Operation(o)
      PROVE  IInv'
  BY <1>1, <1>3, OperationMade, OperationTold, OperationKinds, OperationKept DEF IInv
<1>4. CASE UNCHANGED vars
  BY <1>4 DEF vars, operations, IInv, TypeOK, AllKept, Live, Alive, Kept, Tearing, MadeOnce, Before,
              After, Told4Good, KindsFit
<1> QED
  BY <1>2, <1>3, <1>4 DEF Next

THEOREM Inductive == Spec => []IInv
<1> QED
  BY InitInv, StepInv, PTL DEF Spec

(* Every field of every connection and operation keeps to its values.      *)
THEOREM TypeCorrect == Spec => []TypeOK
<1>1. IInv => TypeOK
  BY DEF IInv
<1> QED
  BY <1>1, Inductive, PTL

(* No connection is forgotten (connection.py:2410-2628): however starts,   *)
(* stops, restarts, tests and the end of the program overlap, one that     *)
(* still serves is registered or in the hands of an operation in flight,   *)
(* unless start_server() replaced it unseen.                               *)
THEOREM NoStrayTheorem == Spec => []NoStray
<1>1. ASSUME IInv, NEW c \in Ops, Kept(c)
      PROVE  \/ registered = c /\ ~stopped
             \/ c \in overwritten
             \/ \E o \in Ops : Responsible(o, c)
  BY <1>1 DEF Kept, Tearing, Responsible, InFlight
<1>2. IInv => NoStray
  BY <1>1 DEF IInv, AllKept, NoStray
<1> QED
  BY <1>2, Inductive, PTL

-----------------------------------------------------------------------------
(* A connection by itself: whatever an operation does to it, its supervisor *)
(* goes on as it should.                                                   *)

\* No child of a supervisor in one of these places, and an attempt may follow.
Idling == {"created", "loop", "asking", "backoff"}

\* The listener is the client's; what drops an attempt broke it; a stop takes the
\* task and cancels a supervisor that might launch.
Clean(r) ==
  /\ r.listener => r.sup = "ready"
  /\ (r.sup \in {"asking", "launching", "ready"} /\ (r.notice = "current" \/ r.dropped)) => r.broken
  /\ r.sup \in Idling => r.health # "ready" /\ (r.stop => r.cancelled)
  /\ r.sup # "none" => (r.task <=> ~r.stop)

AllClean == \A c \in Ops : Clean(conn[c])

\* A supervisor that is over is clean if it was, and so is one that leaves.
LEMMA CleanRecords ==
  ASSUME NEW r \in Connections, Clean(r), r.sup # "none",
         NEW health, NEW settled, NEW why
  PROVE  /\ r.sup # "ready" => Clean(Over(r, health, settled))
         /\ Clean(Left(r, why))
         /\ Clean([Left(r, why) EXCEPT !.cancelled = FALSE])
  BY DEF Clean, Over, Left, Connections, Idling

LEMMA SupervisorClean ==
  ASSUME TypeOK, AllClean, NEW c \in Ops, Supervisor(c)
  PROVE  AllClean'
<1>b. /\ conn \in [Ops -> Connections]
      /\ conn[c] \in Connections /\ Clean(conn[c])
      /\ conn[c].sup \in Sups
  BY DEF TypeOK, AllClean, Connections
<1>o. \A health, settled : (conn[c].sup \notin {"none", "ready"}) => Clean(Over(conn[c], health, settled))
  BY <1>b, CleanRecords
<1>l. conn[c].sup # "none" => \A why : /\ Clean(Left(conn[c], why))
                                       /\ Clean([Left(conn[c], why) EXCEPT !.cancelled = FALSE])
  BY <1>b, CleanRecords
<1>w. ASSUME Clean(conn'[c])
      PROVE  AllClean'
  BY <1>w, SupervisorStep DEF AllClean
<1> SUFFICES Clean(conn'[c])
  BY <1>w
<1> USE <1>b DEF Step
<1>1. CASE BeginAttempt(c)
  BY <1>1, <1>o, ZenonT(60) DEF BeginAttempt, Clean, Connections, Idling
<1>2. CASE Launch(c)
  BY <1>2 DEF Launch, Clean, Connections, Idling
<1>3. CASE Refused(c)
  BY <1>3, <1>o DEF Refused
<1>4. CASE Ready(c)
  BY <1>4 DEF Ready, Clean, Connections, Idling
<1>5. CASE LaunchFails(c)
  BY <1>5 DEF LaunchFails, Clean, Connections, Idling
<1>6. CASE BackoffEnds(c)
  BY <1>6 DEF BackoffEnds, Clean, Connections, Idling
<1>7. CASE HoldOpenEnds(c)
  BY <1>7, <1>l DEF HoldOpenEnds
<1>8. CASE HeartbeatFails(c)
  BY <1>8, <1>l DEF HeartbeatFails
<1>9. CASE StreamEnds(c)
  BY <1>9 DEF StreamEnds, Attempted, Clean, Connections, Idling
<1>10. CASE NoticeArrives(c)
  BY <1>10 DEF NoticeArrives, Droppable, Concerns, Clean, Connections, Idling
<1>11. CASE Closed(c)
  <2>1. conn[c].sup = "leaving"
    BY <1>11 DEF Closed
  <2>2. CASE conn[c].why = "stop"
    <3>1. conn' = [conn EXCEPT ![c] = Over(conn[c], "disconnected", TRUE)]
      BY <1>11, <2>2 DEF Closed
    <3> QED
      BY <3>1, <2>1, <1>o
  <2>3. CASE conn[c].why # "stop"
    <3>1. PICK n : conn' = [conn EXCEPT ![c] =
                             IF Retries(conn[c], n)
                               THEN [conn[c] EXCEPT !.sup = "backoff", !.health = "failed",
                                                    !.settled = TRUE, !.attempt = n]
                               ELSE Over(conn[c], "failed", TRUE)]
      BY <1>11, <2>3 DEF Closed
    <3>2. CASE Retries(conn[c], n)
      BY <3>1, <3>2, <2>1 DEF Retries, Clean, Connections, Idling
    <3>3. CASE ~Retries(conn[c], n)
      BY <3>1, <3>3, <2>1, <1>o
    <3> QED
      BY <3>2, <3>3
  <2> QED
    BY <2>2, <2>3
<1>12. CASE CancelArrives(c)
  <2>1. CASE conn[c].sup \in {"created", "loop", "asking", "backoff"}
    <3>1. \E h, t : conn'[c] = Over(conn[c], h, t)
      BY <1>12, <2>1 DEF CancelArrives
    <3> QED
      BY <3>1, <2>1, <1>o
  <2>2. CASE conn[c].sup \in {"launching", "ready", "leaving"}
    <3>1. conn'[c] = [Left(conn[c], "cancel") EXCEPT !.cancelled = FALSE]
      BY <1>12, <2>2 DEF CancelArrives
    <3> QED
      BY <3>1, <2>2, <1>l
  <2> QED
    BY <1>12, <2>1, <2>2 DEF CancelArrives
<1>13. CASE CancelledClosed(c)
  BY <1>13, <1>o DEF CancelledClosed
<1>14. CASE FaultArrives(c)
  BY <1>14 DEF FaultArrives, Attempted, Clean, Connections, Idling
<1> QED
  BY <1>1, <1>2, <1>3, <1>4, <1>5, <1>6, <1>7, <1>8, <1>9, <1>10, <1>11, <1>12, <1>13, <1>14
  DEF Supervisor

LEMMA MadeClean ==
  ASSUME TypeOK, AllClean, NEW o \in Ops, Register(o) \/ Test(o), NEW c \in Ops
  PROVE  Clean(conn'[c])
<1>1. conn' = [conn EXCEPT ![o] = [NewConn EXCEPT !.sup = "created", !.task = TRUE,
                                                 !.health = "connecting"]]
  BY Makes
<1>2. Clean([NewConn EXCEPT !.sup = "created", !.task = TRUE, !.health = "connecting"])
  BY DEF Clean, NewConn, Idling
<1> QED
  BY <1>1, <1>2 DEF TypeOK, AllClean

LEMMA OperationClean ==
  ASSUME TypeOK, AllClean, NEW o \in Ops, Request(o) \/ Operation(o)
  PROVE  AllClean'
<1> SUFFICES ASSUME NEW c \in Ops
             PROVE  Clean(conn'[c])
  BY DEF AllClean
<1>b. /\ conn \in [Ops -> Connections]
      /\ conn[c] \in Connections /\ Clean(conn[c])
  BY DEF TypeOK, AllClean
<1> USE <1>b DEF Clean, Connections, Sups, Idling
<1>1. CASE StopListener(o)
  BY <1>1 DEF StopListener
<1>2. CASE Tell(o)
  <2> DEFINE d == op[o].target
             mine == conn[d].task /\ Alive(d)
  <2>1. conn' = [conn EXCEPT ![d].stop = TRUE, ![d].task = FALSE,
                             ![d].cancelled = @ \/ (mine /\ Cancels(conn[d]))]
    BY <1>2 DEF Tell
  <2>2. CASE c # d
    <3>1. conn'[c] = conn[c]
      BY <2>1, <2>2
    <3> QED
      BY <3>1
  <2>3. CASE c = d
    <3>1. conn'[c] = [conn[c] EXCEPT !.stop = TRUE, !.task = FALSE,
                                     !.cancelled = @ \/ (mine /\ Cancels(conn[c]))]
      BY <2>1, <2>3
    <3> QED
      BY <3>1, <2>3, SMTT(40) DEF Cancels, Alive
  <2> QED
    BY <2>2, <2>3
<1>3. CASE GracefulTimeout(o)
  BY <1>3 DEF GracefulTimeout
<1>4. CASE Joined(o)
  BY <1>4 DEF Joined
<1>5. CASE Told(o)
  BY <1>5 DEF Told, HealthAfter
<1>6. CASE StartServer(o)
  BY <1>6 DEF StartServer
<1>7. CASE RefusedStopped(o)
  BY <1>7 DEF RefusedStopped
<1>8. CASE Register(o)
  BY <1>8, MadeClean
<1>9. CASE Settle(o)
  BY <1>9 DEF Settle
<1>10. CASE ConnectTimeout(o)
  BY <1>10 DEF ConnectTimeout
<1>11. CASE TimedOut(o)
  BY <1>11 DEF TimedOut
<1>12. CASE ConnectFailed(o)
  BY <1>12 DEF ConnectFailed
<1>13. CASE Removed(o)
  BY <1>13 DEF Removed
<1>14. CASE Reverted(o)
  BY <1>14 DEF Reverted
<1>15. CASE BootCancelled(o)
  BY <1>15 DEF BootCancelled, Alive
<1>16. CASE Abandoned(o)
  BY <1>16 DEF Abandoned
<1>17. CASE StopAll(o)
  BY <1>17 DEF StopAll
<1>18. CASE Teardown(o)
  BY <1>18 DEF Teardown
<1>19. CASE Start(o)
  BY <1>19 DEF Start
<1>20. CASE Remove(o)
  BY <1>20 DEF Remove
<1>21. CASE Test(o)
  BY <1>21, MadeClean
<1>22. CASE Boot(o)
  BY <1>22 DEF Boot
<1>23. CASE Quit(o)
  BY <1>23 DEF Quit
<1> QED
  BY <1>1, <1>2, <1>3, <1>4, <1>5, <1>6, <1>7, <1>8, <1>9, <1>10, <1>11, <1>12, <1>13, <1>14, <1>15, <1>16, <1>17, <1>18, <1>19, <1>20, <1>21, <1>22, <1>23
  DEF Request, Operation

LEMMA StepClean == TypeOK /\ AllClean /\ [Next]_vars => AllClean'
<1>1. ASSUME UNCHANGED vars, AllClean
      PROVE  AllClean'
  BY <1>1 DEF vars, AllClean
<1> QED
  BY <1>1, SupervisorClean, OperationClean DEF Next

THEOREM CleanInvariant == Spec => []AllClean
<1>1. Init => AllClean
  BY DEF Init, AllClean, Clean, NewConn, Idling
<1> QED
  BY <1>1, StepClean, TypeCorrect, PTL DEF Spec

(* The task that follows a server's changes (connection.py, _start_follower *)
(* and _stop_follower) ends with the attempt it listens to, however that   *)
(* ends: by a stop, a drop, a cancellation or a failed reconnect.          *)
THEOREM ListenerTheorem == Spec => []ListenerHasClient
<1>1. AllClean => ListenerHasClient
  BY DEF AllClean, Clean, ListenerHasClient
<1> QED
  BY <1>1, CleanInvariant, PTL

(* A late notice of an earlier attempt (connection.py:1476-1483) drops     *)
(* nothing: an attempt is dropped only for what happened to a connection   *)
(* while it was the attempt in progress, be it the end of its stream       *)
(* (1476), a tool call that found it closed (1990) or an exception of a    *)
(* transport (1513), which the code charges to the attempt it finds.       *)
THEOREM DropTheorem == Spec => []DropIsOwn
<1>1. AllClean => DropIsOwn
  BY DEF AllClean, Clean, DropIsOwn
<1> QED
  BY <1>1, CleanInvariant, PTL

\* Only a launch makes a child, and nobody cancels what is not told to stop.
LEMMA StaysDown ==
  ASSUME TypeOK, AllClean, [Next]_vars, NEW c \in Ops, conn[c].stop, ~Child(c)
  PROVE  ~Child(c)'
<1>1. ASSUME NEW o \in Ops, Request(o) \/ Operation(o)
      PROVE  ~Child(c)'
  <2>1. CASE c = o /\ (Register(o) \/ Test(o))
    BY <2>1, Makes DEF Child
  <2>2. CASE ~(c = o /\ (Register(o) \/ Test(o)))
    BY <1>1, <2>2, ConnFrame DEF Child
  <2> QED
    BY <2>1, <2>2
<1>2. ASSUME NEW d \in Ops, Supervisor(d)
      PROVE  ~Child(c)'
  <2>1. CASE d # c
    BY <1>2, <2>1, SupervisorStep DEF Child
  <2>2. CASE d = c
    <3>b. /\ conn \in [Ops -> Connections] /\ Clean(conn[c])
          /\ conn[c].sup \notin {"launching", "ready", "leaving"}
          /\ \A h, t : Over(conn[c], h, t).sup = "done"
      BY DEF TypeOK, AllClean, Child, Over, Connections
    <3> USE <3>b DEF Child, Step
    <3>1. ~Launch(c)
      BY DEF Launch, Clean, Idling
    <3>2. CASE BeginAttempt(c)
      BY <3>2 DEF BeginAttempt, Connections
    <3>3. CASE Refused(c)
      BY <3>3 DEF Refused
    <3>4. CASE BackoffEnds(c)
      BY <3>4 DEF BackoffEnds, Connections
    <3>5. CASE NoticeArrives(c)
      BY <3>5 DEF NoticeArrives, Connections
    <3>6. CASE CancelArrives(c)
      <4>1. \E h, t : conn'[c] = Over(conn[c], h, t)
        BY <3>6 DEF CancelArrives
      <4> QED
        BY <4>1
    <3>7. ~(\/ Ready(c) \/ LaunchFails(c) \/ HoldOpenEnds(c) \/ HeartbeatFails(c)
            \/ StreamEnds(c) \/ FaultArrives(c) \/ Closed(c) \/ CancelledClosed(c))
      BY DEF Ready, LaunchFails, HoldOpenEnds, HeartbeatFails, StreamEnds, Attempted, FaultArrives,
             Closed, CancelledClosed
    <3> QED
      BY <1>2, <2>2, <3>1, <3>2, <3>3, <3>4, <3>5, <3>6, <3>7 DEF Supervisor
  <2> QED
    BY <2>1, <2>2
<1>3. CASE UNCHANGED vars
  BY <1>3 DEF vars, Child
<1> QED
  BY <1>1, <1>2, <1>3 DEF Next

(* A connection told to stop (connection.py:1839-1882) launches nothing:   *)
(* a consent that comes too late, a reconnect that was due and a second    *)
(* attempt are all stopped by its cancellation.                            *)
THEOREM StaysDownTheorem == Spec => StoppedStaysDown
<1>1. TypeOK /\ AllClean /\ [Next]_vars
        => [\A c \in Ops : conn[c].stop /\ ~Child(c) => ~Child(c)']_vars
  BY StaysDown
<1> QED
  BY <1>1, CleanInvariant, TypeCorrect, PTL DEF Spec, StoppedStaysDown

-----------------------------------------------------------------------------
(* The reason a server is not running.  While a teardown of a failed        *)
(* connection waits, that one's supervisor is cancelled: it may close its   *)
(* transport and end, and neither touches its health.  Nothing else makes a *)
(* connection anew, and only the abandonment of a start resets it.          *)

\* The end of the program has cancelled the start that made c.
Exempt(c) == closing /\ kind[c] = "boot"

\* A supervisor that has ended or can only end.
Quenched(r) == \/ r.sup \in {"none", "done"}
               \/ r.cancelled
               \/ r.sup = "leaving" /\ r.why = "cancel"

ReasonHeld(o) ==
  (op[o].hadFailed /\ op[o].pc \in Disconnecting /\ ~Exempt(op[o].target))
    => /\ op[o].pc \in {"disconnect", "join", "told"}
       /\ conn[op[o].target].health = "failed"
       /\ op[o].pc = "join" => Quenched(conn[op[o].target])

\* Who runs, who is cancelled, and who listens.
Placed ==
  /\ \A o \in Ops : op[o].pc \in {"disconnect", "told"} => active = o
  /\ \A o \in Ops : op[o].cancelled \/ op[o].pc = "abandoned" => Exempt(o)
  /\ \A c \in Ops : /\ conn[c].follow => op[c].pc = "ended"
                    /\ conn[c].listener => conn[c].follow /\ conn[c].health # "failed"

Reasons == Placed /\ \A o \in Ops : ReasonHeld(o)

\* An operation leaves a failure and a cancellation as they are.
LEMMA FailureFrame ==
  ASSUME TypeOK, NEW o \in Ops, Request(o) \/ Operation(o), NEW c \in Ops,
         ~(c = o /\ (Register(o) \/ Test(o) \/ Abandoned(o)))
  PROVE  /\ conn[c].health = "failed" => conn'[c].health = "failed"
         /\ Quenched(conn[c]) => Quenched(conn'[c])
<1>b. conn \in [Ops -> Connections]
  BY DEF TypeOK
<1> USE <1>b DEF Connections, Connects, Quenched
<1>1. CASE StopListener(o)
  BY <1>1, SMTT(40) DEF StopListener
<1>2. CASE Tell(o)
  <2> DEFINE t == op[o].target
  <2>1. PICK v : /\ conn' = [conn EXCEPT ![t].stop = TRUE, ![t].task = FALSE, ![t].cancelled = v]
                 /\ conn[t].cancelled => v
    BY <1>2 DEF Tell
  <2>2. conn'[c].health = conn[c].health /\ conn'[c].sup = conn[c].sup /\ conn'[c].why = conn[c].why
    BY <2>1
  <2>3. conn[c].cancelled => conn'[c].cancelled
    BY <2>1
  <2> QED
    BY <2>2, <2>3
<1>3. CASE GracefulTimeout(o)
  BY <1>3 DEF GracefulTimeout
<1>4. CASE Joined(o)
  BY <1>4 DEF Joined
<1>5. CASE Told(o)
  BY <1>5 DEF Told, HealthAfter
<1>6. CASE StartServer(o)
  BY <1>6 DEF StartServer
<1>7. CASE RefusedStopped(o)
  BY <1>7 DEF RefusedStopped
<1>8. CASE Register(o)
  BY <1>8 DEF Register
<1>9. CASE Settle(o)
  BY <1>9 DEF Settle
<1>10. CASE ConnectTimeout(o)
  BY <1>10 DEF ConnectTimeout
<1>11. CASE TimedOut(o)
  BY <1>11 DEF TimedOut
<1>12. CASE ConnectFailed(o)
  BY <1>12 DEF ConnectFailed
<1>13. CASE Removed(o)
  BY <1>13 DEF Removed
<1>14. CASE Reverted(o)
  BY <1>14 DEF Reverted
<1>15. CASE BootCancelled(o)
  BY <1>15 DEF BootCancelled
<1>16. CASE Abandoned(o)
  BY <1>16 DEF Abandoned
<1>17. CASE StopAll(o)
  BY <1>17 DEF StopAll
<1>18. CASE Teardown(o)
  BY <1>18 DEF Teardown
<1>19. CASE Start(o)
  BY <1>19 DEF Start
<1>20. CASE Remove(o)
  BY <1>20 DEF Remove
<1>21. CASE Test(o)
  BY <1>21 DEF Test
<1>22. CASE Boot(o)
  BY <1>22 DEF Boot
<1>23. CASE Quit(o)
  BY <1>23 DEF Quit
<1> QED
  BY <1>1, <1>2, <1>3, <1>4, <1>5, <1>6, <1>7, <1>8, <1>9, <1>10, <1>11, <1>12, <1>13, <1>14, <1>15, <1>16, <1>17, <1>18, <1>19, <1>20, <1>21, <1>22, <1>23 DEF Request, Operation

\* So does a supervisor that can only end.
LEMMA SupervisorFailure ==
  ASSUME TypeOK, NEW c \in Ops, Supervisor(c), Quenched(conn[c])
  PROVE  conn'[c].health = conn[c].health /\ Quenched(conn'[c])
<1>b. conn \in [Ops -> Connections] /\ conn[c] \in Connections
  BY DEF TypeOK
<1>o. /\ Over(conn[c], conn[c].health, TRUE).health = conn[c].health
      /\ Over(conn[c], conn[c].health, TRUE).sup = "done"
      /\ Over(conn[c], conn[c].health, conn[c].settled).health = conn[c].health
      /\ Over(conn[c], conn[c].health, conn[c].settled).sup = "done"
  BY <1>b DEF Over, Connections
<1> USE <1>b DEF Connections, Step, Quenched
<1>1. CASE BeginAttempt(c)
  BY <1>1 DEF BeginAttempt
<1>2. CASE Launch(c)
  BY <1>2 DEF Launch
<1>3. CASE Refused(c)
  BY <1>3 DEF Refused
<1>4. CASE Ready(c)
  BY <1>4 DEF Ready
<1>5. CASE LaunchFails(c)
  BY <1>5 DEF LaunchFails
<1>6. CASE BackoffEnds(c)
  BY <1>6 DEF BackoffEnds
<1>7. CASE HoldOpenEnds(c)
  BY <1>7 DEF HoldOpenEnds
<1>8. CASE HeartbeatFails(c)
  BY <1>8 DEF HeartbeatFails
<1>9. CASE StreamEnds(c)
  BY <1>9 DEF StreamEnds, Attempted
<1>10. CASE NoticeArrives(c)
  BY <1>10 DEF NoticeArrives
<1>11. CASE Closed(c)
  BY <1>11 DEF Closed
<1>12. CASE CancelArrives(c)
  <2>1. CASE conn[c].sup \in {"launching", "ready", "leaving"}
    <3>1. conn'[c] = [conn[c] EXCEPT !.sup = "leaving", !.why = "cancel", !.listener = FALSE,
                                     !.cancelled = FALSE]
      BY <1>12, <2>1 DEF CancelArrives, Left
    <3> QED
      BY <3>1
  <2>2. CASE conn[c].sup \notin {"launching", "ready", "leaving"}
    <3>0. conn[c].sup \in {"created", "loop", "asking", "backoff"}
      BY <1>12, <2>2 DEF CancelArrives
    <3>1. \/ conn'[c] = Over(conn[c], conn[c].health, conn[c].settled)
          \/ conn'[c] = Over(conn[c], conn[c].health, TRUE)
      BY <1>12, <3>0 DEF CancelArrives
    <3> QED
      BY <3>1, <1>o
  <2> QED
    BY <2>1, <2>2
<1>13. CASE CancelledClosed(c)
  BY <1>13, <1>o DEF CancelledClosed
<1>14. CASE FaultArrives(c)
  BY <1>14 DEF FaultArrives, Attempted
<1> QED
  BY <1>1, <1>2, <1>3, <1>4, <1>5, <1>6, <1>7, <1>8, <1>9, <1>10, <1>11, <1>12, <1>13, <1>14 DEF Supervisor

\* Who may move, and what it leaves of the others.
LEMMA Moves ==
  ASSUME TypeOK, KindsFit, NEW o \in Ops, Request(o) \/ Operation(o)
  PROVE  /\ active \in {None, o}
         /\ op[o].pc # "ended"
         /\ closing => closing'
         /\ op'[o].pc \in {"disconnect", "told"} => active' = o
         /\ op'[o].cancelled => op[o].cancelled
         /\ op'[o].pc = "abandoned" => op[o].cancelled
         /\ \A b \in Ops \ {o} : /\ op'[b].hadFailed = op[b].hadFailed
                                 /\ op'[b].cancelled => op[b].cancelled \/ (closing' /\ kind[b] = "boot")
<1>b. /\ op \in [Ops -> OpStates]
      /\ op[o].pc = "told" => op[o].then \in {"replaced", "removed", "failed", "timedOut", "ended"}
  BY DEF TypeOK, KindsFit, Disconnecting
<1> USE <1>b DEF OpStates, Then, Waits, Ends, Disconnects, Fails, Connects, Runs, Wakes, Requested
<1>1. CASE StopListener(o)
  BY <1>1 DEF StopListener
<1>2. CASE Tell(o)
  BY <1>2 DEF Tell
<1>3. CASE GracefulTimeout(o)
  BY <1>3 DEF GracefulTimeout
<1>4. CASE Joined(o)
  BY <1>4 DEF Joined
<1>5. CASE Told(o)
  BY <1>5 DEF Told
<1>6. CASE StartServer(o)
  BY <1>6 DEF StartServer
<1>7. CASE RefusedStopped(o)
  BY <1>7 DEF RefusedStopped
<1>8. CASE Register(o)
  BY <1>8 DEF Register
<1>9. CASE Settle(o)
  BY <1>9 DEF Settle
<1>10. CASE ConnectTimeout(o)
  BY <1>10 DEF ConnectTimeout
<1>11. CASE TimedOut(o)
  BY <1>11 DEF TimedOut
<1>12. CASE ConnectFailed(o)
  BY <1>12 DEF ConnectFailed
<1>13. CASE Removed(o)
  BY <1>13 DEF Removed
<1>14. CASE Reverted(o)
  BY <1>14 DEF Reverted
<1>15. CASE BootCancelled(o)
  BY <1>15 DEF BootCancelled
<1>16. CASE Abandoned(o)
  BY <1>16 DEF Abandoned
<1>17. CASE StopAll(o)
  BY <1>17 DEF StopAll
<1>18. CASE Teardown(o)
  BY <1>18 DEF Teardown
<1>19. CASE Start(o)
  BY <1>19 DEF Start
<1>20. CASE Remove(o)
  BY <1>20 DEF Remove
<1>21. CASE Test(o)
  BY <1>21 DEF Test
<1>22. CASE Boot(o)
  BY <1>22 DEF Boot
<1>23. CASE Quit(o)
  BY <1>23 DEF Quit, Booting
<1> QED
  BY <1>1, <1>2, <1>3, <1>4, <1>5, <1>6, <1>7, <1>8, <1>9, <1>10, <1>11, <1>12, <1>13, <1>14, <1>15, <1>16, <1>17, <1>18, <1>19, <1>20, <1>21, <1>22, <1>23 DEF Request, Operation


\* The task that follows a server's changes starts when its operation ends, at a
\* client that serves; a reason is kept by no such connection.
LEMMA OwnPlaced ==
  ASSUME TypeOK, KindsFit, Placed, NEW o \in Ops, Request(o) \/ Operation(o), NEW c \in Ops
  PROVE  /\ conn'[c].follow => op'[c].pc = "ended"
         /\ conn'[c].listener => conn'[c].follow /\ conn'[c].health # "failed"
<1>b. /\ op \in [Ops -> OpStates] /\ conn \in [Ops -> Connections] /\ op[o].pc # "ended"
      /\ conn[c].follow => op[c].pc = "ended"
      /\ conn[c].listener => conn[c].follow /\ conn[c].health # "failed"
      /\ c # o => op'[c].pc = op[c].pc
  BY Moves, OpFrame DEF TypeOK, Placed
<1> USE <1>b DEF OpStates, Connections, NewConn, Then, Waits, Ends, Disconnects, Fails, Connects,
                 Runs, Wakes, Requested
<1>1. CASE StopListener(o)
  BY <1>1 DEF StopListener
<1>2. CASE Tell(o)
  BY <1>2 DEF Tell
<1>3. CASE GracefulTimeout(o)
  BY <1>3 DEF GracefulTimeout
<1>4. CASE Joined(o)
  BY <1>4 DEF Joined
<1>5. CASE Told(o)
  BY <1>5 DEF Told, HealthAfter
<1>6. CASE StartServer(o)
  BY <1>6 DEF StartServer
<1>7. CASE RefusedStopped(o)
  BY <1>7 DEF RefusedStopped
<1>8. CASE Register(o)
  BY <1>8 DEF Register
<1>9. CASE Settle(o)
  BY <1>9 DEF Settle
<1>10. CASE ConnectTimeout(o)
  BY <1>10 DEF ConnectTimeout
<1>11. CASE TimedOut(o)
  BY <1>11 DEF TimedOut
<1>12. CASE ConnectFailed(o)
  BY <1>12 DEF ConnectFailed
<1>13. CASE Removed(o)
  BY <1>13 DEF Removed
<1>14. CASE Reverted(o)
  BY <1>14 DEF Reverted
<1>15. CASE BootCancelled(o)
  BY <1>15 DEF BootCancelled
<1>16. CASE Abandoned(o)
  BY <1>16 DEF Abandoned
<1>17. CASE StopAll(o)
  BY <1>17 DEF StopAll
<1>18. CASE Teardown(o)
  BY <1>18 DEF Teardown
<1>19. CASE Start(o)
  BY <1>19 DEF Start
<1>20. CASE Remove(o)
  BY <1>20 DEF Remove
<1>21. CASE Test(o)
  BY <1>21 DEF Test
<1>22. CASE Boot(o)
  BY <1>22 DEF Boot
<1>23. CASE Quit(o)
  BY <1>23, SMTT(40) DEF Quit
<1> QED
  BY <1>1, <1>2, <1>3, <1>4, <1>5, <1>6, <1>7, <1>8, <1>9, <1>10, <1>11, <1>12, <1>13, <1>14, <1>15, <1>16, <1>17, <1>18, <1>19, <1>20, <1>21, <1>22, <1>23 DEF Request, Operation

\* What it means for the reason of a teardown that it goes on.
LEMMA OwnReason ==
  ASSUME TypeOK, KindsFit, Told4Good, Reasons, NEW o \in Ops, Request(o) \/ Operation(o)
  PROVE  ReasonHeld(o)'
<1>b. /\ op \in [Ops -> OpStates] /\ conn \in [Ops -> Connections] /\ kind' = kind
      /\ \A c \in Ops : conn[c].listener => conn[c].health # "failed"
      /\ op[o].pc \in Disconnecting => op[o].target \in Ops
      /\ op[o].pc = "told" => op[o].then \in {"replaced", "removed", "failed", "timedOut", "ended"}
      /\ ReasonHeld(o)
  BY OpFrame DEF TypeOK, Reasons, Placed, Told4Good, KindsFit, Disconnecting, OpStates
<1> USE <1>b DEF OpStates, Connections, ReasonHeld, Exempt, Disconnecting, Quenched, Then, Waits,
                 Ends, Disconnects, Fails, Connects, Runs, Wakes, Requested
<1>1. CASE StopListener(o)
  BY <1>1 DEF StopListener
<1>2. CASE Tell(o)
  <2> DEFINE c == op[o].target
             mine == conn[c].task /\ Alive(c)
  <2>1. /\ c \in Ops
        /\ conn' = [conn EXCEPT ![c].stop = TRUE, ![c].task = FALSE,
                                ![c].cancelled = @ \/ (mine /\ Cancels(conn[c]))]
        /\ \/ ~mine /\ op' = [op EXCEPT ![o].pc = "told"]
           \/ mine /\ conn[c].health = "ready" /\ op' = [op EXCEPT ![o].pc = "graceful"]
           \/ mine /\ conn[c].health # "ready" /\ op' = [op EXCEPT ![o].pc = "join"]
        /\ closing' = closing
    BY <1>2 DEF Tell
  <2>2. /\ op'[o].target = c /\ op'[o].hadFailed = op[o].hadFailed
        /\ conn'[c].health = conn[c].health
        /\ op'[o].pc = "join" => mine /\ conn[c].health # "ready"
        /\ op'[o].pc = "graceful" => conn[c].health = "ready"
        /\ op'[o].pc \in {"told", "graceful", "join"}
    BY <2>1
  <2>3. (mine /\ conn[c].health # "ready") => conn'[c].cancelled
    BY <2>1 DEF Cancels
  <2>4. ASSUME op[o].hadFailed, ~Exempt(c)
        PROVE  conn[c].health = "failed"
    BY <2>4, <1>2 DEF Tell
  <2> HIDE DEF c, mine
  <2> QED
    BY <2>1, <2>2, <2>3, <2>4
<1>3. CASE GracefulTimeout(o)
  BY <1>3 DEF GracefulTimeout
<1>4. CASE Joined(o)
  BY <1>4 DEF Joined, Alive
<1>5. CASE Told(o)
  BY <1>5 DEF Told
<1>6. CASE StartServer(o)
  BY <1>6 DEF StartServer
<1>7. CASE RefusedStopped(o)
  BY <1>7 DEF RefusedStopped
<1>8. CASE Register(o)
  BY <1>8 DEF Register
<1>9. CASE Settle(o)
  BY <1>9 DEF Settle
<1>10. CASE ConnectTimeout(o)
  BY <1>10 DEF ConnectTimeout
<1>11. CASE TimedOut(o)
  BY <1>11 DEF TimedOut
<1>12. CASE ConnectFailed(o)
  BY <1>12 DEF ConnectFailed
<1>13. CASE Removed(o)
  BY <1>13 DEF Removed
<1>14. CASE Reverted(o)
  BY <1>14 DEF Reverted
<1>15. CASE BootCancelled(o)
  BY <1>15 DEF BootCancelled
<1>16. CASE Abandoned(o)
  BY <1>16 DEF Abandoned
<1>17. CASE StopAll(o)
  BY <1>17 DEF StopAll
<1>18. CASE Teardown(o)
  BY <1>18 DEF Teardown
<1>19. CASE Start(o)
  BY <1>19 DEF Start
<1>20. CASE Remove(o)
  BY <1>20 DEF Remove
<1>21. CASE Test(o)
  BY <1>21 DEF Test
<1>22. CASE Boot(o)
  BY <1>22 DEF Boot
<1>23. CASE Quit(o)
  BY <1>23 DEF Quit
<1> QED
  BY <1>1, <1>2, <1>3, <1>4, <1>5, <1>6, <1>7, <1>8, <1>9, <1>10, <1>11, <1>12, <1>13, <1>14, <1>15, <1>16, <1>17, <1>18, <1>19, <1>20, <1>21, <1>22, <1>23 DEF Request, Operation

\* Nothing makes the target of an operation anew.
LEMMA TargetStays ==
  ASSUME TypeOK, MadeOnce, NEW o \in Ops, Register(o) \/ Test(o), NEW b \in Ops
  PROVE  op[b].target # o
  BY Makes DEF MadeOnce

LEMMA OperationReasons ==
  ASSUME IInv, Reasons, NEW o \in Ops, Request(o) \/ Operation(o)
  PROVE  Reasons'
<1>i. TypeOK /\ MadeOnce /\ KindsFit /\ Told4Good /\ Placed
  BY DEF IInv, Reasons
<1>k. kind' = kind
  BY <1>i, OpFrame
<1>e. \A c \in Ops : Exempt(c) => Exempt(c)'
  BY <1>i, <1>k, Moves DEF Exempt
<1>1. ASSUME NEW b \in Ops, op'[b].pc \in {"disconnect", "told"}
      PROVE  active' = b
  <2>1. CASE b = o
    BY <1>1, <2>1, <1>i, Moves
  <2>2. CASE b # o
    <3>1. active = b /\ b # None
      BY <1>1, <2>2, <1>i, OpFrame, NoneAssumption DEF Placed
    <3> QED
      BY <3>1, <2>2, <1>i, Moves
  <2> QED
    BY <2>1, <2>2
<1>2. ASSUME NEW b \in Ops, op'[b].cancelled \/ op'[b].pc = "abandoned"
      PROVE  Exempt(b)'
  <2>1. CASE b = o
    BY <1>2, <2>1, <1>i, <1>e, Moves DEF Placed
  <2>2. CASE b # o
    <3>1. op'[b].pc = op[b].pc
      BY <2>2, <1>i, OpFrame
    <3>2. op'[b].cancelled => op[b].cancelled \/ (closing' /\ kind[b] = "boot")
      BY <2>2, <1>i, Moves
    <3>3. op[b].cancelled \/ op[b].pc = "abandoned" => Exempt(b)'
      BY <1>i, <1>e DEF Placed
    <3> QED
      BY <1>2, <3>1, <3>2, <3>3, <1>k DEF Exempt
  <2> QED
    BY <2>1, <2>2
<1>3. Placed'
  BY <1>1, <1>2, <1>i, OwnPlaced DEF Placed
<1>4. ASSUME NEW b \in Ops
      PROVE  ReasonHeld(b)'
  <2>1. CASE b = o
    BY <2>1, <1>i, OwnReason DEF IInv
  <2>2. CASE b # o
    <3> SUFFICES ASSUME op'[b].hadFailed, op'[b].pc \in Disconnecting,
                        ~Exempt(op[b].target)'
                 PROVE  /\ op'[b].pc \in {"disconnect", "join", "told"}
                        /\ conn'[op'[b].target].health = "failed"
                        /\ op'[b].pc = "join" => Quenched(conn'[op'[b].target])
      BY DEF ReasonHeld, Quenched, Disconnecting
    <3> DEFINE c == op[b].target
    <3>1. /\ op'[b].pc = op[b].pc /\ op'[b].target = c /\ op'[b].hadFailed = op[b].hadFailed
      BY <2>2, <1>i, OpFrame, Moves
    <3>2. c \in Ops
      BY <3>1, <1>i DEF Told4Good, TypeOK, OpStates
    <3>3. ~Exempt(c)
      BY <3>1, <3>2, <1>e DEF Exempt
    <3>4. /\ op[b].pc \in {"disconnect", "join", "told"}
          /\ conn[c].health = "failed"
          /\ op[b].pc = "join" => Quenched(conn[c])
      BY <3>1, <3>3 DEF Reasons, ReasonHeld
    <3>5. ~(c = o /\ (Register(o) \/ Test(o)))
      BY <1>i, TargetStays
    <3>6. ~(c = o /\ Abandoned(o))
      BY <1>i, <3>3 DEF Placed, Abandoned, Wakes
    <3> HIDE DEF c
    <3>7. /\ conn[c].health = "failed" => conn'[c].health = "failed"
          /\ Quenched(conn[c]) => Quenched(conn'[c])
      BY <1>i, <3>2, <3>5, <3>6, FailureFrame
    <3> QED
      BY <3>1, <3>4, <3>7
  <2> QED
    BY <2>1, <2>2
<1> QED
  BY <1>3, <1>4 DEF Reasons

\* A supervisor listens only when ready, and then knows of no failure.
LEMMA SupervisorListens ==
  ASSUME TypeOK, AllClean, NEW c \in Ops, Supervisor(c),
         conn[c].listener => conn[c].follow /\ conn[c].health # "failed"
  PROVE  /\ active = None
         /\ conn'[c].follow = conn[c].follow
         /\ conn'[c].listener => conn'[c].follow /\ conn'[c].health # "failed"
<1>b. /\ conn \in [Ops -> Connections] /\ conn[c] \in Connections
      /\ conn[c].listener => conn[c].sup = "ready" /\ conn[c].follow /\ conn[c].health # "failed"
  BY DEF TypeOK, AllClean, Clean
<1> USE <1>b DEF Connections, Step
<1>1. CASE BeginAttempt(c)
  BY <1>1 DEF BeginAttempt, Over
<1>2. CASE Launch(c)
  BY <1>2 DEF Launch
<1>3. CASE Refused(c)
  BY <1>3 DEF Refused, Over
<1>4. CASE Ready(c)
  BY <1>4 DEF Ready
<1>5. CASE LaunchFails(c)
  BY <1>5 DEF LaunchFails
<1>6. CASE BackoffEnds(c)
  BY <1>6 DEF BackoffEnds
<1>7. CASE HoldOpenEnds(c)
  BY <1>7 DEF HoldOpenEnds, Left
<1>8. CASE HeartbeatFails(c)
  BY <1>8 DEF HeartbeatFails, Left
<1>9. CASE StreamEnds(c)
  BY <1>9 DEF StreamEnds, Attempted
<1>10. CASE NoticeArrives(c)
  BY <1>10 DEF NoticeArrives
<1>11. CASE Closed(c)
  <2>1. active = None /\ ~conn[c].listener
    BY <1>11 DEF Closed
  <2>2. ASSUME NEW h, conn' = [conn EXCEPT ![c] = Over(conn[c], h, TRUE)]
        PROVE  conn'[c].follow = conn[c].follow /\ ~conn'[c].listener
    <3>1. conn'[c] = Over(conn[c], h, TRUE)
      BY <2>2
    <3> QED
      BY <3>1, <2>1 DEF Over
  <2>3. CASE conn[c].why = "stop"
    <3>1. conn' = [conn EXCEPT ![c] = Over(conn[c], "disconnected", TRUE)]
      BY <1>11, <2>3 DEF Closed
    <3> QED
      BY <3>1, <2>1, <2>2
  <2>4. CASE conn[c].why # "stop"
    <3>1. PICK n : conn' = [conn EXCEPT ![c] =
                             IF Retries(conn[c], n)
                               THEN [conn[c] EXCEPT !.sup = "backoff", !.health = "failed",
                                                    !.settled = TRUE, !.attempt = n]
                               ELSE Over(conn[c], "failed", TRUE)]
      BY <1>11, <2>4 DEF Closed
    <3>2. CASE Retries(conn[c], n)
      BY <3>1, <3>2, <2>1
    <3>3. CASE ~Retries(conn[c], n)
      BY <3>1, <3>3, <2>1, <2>2
    <3> QED
      BY <3>2, <3>3
  <2> QED
    BY <2>3, <2>4
<1>12. CASE CancelArrives(c)
  <2>0. active = None
    BY <1>12 DEF CancelArrives
  <2>1. CASE conn[c].sup \in {"launching", "ready", "leaving"}
    <3>1. conn'[c] = [conn[c] EXCEPT !.sup = "leaving", !.why = "cancel", !.listener = FALSE,
                                     !.cancelled = FALSE]
      BY <1>12, <2>1 DEF CancelArrives, Left
    <3> QED
      BY <3>1, <2>0
  <2>2. CASE conn[c].sup \notin {"launching", "ready", "leaving"}
    <3>0. conn[c].sup \in {"created", "loop", "asking", "backoff"}
      BY <1>12, <2>2 DEF CancelArrives
    <3>1. \/ conn'[c] = Over(conn[c], conn[c].health, conn[c].settled)
          \/ conn'[c] = Over(conn[c], conn[c].health, TRUE)
      BY <1>12, <3>0 DEF CancelArrives
    <3>2. conn'[c].follow = conn[c].follow /\ conn'[c].listener = conn[c].listener
      BY <3>1 DEF Over
    <3> QED
      BY <3>0, <3>2, <2>0
  <2> QED
    BY <2>1, <2>2
<1>13. CASE CancelledClosed(c)
  BY <1>13 DEF CancelledClosed, Over
<1>14. CASE FaultArrives(c)
  BY <1>14 DEF FaultArrives, Attempted
<1> QED
  BY <1>1, <1>2, <1>3, <1>4, <1>5, <1>6, <1>7, <1>8, <1>9, <1>10, <1>11, <1>12, <1>13, <1>14 DEF Supervisor

LEMMA SupervisorReasons ==
  ASSUME IInv, AllClean, Reasons, NEW c \in Ops, Supervisor(c)
  PROVE  Reasons'
<1>i. TypeOK /\ Placed /\ Told4Good
  BY DEF IInv, Reasons
<1>1. /\ op' = op /\ kind' = kind /\ closing' = closing /\ active' = active
      /\ \A d \in Ops \ {c} : conn'[d] = conn[d]
  BY <1>i, SupervisorStep DEF operations
<1>2. /\ active = None
      /\ conn'[c].follow = conn[c].follow
      /\ conn'[c].listener => conn'[c].follow /\ conn'[c].health # "failed"
  BY <1>i, SupervisorListens DEF Placed
<1>3. \A o \in Ops : op[o].pc \notin {"disconnect", "told"}
  BY <1>2, <1>i, NoneAssumption DEF Placed
<1>4. Placed'
  BY <1>1, <1>2, <1>i DEF Placed, Exempt
<1>5. ASSUME NEW o \in Ops
      PROVE  ReasonHeld(o)'
  <2>1. CASE op[o].target = c
    <3>1. ASSUME op[o].hadFailed, op[o].pc \in Disconnecting, ~Exempt(c)
          PROVE  /\ op[o].pc = "join"
                 /\ conn'[c].health = "failed" /\ Quenched(conn'[c])
      <4>1. op[o].pc = "join" /\ conn[c].health = "failed" /\ Quenched(conn[c])
        BY <2>1, <3>1, <1>3 DEF Reasons, ReasonHeld
      <4> QED
        BY <4>1, <1>i, SupervisorFailure
    <3> QED
      BY <3>1, <2>1, <1>1 DEF ReasonHeld, Exempt, Quenched
  <2>2. CASE op[o].target # c
    <3>1. op[o].pc \in Disconnecting => conn'[op[o].target] = conn[op[o].target]
      BY <2>2, <1>1, <1>i DEF Told4Good, TypeOK, OpStates
    <3> QED
      BY <3>1, <1>1 DEF Reasons, ReasonHeld, Exempt, Quenched
  <2> QED
    BY <2>1, <2>2
<1> QED
  BY <1>4, <1>5 DEF Reasons

LEMMA StepReasons == IInv /\ AllClean /\ Reasons /\ [Next]_vars => Reasons'
<1>1. ASSUME UNCHANGED vars, Reasons
      PROVE  Reasons'
  BY <1>1 DEF vars, operations, Reasons, Placed, ReasonHeld, Exempt, Quenched
<1> QED
  BY <1>1, SupervisorReasons, OperationReasons DEF Next

LEMMA InitReasons == Init => Reasons
  BY SMTT(40) DEF Init, NewConn, Reasons, Placed, ReasonHeld, Disconnecting

\* A supervisor goes on when no operation runs.
LEMMA SupervisorAwaits == \A c \in Ops : Supervisor(c) => active = None
  BY DEF Supervisor, BeginAttempt, Launch, Refused, Ready, LaunchFails, HoldOpenEnds,
         HeartbeatFails, StreamEnds, NoticeArrives, FaultArrives, Closed, BackoffEnds,
         CancelArrives, CancelledClosed, Step

\* The end of disconnect() leaves a failure as it is.
LEMMA ToldKeeps ==
  ASSUME IInv, Reasons, [Next]_vars, NEW o \in Ops, Runs(o, "told"), op[o].hadFailed,
         ~(closing /\ kind[op[o].target] = "boot")
  PROVE  conn'[op[o].target].health = "failed"
<1>1. /\ active = o /\ op[o].pc = "told" /\ op[o].target \in Ops
      /\ conn[op[o].target].health = "failed"
  BY DEF IInv, TypeOK, OpStates, Told4Good, Runs, Reasons, ReasonHeld, Exempt, Disconnecting
<1>2. ASSUME NEW c \in Ops, Supervisor(c)
      PROVE  active = None
  BY <1>2, SupervisorAwaits
<1>3. ASSUME NEW b \in Ops, Request(b) \/ Operation(b)
      PROVE  conn'[op[o].target].health = "failed"
  <2>1. b = o
    BY <1>1, <1>3, Moves, NoneAssumption DEF IInv
  <2>2. ~(Register(o) \/ Test(o) \/ Abandoned(o))
    BY <1>1 DEF Register, Test, Abandoned, Runs, Wakes, Requested
  <2> QED
    BY <1>1, <1>3, <2>1, <2>2, FailureFrame DEF IInv
<1>4. CASE UNCHANGED vars
  BY <1>1, <1>4 DEF vars
<1> QED
  BY <1>1, <1>2, <1>3, <1>4, NoneAssumption DEF Next

(* The reason a server is not running survives its teardown                *)
(* (connection.py:1839-1882), whatever its supervisor and the teardowns of *)
(* other operations do while this one waits.                               *)
THEOREM ReasonTheorem == Spec => ReasonSurvives
<1>1. IInv /\ Reasons /\ [Next]_vars
        => [\A o \in Ops : Runs(o, "told") /\ op[o].hadFailed
                             /\ ~(closing /\ kind[op[o].target] = "boot")
                             => conn'[op[o].target].health = "failed"]_vars
  BY ToldKeeps
<1>2. Spec => []Reasons
  BY InitReasons, StepReasons, Inductive, CleanInvariant, PTL DEF Spec
<1> QED
  BY <1>1, <1>2, Inductive, PTL DEF Spec, ReasonSurvives
=============================================================================
