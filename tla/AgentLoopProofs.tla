-------------------------- MODULE AgentLoopProofs --------------------------
(***************************************************************************)
(* Proofs about AgentLoop, for any number of turns and calls.              *)
(***************************************************************************)
EXTENDS AgentLoop, TLAPS

USE DEF Awaiting, Ended, InFlight, PcValues, Undecided, LiveTask, TaskDone, Result, StatusValues

(* The steps of a turn keep every variable within its type.                *)
LEMMA TypeTurn ==
  ASSUME TypeOK, NEW t \in Turns, TurnStep(t)
  PROVE  TypeOK'
<1> USE OwnerAssumption, IterationAssumption DEF TypeOK, history, callVars, orchVars, guiVars
<1>1. ASSUME Begin(t) PROVE TypeOK' BY <1>1 DEF Begin
<1>2. ASSUME BeginRefused(t) PROVE TypeOK' BY <1>2 DEF BeginRefused
<1>3. ASSUME RequestCancelled(t) PROVE TypeOK' BY <1>3 DEF RequestCancelled, RequestOver, EndTurn
<1>4. ASSUME Exhausted(t) PROVE TypeOK' BY <1>4 DEF Exhausted, EndTurn
<1>5. ASSUME TopCancelled(t) PROVE TypeOK' BY <1>5 DEF TopCancelled, EndTurn
<1>6. ASSUME TopDeadline(t) PROVE TypeOK' BY <1>6 DEF TopDeadline, EndTurn
<1>7. ASSUME CallLlm(t) PROVE TypeOK'
  <2>1. iter[t] + 1 \in 0..MaxIterations BY <1>7 DEF CallLlm
  <2>2. iter' \in [Turns -> 0..MaxIterations] BY <1>7, <2>1 DEF CallLlm
  <2>3. PICK kind \in {"llm", "chat"} :
          /\ pc' = [pc EXCEPT ![t] = kind]
          /\ provider' = IF kind = "chat" THEN [provider EXCEPT !.task = t] ELSE provider
    BY <1>7, RequestAssumption DEF CallLlm
  <2> QED BY <1>7, <2>2, <2>3 DEF CallLlm
<1>8. ASSUME BatchCancelled(t) PROVE TypeOK' BY <1>8 DEF BatchCancelled, EndTurn
<1>9. ASSUME BatchDone(t) PROVE TypeOK' BY <1>9 DEF BatchDone
<1>10. ASSUME SessionGone(t) PROVE TypeOK' BY <1>10 DEF SessionGone, EndTurn
<1>11. ASSUME NEW c \in Calls, AnswerInPlace(t, c) PROVE TypeOK'
  BY <1>11 DEF AnswerInPlace, NextCall, Settle
<1>12. ASSUME NEW c \in Calls, Ask(t, c) PROVE TypeOK' BY <1>12 DEF Ask, NextCall
<1>13. ASSUME NEW c \in Calls, AskRefused(t, c) PROVE TypeOK'
  BY <1>13 DEF AskRefused, NextCall, Settle
<1>14. ASSUME NEW c \in Calls, RunUnasked(t, c) PROVE TypeOK'
  BY <1>14 DEF RunUnasked, NextCall, Launch
<1>15. ASSUME ResumeApproved(t) PROVE TypeOK' BY <1>15 DEF ResumeApproved, Unregister, Launch
<1>16. ASSUME ResumeDeclined(t) PROVE TypeOK' BY <1>16 DEF ResumeDeclined, Unregister, Settle
<1>17. ASSUME ToolResult(t) PROVE TypeOK'
  <2>1. PICK r \in Result : Settle(t, cur[t], r)
    BY <1>17 DEF ToolResult
  <2> QED BY <1>17, <2>1, ZenonT(60) DEF ToolResult, Settle
<1>18. ASSUME ToolAborted(t) PROVE TypeOK' BY <1>18 DEF ToolAborted, EndTurn
<1>19. ASSUME Interrupted(t) PROVE TypeOK' BY <1>19 DEF Interrupted, RequestOver, EndTurn
<1> HIDE DEF TypeOK
<1> QED BY <1>1, <1>2, <1>3, <1>4, <1>5, <1>6, <1>7, <1>8, <1>9, <1>10, <1>11, <1>12, <1>13,
           <1>14, <1>15, <1>16, <1>17, <1>18, <1>19 DEF TurnStep

(* So do the replies of the model and the firing of the timeout.           *)
LEMMA TypeReply ==
  ASSUME TypeOK, NEW t \in Turns, ModelReply(t) \/ TimeoutFires(t)
  PROVE  TypeOK'
<1> USE DEF history, callVars, orchVars, guiVars
<1>1. ASSUME Fail(t) PROVE TypeOK' BY <1>1 DEF TypeOK, Fail, RequestOver, EndTurn
<1>2. ASSUME ReplyFinal(t) PROVE TypeOK'
  BY <1>2 DEF TypeOK, ReplyFinal, Replies, RequestOver, EndTurn
<1>3. ASSUME LlmCancelled(t) PROVE TypeOK' BY <1>3 DEF TypeOK, LlmCancelled, EndTurn
<1>4. ASSUME NEW B \in SUBSET Calls, ReplyTools(t, B) PROVE TypeOK'
  BY <1>4 DEF TypeOK, ReplyTools, Replies, RequestOver
<1>6. ASSUME NEW B \in SUBSET Calls, ReplyUnanswered(t, B) PROVE TypeOK'
  <2>1. status' \in [Calls -> StatusValues] BY <1>6 DEF TypeOK, ReplyUnanswered
  <2>2. provider' \in [task : Turns \cup {NoTurn}, off : SUBSET Turns]
    BY <1>6 DEF TypeOK, ReplyUnanswered, Replies, RequestOver
  <2> QED BY <1>6, <2>1, <2>2 DEF TypeOK, ReplyUnanswered, EndTurn
<1>7. ASSUME Prepared(t) PROVE TypeOK' BY <1>7 DEF TypeOK, Prepared
<1>5. ASSUME TimeoutFires(t) PROVE TypeOK'
  <2>1. timer' \in [Turns -> {"off", "armed", "firing", "spent"}]
    BY <1>5 DEF TypeOK, TimeoutFires
  <2>2. status' \in [Calls -> StatusValues] BY <1>5 DEF TypeOK, TimeoutFires
  <2> QED BY <1>5, <2>1, <2>2 DEF TypeOK, TimeoutFires
<1> QED BY <1>1, <1>2, <1>3, <1>4, <1>5, <1>6, <1>7 DEF ModelReply

(* So do the steps of a tool task and the cancellation of a call.          *)
LEMMA TypeTask ==
  ASSUME TypeOK, NEW c \in Calls, TaskStep(c) \/ TaskReturns(c) \/ CancelCall(c)
  PROVE  TypeOK'
<1> USE DEF TypeOK, history, turnVars, orchVars, guiVars
<1>1. CASE TaskStart(c) BY <1>1 DEF TaskStart
<1>2. CASE TaskStops(c) BY <1>2 DEF TaskStops
<1>3. CASE TaskReturns(c) BY <1>3 DEF TaskReturns
<1>4. CASE CancelCall(c) BY <1>4 DEF CancelCall
<1> QED BY <1>1, <1>2, <1>3, <1>4 DEF TaskStep

(* So do Cancel, a session switch and the steps of shutdown().             *)
LEMMA TypeControl ==
  ASSUME TypeOK,
         Cancel \/ SwitchSession \/ ShutdownMarshal \/ ShutdownCancel \/ ShutdownFinish
  PROVE  TypeOK'
<1> USE DEF history, turnVars, callVars, orchVars, guiVars
<1>1. Marshalled(status) \in [Calls -> StatusValues]
  BY DEF TypeOK, Marshalled
<1>2. Swept(Marshalled(status)) \in [Calls -> StatusValues]
  BY <1>1 DEF TypeOK, Swept
<1>3. ASSUME CancelEffect PROVE /\ cancelEvent' \in BOOLEAN
                                /\ provider' \in [task : Turns \cup {NoTurn}, off : SUBSET Turns]
                                /\ status' \in [Calls -> StatusValues]
  <2>1. [provider EXCEPT !.off = @ \cup ({provider.task} \ {NoTurn})]
          \in [task : Turns \cup {NoTurn}, off : SUBSET Turns]
    BY DEF TypeOK
  <2>2. provider' \in [task : Turns \cup {NoTurn}, off : SUBSET Turns]
    BY <1>3, <2>1 DEF TypeOK, CancelEffect, RequestTaskCancelled
  <2> QED BY <1>3, <1>2, <2>2 DEF TypeOK, CancelEffect
<1>4. CASE Cancel BY <1>3, <1>4 DEF TypeOK, Cancel
<1>5. CASE SwitchSession BY <1>5 DEF TypeOK, SwitchSession
<1>6. CASE ShutdownMarshal BY <1>1, <1>6 DEF TypeOK, ShutdownMarshal
<1>7. CASE ShutdownCancel BY <1>3, <1>7 DEF TypeOK, ShutdownCancel
<1>8. CASE ShutdownFinish BY <1>8 DEF TypeOK, ShutdownFinish
<1> QED BY <1>4, <1>5, <1>6, <1>7, <1>8

(* So do the steps of the GUI thread.                                      *)
LEMMA TypeGui ==
  ASSUME TypeOK, Gui
  PROVE  TypeOK'
<1> USE KindAssumption DEF history, turnVars, callVars, orchVars, guiVars
<1>1. ASSUME NEW c \in Calls, NEW yes \in BOOLEAN, Deliver(c, yes)
      PROVE  status' \in [Calls -> StatusValues] /\ consent' \subseteq Calls
  BY <1>1 DEF TypeOK, Deliver, Word
<1>2. ASSUME NEW t \in Turns, Submit(t) PROVE TypeOK' BY <1>2 DEF TypeOK, Submit
<1>3. CASE OpenDialog
  <2>1. Head(signals) \in Calls /\ Tail(signals) \in Seq(Calls)
    BY <1>3 DEF TypeOK, OpenDialog
  <2> QED BY <1>3, <2>1 DEF TypeOK, OpenDialog
<1>4. ASSUME NEW yes \in BOOLEAN, ReplayAnswer(yes) PROVE TypeOK'
  <2>1. Head(signals) \in Calls /\ Tail(signals) \in Seq(Calls)
    BY <1>4 DEF TypeOK, ReplayAnswer
  <2>2. status' \in [Calls -> StatusValues] /\ consent' \subseteq Calls
    BY <1>1, <1>4, <2>1 DEF ReplayAnswer
  <2> QED BY <1>4, <2>1, <2>2 DEF TypeOK, ReplayAnswer
<1>5. ASSUME NEW yes \in BOOLEAN, NEW remember \in BOOLEAN, Answer(yes, remember)
      PROVE  TypeOK'
  <2> DEFINE top == dialogs[Len(dialogs)]
  <2>1. top \in Calls /\ SubSeq(dialogs, 1, Len(dialogs) - 1) \in Seq(Calls)
    BY <1>5 DEF TypeOK, Answer
  <2>2. status' \in [Calls -> StatusValues] /\ consent' \subseteq Calls
    BY <1>1, <1>5, <2>1 DEF Answer
  <2>3. remembered' \in [Kinds -> {"none", "approved", "denied"}]
    BY <1>5, <2>1 DEF TypeOK, Answer, Word
  <2> QED BY <1>5, <2>1, <2>2, <2>3 DEF TypeOK, Answer
<1>6. ASSUME NEW l \in Levels, SetLevel(l) PROVE TypeOK' BY <1>6 DEF TypeOK, SetLevel
<1> QED BY <1>2, <1>3, <1>5, <1>6, <1>4 DEF Gui, SignalStep

(* Every variable keeps its type, in every behaviour and for every         *)
(* instance of the constants.                                              *)
THEOREM TypeCorrect == Spec => []TypeOK
<1>1. ASSUME Init PROVE TypeOK
  <2>1. 0 \in 0..MaxIterations BY IterationAssumption
  <2>2. iter \in [Turns -> 0..MaxIterations] BY <1>1, <2>1 DEF Init
  <2>3. signals \in Seq(Calls) /\ dialogs \in Seq(Calls) BY <1>1 DEF Init
  <2> QED BY <1>1, <2>2, <2>3 DEF Init, TypeOK
<1>2. TypeOK /\ [Next]_vars => TypeOK'
  <2> SUFFICES ASSUME TypeOK, [Next]_vars PROVE TypeOK' OBVIOUS
  <2>1. CASE UNCHANGED vars
    BY <2>1 DEF TypeOK, vars, turnVars, callVars, orchVars, guiVars, history
  <2>2. CASE Next
    <3>1. ASSUME NEW t \in Turns, TurnStep(t) \/ ModelReply(t) \/ TimeoutFires(t)
          PROVE  TypeOK'
      BY <3>1, TypeTurn, TypeReply
    <3>2. ASSUME NEW c \in Calls, TaskStep(c) \/ TaskReturns(c) \/ CancelCall(c)
          PROVE  TypeOK'
      BY <3>2, TypeTask
    <3> QED BY <2>2, <3>1, <3>2, TypeControl, TypeGui DEF Next
  <2> QED BY <2>1, <2>2
<1> QED BY <1>1, <1>2, PTL DEF Spec

-----------------------------------------------------------------------------
(* The inductive invariant: what a call's status says of the turn it       *)
(* belongs to and of the confirmations registered, together.               *)
Safe ==
  /\ CallsInPlace
  /\ PendingIsAwaited
  /\ NoOrphanTask
  /\ NoWaiterAfterShutdown
  /\ NoWaiterWhileCancelling

(* How a request may run.                                                  *)
LEMMA RequestKinds ==
  ASSUME NEW t, CallLlm(t)
  PROVE  \E kind \in {"llm", "chat"} : pc' = [pc EXCEPT ![t] = kind]
BY RequestAssumption DEF CallLlm

(* The steps of a turn keep the inductive invariant Safe.                  *)
LEMMA SafeTurn ==
  ASSUME TypeOK, TypeOK', Safe, NEW t \in Turns, TurnStep(t)
  PROVE  Safe'
<1> USE OwnerAssumption, NoneAssumption
    DEF TypeOK, Safe, CallsInPlace, PendingIsAwaited, NoOrphanTask, NoWaiterAfterShutdown,
        NoWaiterWhileCancelling, history, callVars, orchVars, guiVars
<1>1. ASSUME Begin(t) PROVE Safe' BY <1>1 DEF Begin
<1>2. ASSUME BeginRefused(t) PROVE Safe' BY <1>2 DEF BeginRefused
<1>3. ASSUME RequestCancelled(t) PROVE Safe' BY <1>3 DEF RequestCancelled, EndTurn
<1>4. ASSUME Exhausted(t) PROVE Safe' BY <1>4 DEF Exhausted, EndTurn
<1>5. ASSUME TopCancelled(t) PROVE Safe' BY <1>5 DEF TopCancelled, EndTurn
<1>6. ASSUME TopDeadline(t) PROVE Safe' BY <1>6 DEF TopDeadline, EndTurn
<1>7. ASSUME CallLlm(t) PROVE Safe'
  <2>1. PICK kind \in {"llm", "chat"} : pc' = [pc EXCEPT ![t] = kind]
    BY <1>7, RequestKinds
  <2> QED BY <1>7, <2>1 DEF CallLlm
<1>8. ASSUME BatchCancelled(t) PROVE Safe' BY <1>8 DEF BatchCancelled, EndTurn
<1>9. ASSUME BatchDone(t) PROVE Safe' BY <1>9 DEF BatchDone
<1>10. ASSUME SessionGone(t) PROVE Safe' BY <1>10 DEF SessionGone, EndTurn
<1>11. ASSUME NEW c \in Calls, AnswerInPlace(t, c) PROVE Safe'
  BY <1>11 DEF AnswerInPlace, NextCall, Settle
<1>12. ASSUME NEW c \in Calls, Ask(t, c) PROVE Safe'
  BY <1>12 DEF Ask, NextCall
<1>13. ASSUME NEW c \in Calls, AskRefused(t, c) PROVE Safe'
  BY <1>13 DEF AskRefused, NextCall, Settle
<1>14. ASSUME NEW c \in Calls, RunUnasked(t, c) PROVE Safe'
  BY <1>14 DEF RunUnasked, NextCall, Launch
<1>15. ASSUME ResumeApproved(t) PROVE Safe' BY <1>15 DEF ResumeApproved, Unregister, Launch
<1>16. ASSUME ResumeDeclined(t) PROVE Safe' BY <1>16 DEF ResumeDeclined, Unregister, Settle
<1>17. ASSUME ToolResult(t) PROVE Safe'
  <2>1. PICK r \in {"ok", "failed", "opcancelled"} :
          /\ Settle(t, cur[t], r)
          /\ cur[t] \in effects \/ r # "declined"
    BY <1>17 DEF ToolResult
  <2>2. pc[t] = "tool" /\ cur[t] \in Calls /\ Owner[cur[t]] = t
    BY <1>17 DEF ToolResult
  <2> QED BY <1>17, <2>1, <2>2 DEF ToolResult, Settle
<1>18. ASSUME ToolAborted(t) PROVE Safe' BY <1>18 DEF ToolAborted, EndTurn
<1>19. ASSUME Interrupted(t) PROVE Safe' BY <1>19 DEF Interrupted, EndTurn
<1> HIDE DEF TypeOK, Safe
<1> QED BY <1>1, <1>2, <1>3, <1>4, <1>5, <1>6, <1>7, <1>8, <1>9, <1>10, <1>11, <1>12, <1>13, <1>14, <1>15, <1>16, <1>17, <1>18, <1>19 DEF TurnStep

(* So do the replies of the model and the firing of the timeout.           *)
LEMMA SafeReply ==
  ASSUME TypeOK, TypeOK', Safe, NEW t \in Turns, ModelReply(t) \/ TimeoutFires(t)
  PROVE  Safe'
<1> USE OwnerAssumption, NoneAssumption
    DEF TypeOK, Safe, CallsInPlace, PendingIsAwaited, NoOrphanTask, NoWaiterAfterShutdown,
        NoWaiterWhileCancelling, history, callVars, orchVars, guiVars
<1>1. ASSUME Fail(t) PROVE Safe' BY <1>1 DEF Fail, EndTurn
<1>2. ASSUME ReplyFinal(t) PROVE Safe' BY <1>2 DEF ReplyFinal, Replies, EndTurn
<1>3. ASSUME LlmCancelled(t) PROVE Safe' BY <1>3 DEF LlmCancelled, EndTurn
<1>4. ASSUME NEW B \in SUBSET Calls, ReplyTools(t, B) PROVE Safe'
  BY <1>4 DEF ReplyTools, Replies, NewCalls
<1>6. ASSUME NEW B \in SUBSET Calls, ReplyUnanswered(t, B) PROVE Safe'
  <2>1. \A c \in Calls : status'[c] = IF c \in B THEN "unanswered" ELSE status[c]
    BY <1>6 DEF ReplyUnanswered
  <2>2. \A c \in B : Owner[c] = t /\ status[c] = "new"
    BY <1>6 DEF ReplyUnanswered, NewCalls
  <2>3. pc[t] \in {"llm", "chat"} /\ force[t] /\ timer[t] # "firing"
    BY <1>6 DEF ReplyUnanswered, Replies
  <2> QED BY <1>6, <2>1, <2>2, <2>3 DEF ReplyUnanswered, EndTurn
<1>7. ASSUME Prepared(t) PROVE Safe' BY <1>7 DEF Prepared
<1>5. ASSUME TimeoutFires(t) PROVE Safe'
  <2>1. CASE pc[t] = "confirm" /\ status[cur[t]] = "waiting"
    BY <1>5, <2>1 DEF TimeoutFires
  <2>2. CASE pc[t] = "tool" /\ status[cur[t]] \in LiveTask
    BY <1>5, <2>2 DEF TimeoutFires
  <2>3. CASE ~(pc[t] = "confirm" /\ status[cur[t]] = "waiting")
             /\ ~(pc[t] = "tool" /\ status[cur[t]] \in LiveTask)
    <3>1. status' = status BY <1>5, <2>3 DEF TimeoutFires
    <3> QED BY <1>5, <3>1 DEF TimeoutFires
  <2> QED BY <2>1, <2>2, <2>3
<1> HIDE DEF TypeOK, Safe
<1> QED BY <1>1, <1>2, <1>3, <1>4, <1>5, <1>6, <1>7 DEF ModelReply

(* So do the steps of a tool task and the cancellation of a call.          *)
LEMMA SafeTask ==
  ASSUME TypeOK, TypeOK', Safe, NEW c \in Calls, TaskStep(c) \/ TaskReturns(c) \/ CancelCall(c)
  PROVE  Safe'
<1> USE OwnerAssumption, NoneAssumption
    DEF TypeOK, Safe, CallsInPlace, PendingIsAwaited, NoOrphanTask, NoWaiterAfterShutdown,
        NoWaiterWhileCancelling, history, turnVars, orchVars, guiVars
<1>1. CASE TaskStart(c) BY <1>1 DEF TaskStart
<1>2. CASE TaskStops(c) BY <1>2 DEF TaskStops
<1>3. CASE TaskReturns(c) BY <1>3 DEF TaskReturns
<1>4. CASE CancelCall(c) BY <1>4 DEF CancelCall
<1> QED BY <1>1, <1>2, <1>3, <1>4 DEF TaskStep

(* Releasing the waiting confirmations and stopping the running tasks      *)
(* moves every call within its class, and leaves none waiting.             *)
LEMMA SweepMoves ==
  ASSUME TypeOK, Safe, NEW s, s \in {Marshalled(status), Swept(Marshalled(status))}
  PROVE  /\ s \in [Calls -> StatusValues]
         /\ \A c \in Calls :
              /\ s[c] # "waiting"
              /\ s[c] \in Undecided <=> status[c] \in Undecided
              /\ s[c] \in LiveTask <=> status[c] \in LiveTask
              /\ s[c] \notin Undecided \cup LiveTask => s[c] = status[c]
              /\ s[c] = "scheduled" => status[c] = "scheduled"
<1> DEFINE m == Marshalled(status)
<1>1. \A c \in Calls : m[c] = IF status[c] = "waiting" THEN "released" ELSE status[c]
  BY DEF Safe, PendingIsAwaited, Marshalled
<1>2. m \in [Calls -> StatusValues] BY <1>1 DEF TypeOK, Marshalled
<1>3. Swept(m) \in [Calls -> StatusValues]
  BY <1>2 DEF Swept
<1>4. \A c \in Calls : Swept(m)[c] = IF m[c] \in LiveTask THEN "stopping" ELSE m[c]
  BY DEF Swept
<1> HIDE DEF m
<1>5. CASE s = m BY <1>1, <1>2, <1>5 DEF TypeOK
<1>6. CASE s = Swept(m)
  <2> DEFINE w == Swept(m)
  <2>1. \A c \in Calls : w[c] = IF m[c] \in LiveTask THEN "stopping" ELSE m[c]
    BY <1>4
  <2>2. w \in [Calls -> StatusValues] BY <1>3
  <2> HIDE DEF w
  <2>3. s = w BY <1>6 DEF w
  <2> QED BY <1>1, <1>2, <2>1, <2>2, <2>3 DEF TypeOK
<1> QED BY <1>5, <1>6 DEF m

(* So do Cancel, a session switch and the steps of shutdown().             *)
LEMMA SafeControl ==
  ASSUME TypeOK, TypeOK', Safe,
         Cancel \/ SwitchSession \/ ShutdownMarshal \/ ShutdownCancel \/ ShutdownFinish
  PROVE  Safe'
<1> USE OwnerAssumption, NoneAssumption DEF history, turnVars, callVars, guiVars
<1>1. ASSUME UNCHANGED <<turnVars, pending, latest, effects>>,
             status' \in {Marshalled(status), Swept(Marshalled(status))}
      PROVE  Safe'
  <2>1. /\ status' \in [Calls -> StatusValues]
        /\ \A c \in Calls :
             /\ status'[c] # "waiting"
             /\ status'[c] \in Undecided <=> status[c] \in Undecided
             /\ status'[c] \in LiveTask <=> status[c] \in LiveTask
             /\ status'[c] \notin Undecided \cup LiveTask => status'[c] = status[c]
             /\ status'[c] = "scheduled" => status[c] = "scheduled"
    BY <1>1, SweepMoves
  <2>2. \A c \in Calls :
          /\ status[c] = "new" => status'[c] = "new"
          /\ status'[c] \in TaskDone <=> status[c] \in TaskDone
          /\ status'[c] \in {"new", "declined", "scheduled", "unanswered"} \cup Undecided
               => status[c] \in {"new", "declined", "scheduled", "unanswered"} \cup Undecided
          /\ status'[c] = "stopped" => status[c] = "stopped"
          /\ status'[c] = "unanswered" => status[c] = "unanswered"
    BY <2>1 DEF TypeOK
  <2>3. CallsInPlace'
    <3>1. UNCHANGED <<pc, cur, batch, force, effects>> BY <1>1
    <3>2. ASSUME NEW t \in Turns
          PROVE  /\ pc[t] = "confirm" => status'[cur[t]] \in Undecided
                 /\ pc[t] = "tool" => status'[cur[t]] \in LiveTask \cup TaskDone
                 /\ \A c \in batch[t] : Owner[c] = t /\ (status'[c] = "new" \/ c = cur[t])
      BY <2>1, <2>2, SMTT(40) DEF TypeOK, Safe, CallsInPlace
    <3>3. ASSUME NEW c \in Calls
          PROVE  /\ status'[c] \in {"new", "declined", "scheduled", "unanswered"} \cup Undecided
                      => c \notin effects
                 /\ status'[c] = "stopped" => pc[Owner[c]] \in {"cancelled", "timeout"}
                 /\ status'[c] = "unanswered" => pc[Owner[c]] = "ok" /\ force[Owner[c]]
      BY <2>2 DEF Safe, CallsInPlace
    <3> HIDE DEF Undecided, LiveTask, TaskDone
    <3> QED BY <3>1, <3>2, <3>3 DEF Safe, CallsInPlace
  <2>4. PendingIsAwaited' BY <1>1, <2>1 DEF Safe, PendingIsAwaited
  <2>5. NoOrphanTask' BY <1>1, <2>1 DEF Safe, NoOrphanTask
  <2> QED BY <2>1, <2>3, <2>4, <2>5 DEF Safe, NoWaiterAfterShutdown, NoWaiterWhileCancelling
<1>2. ASSUME UNCHANGED <<turnVars, status, pending, latest, effects>>,
             stage' = stage \/ stage # "up", cancelEvent' = cancelEvent \/ ~cancelEvent'
      PROVE  Safe'
  BY <1>2
     DEF TypeOK, Safe, CallsInPlace, PendingIsAwaited, NoOrphanTask, NoWaiterAfterShutdown,
         NoWaiterWhileCancelling
<1>3. ASSUME CancelEffect
      PROVE  \/ status' = Swept(Marshalled(status))
             \/ status' = status /\ ~cancelEvent'
  BY <1>3 DEF CancelEffect
<1>4. CASE Cancel BY <1>1, <1>2, <1>3, <1>4 DEF Cancel
<1>5. CASE SwitchSession BY <1>2, <1>5 DEF SwitchSession
<1>6. CASE ShutdownMarshal BY <1>1, <1>6 DEF ShutdownMarshal
<1>7. CASE ShutdownCancel BY <1>1, <1>2, <1>3, <1>7 DEF ShutdownCancel
<1>8. CASE ShutdownFinish BY <1>2, <1>8 DEF ShutdownFinish
<1> QED BY <1>4, <1>5, <1>6, <1>7, <1>8

(* So do the dialogs, the signals and the other GUI steps.                 *)
LEMMA SafeGui ==
  ASSUME TypeOK, TypeOK', Safe, Gui
  PROVE  Safe'
<1> USE OwnerAssumption, NoneAssumption
    DEF TypeOK, Safe, CallsInPlace, PendingIsAwaited, NoOrphanTask, NoWaiterAfterShutdown,
        NoWaiterWhileCancelling, history, callVars, turnVars, orchVars, guiVars
<1>1. ASSUME NEW t \in Turns, Submit(t) PROVE Safe' BY <1>1 DEF Submit
<1>2. CASE OpenDialog BY <1>2 DEF OpenDialog
<1>3. ASSUME NEW yes \in BOOLEAN, ReplayAnswer(yes) PROVE Safe'
  BY <1>3 DEF ReplayAnswer, Deliver, Word
<1>4. ASSUME NEW yes \in BOOLEAN, NEW remember \in BOOLEAN, Answer(yes, remember)
      PROVE  Safe'
  BY <1>4 DEF Answer, Deliver, Word
<1>5. ASSUME NEW l \in Levels, SetLevel(l) PROVE Safe' BY <1>5 DEF SetLevel
<1> HIDE DEF TypeOK, Safe
<1> QED BY <1>1, <1>2, <1>3, <1>4, <1>5 DEF Gui, SignalStep

(* Safe is inductive: it holds in every reachable state.                   *)
THEOREM SafeInvariant == Spec => []Safe
<1>1. ASSUME Init PROVE Safe
  BY <1>1 DEF Init, Safe, CallsInPlace, PendingIsAwaited, NoOrphanTask, NoWaiterAfterShutdown,
              NoWaiterWhileCancelling
<1>2. TypeOK /\ TypeOK' /\ Safe /\ [Next]_vars => Safe'
  <2> SUFFICES ASSUME TypeOK, TypeOK', Safe, [Next]_vars PROVE Safe' OBVIOUS
  <2>1. CASE UNCHANGED vars
    BY <2>1 DEF Safe, CallsInPlace, PendingIsAwaited, NoOrphanTask, NoWaiterAfterShutdown,
                NoWaiterWhileCancelling, vars, turnVars, callVars, orchVars, guiVars, history
  <2>2. CASE Next
    <3>1. ASSUME NEW t \in Turns, TurnStep(t) \/ ModelReply(t) \/ TimeoutFires(t)
          PROVE  Safe'
      BY <3>1, SafeTurn, SafeReply
    <3>2. ASSUME NEW c \in Calls, TaskStep(c) \/ TaskReturns(c) \/ CancelCall(c)
          PROVE  Safe'
      BY <3>2, SafeTask
    <3> QED BY <2>2, <3>1, <3>2, SafeControl, SafeGui DEF Next
  <2> QED BY <2>1, <2>2
<1> QED BY <1>1, <1>2, TypeCorrect, PTL DEF Spec

(* Nothing stays registered as a pending confirmation that no turn awaits, *)
(* and the confirmation an answer resolves is one that is awaited.         *)
THEOREM PendingTheorem == Spec => []PendingIsAwaited
BY SafeInvariant, PTL DEF Safe

(* No turn, however it ends, leaves a tool task behind.                    *)
THEOREM NoOrphanTheorem == Spec => []NoOrphanTask
BY SafeInvariant, PTL DEF Safe

(* A call reported to the model as declined never ran its tool.            *)
THEOREM DeclinedTheorem == Spec => []DeclinedNeverRan
<1>1. Safe => DeclinedNeverRan BY DEF Safe, CallsInPlace, DeclinedNeverRan
<1> QED BY <1>1, SafeInvariant, PTL

(* A shutdown that has begun (orchestrator.py, shutdown) leaves no turn    *)
(* waiting for the operator, whichever came first.                         *)
THEOREM NoWaiterTheorem == Spec => []NoWaiterAfterShutdown
BY SafeInvariant, PTL DEF Safe

(* Nor does a cancel event that is set (orchestrator.py, cancel).          *)
THEOREM CancellingTheorem == Spec => []NoWaiterWhileCancelling
BY SafeInvariant, PTL DEF Safe

(* When the model is asked again every call of every earlier response has  *)
(* a result in the history; a turn that ends well leaves calls without one *)
(* only in a response that had to do without tools, and none of those ran  *)
(* (orchestrator.py:1545-1576).                                            *)
THEOREM ResultsTheorem == Spec => []ResultsBeforeNextRequest
<1>1. TypeOK /\ Safe => ResultsBeforeNextRequest
  <2> SUFFICES ASSUME TypeOK, Safe, NEW t \in Turns,
                      pc[t] \in {"prepare", "top", "llm", "chat", "ok"}
               PROVE  /\ batch[t] = {}
                      /\ \A c \in Calls : Owner[c] = t =>
                           \/ status[c] \in {"new"} \cup Result
                           \/ status[c] = "unanswered" /\ pc[t] = "ok" /\ force[t] /\ c \notin effects
    BY DEF ResultsBeforeNextRequest
  <2>1. batch[t] = {} BY DEF Safe, CallsInPlace
  <2>2. ASSUME NEW c \in Calls, Owner[c] = t
        PROVE  \/ status[c] \in {"new"} \cup Result
               \/ status[c] = "unanswered" /\ pc[t] = "ok" /\ force[t] /\ c \notin effects
    <3>1. CASE status[c] = "unanswered" BY <2>2, <3>1 DEF Safe, CallsInPlace
    <3>2. CASE status[c] # "unanswered"
      BY <2>2, <3>2, ZenonT(60) DEF TypeOK, Safe, CallsInPlace, PendingIsAwaited, NoOrphanTask
    <3> QED BY <3>1, <3>2
  <2> QED BY <2>1, <2>2
<1> QED BY <1>1, TypeCorrect, SafeInvariant, PTL
=============================================================================
