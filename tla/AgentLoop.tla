----------------------------- MODULE AgentLoop -----------------------------
(***************************************************************************)
(* The agent loop of core/orchestrator.py: user turns that alternate LLM   *)
(* calls with batches of tool calls, the confirmation each destructive     *)
(* call waits for, the dialogs of ui/app.py that answer it, the tasks of   *)
(* core/tool_progress.py that run it, the operator's Cancel, the turn's    *)
(* timeout and the shutdown.                                               *)
(*                                                                         *)
(* Two threads take steps.  The bridge loop (asyncio) runs one coroutine   *)
(* at a time until it awaits: `loop` is the turn whose coroutine holds it. *)
(* The GUI thread runs at any time.                                        *)
(***************************************************************************)
EXTENDS Integers, Sequences, FiniteSets

CONSTANTS Turns,          \* user messages, one turn each
          Calls,          \* tool calls the model may issue
          Owner,          \* the turn a call is issued in
          Kinds,          \* (tool, function, generation) keys of remembered answers
          KindOf,         \* the key of a call
          Destructive,    \* calls is_destructive_operation() says yes to
          Meta,           \* calls _maybe_handle_meta_tool() answers in place
          Levels,         \* confirmation levels the toolbar can switch between
          MaxIterations,  \* config.max_iterations
          Requests,       \* how a request to the model may run, see CallLlm
          NoTurn, NoCall

ASSUME OwnerAssumption == Owner \in [Calls -> Turns]
ASSUME KindAssumption == KindOf \in [Calls -> Kinds]
ASSUME SubsetAssumption == Destructive \subseteq Calls /\ Meta \subseteq Calls
ASSUME LevelAssumption == Levels \subseteq {"none", "destructive", "all"}
ASSUME IterationAssumption == MaxIterations \in Nat
ASSUME RequestAssumption == Requests \subseteq {"llm", "chat"}
ASSUME NoneAssumption == NoTurn \notin Turns /\ NoCall \notin Calls

VARIABLES
  pc,           \* where each turn is
  iter,         \* iterations of its agent loop so far
  batch,        \* calls of its last response still without a result
  cur,          \* the call it is executing
  force,        \* force_no_tools_next
  anyOk,        \* some call of the running batch succeeded
  timer,        \* the timeout of wait_for around its agent loop
  status,       \* where each call is
  opCancelled,  \* RunningToolCalls._cancelled
  loop,         \* the turn whose coroutine holds the bridge loop
  state,        \* Orchestrator._state
  cancelEvent,  \* Orchestrator._cancel_event
  provider,     \* the turn whose request is the provider's _current_task, and
                \* the turns whose request task was cancelled
  pending,      \* Orchestrator._pending_confirmations
  latest,       \* Orchestrator._pending_confirmation
  stage,        \* how far shutdown() has got
  level,        \* config.confirmation_level
  input,        \* whether the chat panel accepts a message
  signals,      \* confirmation_requested signals queued for the GUI thread
  dialogs,      \* open confirmation dialogs, the last one on top
  remembered,   \* answers the operator asked to be remembered
  asked,        \* history: calls a confirmation was requested for
  consent,      \* history: calls the operator's own answer approved
  effects       \* history: calls whose tool began to run

turnVars == <<pc, iter, batch, cur, force, anyOk, timer>>
callVars == <<status, opCancelled>>
orchVars == <<loop, state, cancelEvent, provider, pending, latest, stage>>
guiVars  == <<level, input, signals, dialogs, remembered>>
history  == <<asked, consent, effects>>
vars == <<turnVars, callVars, orchVars, guiVars, history>>

Awaiting  == {"prepare", "llm", "chat", "confirm", "tool"}
Ended     == {"ok", "cancelled", "timeout", "error"}
InFlight  == Awaiting \cup {"top", "batch"}
PcValues  == {"unsent", "queued"} \cup InFlight \cup Ended

Undecided == {"waiting", "approved", "denied", "released"}
LiveTask  == {"scheduled", "running", "stopping"}
TaskDone  == {"retOk", "retFail", "retCancelled"}
Result    == {"ok", "failed", "declined", "opcancelled"}
StatusValues == {"new", "stopped", "unanswered"} \cup Undecided \cup LiveTask \cup TaskDone \cup Result

TypeOK ==
  /\ pc \in [Turns -> PcValues]
  /\ iter \in [Turns -> 0..MaxIterations]
  /\ batch \in [Turns -> SUBSET Calls]
  /\ cur \in [Turns -> Calls \cup {NoCall}]
  /\ force \in [Turns -> BOOLEAN]
  /\ anyOk \in [Turns -> BOOLEAN]
  /\ timer \in [Turns -> {"off", "armed", "firing", "spent"}]
  /\ status \in [Calls -> StatusValues]
  /\ opCancelled \subseteq Calls
  /\ loop \in Turns \cup {NoTurn}
  /\ state \in {"idle", "processing", "waiting_confirmation"}
  /\ cancelEvent \in BOOLEAN
  /\ provider \in [task : Turns \cup {NoTurn}, off : SUBSET Turns]
  /\ pending \subseteq Calls
  /\ latest \in Calls \cup {NoCall}
  /\ stage \in {"up", "marshalled", "cancelled", "down"}
  /\ level \in Levels
  /\ input \in BOOLEAN
  /\ signals \in Seq(Calls)
  /\ dialogs \in Seq(Calls)
  /\ remembered \in [Kinds -> {"none", "approved", "denied"}]
  /\ asked \subseteq Calls
  /\ consent \subseteq Calls
  /\ effects \subseteq Calls

Init ==
  /\ pc = [t \in Turns |-> "unsent"]
  /\ iter = [t \in Turns |-> 0]
  /\ batch = [t \in Turns |-> {}]
  /\ cur = [t \in Turns |-> NoCall]
  /\ force = [t \in Turns |-> FALSE]
  /\ anyOk = [t \in Turns |-> FALSE]
  /\ timer = [t \in Turns |-> "off"]
  /\ status = [c \in Calls |-> "new"]
  /\ opCancelled = {}
  /\ loop = NoTurn
  /\ state = "idle"
  /\ cancelEvent = FALSE
  /\ provider = [task |-> NoTurn, off |-> {}]
  /\ pending = {}
  /\ latest = NoCall
  /\ stage = "up"
  /\ level \in Levels
  /\ input = TRUE
  /\ signals = <<>>
  /\ dialogs = <<>>
  /\ remembered = [k \in Kinds |-> "none"]
  /\ asked = {}
  /\ consent = {}
  /\ effects = {}

-----------------------------------------------------------------------------
(* The turn's coroutine. *)

(* _should_confirm: whether the level in force asks about a call. *)
ShouldConfirm(c) == level = "all" \/ (level = "destructive" /\ c \in Destructive)

(* The operator sends a message: _on_user_message disables the input and   *)
(* posts the turn to the bridge loop.  A modal dialog keeps the input from *)
(* being used.                                                             *)
Submit(t) ==
  /\ pc[t] = "unsent"
  /\ input
  /\ dialogs = <<>>
  /\ pc' = [pc EXCEPT ![t] = "queued"]
  /\ input' = FALSE
  /\ UNCHANGED <<iter, batch, cur, force, anyOk, timer, callVars, orchVars,
                 level, signals, dialogs, remembered, history>>

(* The turn unwinds with outcome o: the finally of process_user_input      *)
(* clears the cancel event and returns to idle whatever else is running,   *)
(* and _on_async_finished / _on_async_error enable the input again.        *)
(* wait_for turns a cancellation it caused into a TimeoutError.            *)
EndTurn(t, o) ==
  /\ pc' = [pc EXCEPT ![t] = IF o = "cancelled" /\ timer[t] \in {"firing", "spent"}
                             THEN "timeout" ELSE o]
  /\ batch' = [batch EXCEPT ![t] = {}]
  /\ cur' = [cur EXCEPT ![t] = NoCall]
  /\ timer' = [timer EXCEPT ![t] = "off"]
  /\ loop' = NoTurn
  /\ state' = "idle"
  /\ cancelEvent' = FALSE
  /\ input' = TRUE

(* process_user_input starts; after shutdown there is no session left.     *)
Begin(t) ==
  /\ loop = NoTurn
  /\ pc[t] = "queued"
  /\ stage # "down"
  /\ pc' = [pc EXCEPT ![t] = "prepare"]
  /\ timer' = [timer EXCEPT ![t] = "armed"]
  /\ state' = "processing"
  /\ cancelEvent' = FALSE
  /\ UNCHANGED <<iter, batch, cur, force, anyOk, callVars, loop, provider, pending,
                 latest, stage, guiVars, history>>

BeginRefused(t) ==
  /\ loop = NoTurn
  /\ pc[t] = "queued"
  /\ stage = "down"
  /\ pc' = [pc EXCEPT ![t] = "error"]
  /\ input' = TRUE
  /\ UNCHANGED <<iter, batch, cur, force, anyOk, timer, callVars, orchVars,
                 level, signals, dialogs, remembered, history>>

(* The context window of the model is known: the while loop starts.        *)
Prepared(t) ==
  /\ loop = NoTurn
  /\ pc[t] = "prepare"
  /\ timer[t] # "firing"
  /\ pc' = [pc EXCEPT ![t] = "top"]
  /\ loop' = t
  /\ UNCHANGED <<iter, batch, cur, force, anyOk, timer, callVars, state, cancelEvent,
                 provider, pending, latest, stage, guiVars, history>>

(* The request of turn t is over: the finally around it forgets the        *)
(* provider's task, whosever that is by now.                               *)
RequestOver(t) ==
  provider' = IF pc[t] = "chat" THEN [task |-> NoTurn, off |-> provider.off \ {t}]
              ELSE provider

(* No connected provider, an invalid tool schema, no context window, or a  *)
(* failure of the LLM request.                                             *)
Fail(t) ==
  /\ loop = NoTurn
  /\ pc[t] \in {"prepare", "llm", "chat"}
  /\ timer[t] # "firing"
  /\ RequestOver(t)
  /\ EndTurn(t, "error")
  /\ UNCHANGED <<iter, force, anyOk, callVars, pending, latest, stage,
                 level, signals, dialogs, remembered, history>>

(* Top of the while loop: the iteration bound is looked at before the      *)
(* cancel event, the cancel event before the deadline.                     *)
Exhausted(t) ==
  /\ loop = t /\ pc[t] = "top"
  /\ iter[t] >= MaxIterations
  /\ EndTurn(t, "ok")
  /\ UNCHANGED <<iter, force, anyOk, callVars, provider, pending, latest, stage,
                 level, signals, dialogs, remembered, history>>

TopCancelled(t) ==
  /\ loop = t /\ pc[t] = "top"
  /\ iter[t] < MaxIterations
  /\ cancelEvent
  /\ EndTurn(t, "cancelled")
  /\ UNCHANGED <<iter, force, anyOk, callVars, provider, pending, latest, stage,
                 level, signals, dialogs, remembered, history>>

TopDeadline(t) ==
  /\ loop = t /\ pc[t] = "top"
  /\ iter[t] < MaxIterations
  /\ ~cancelEvent
  /\ EndTurn(t, "timeout")
  /\ UNCHANGED <<iter, force, anyOk, callVars, provider, pending, latest, stage,
                 level, signals, dialogs, remembered, history>>

(* _call_llm: the request is a stream, or a chat() that only its flag       *)
(* could stop ("llm"), or a chat() run as the provider's task ("chat"),    *)
(* which takes the place of whatever other turn's task is there.           *)
CallLlm(t) ==
  /\ loop = t /\ pc[t] = "top"
  /\ iter[t] < MaxIterations
  /\ ~cancelEvent
  /\ stage # "down"
  /\ iter' = [iter EXCEPT ![t] = @ + 1]
  /\ \E kind \in Requests :
       /\ pc' = [pc EXCEPT ![t] = kind]
       /\ provider' = IF kind = "chat" THEN [provider EXCEPT !.task = t] ELSE provider
  /\ loop' = NoTurn
  /\ UNCHANGED <<batch, cur, force, anyOk, timer, callVars, state, cancelEvent,
                 pending, latest, stage, guiVars, history>>

(* The model answers turn t: its stream ends, or its task has a result,    *)
(* which a cancellation that comes after it does not take back.            *)
Replies(t) ==
  /\ loop = NoTurn
  /\ stage # "down"
  /\ pc[t] \in {"llm", "chat"}
  /\ timer[t] # "firing"
  /\ RequestOver(t)

(* A response without tool calls ends the turn.  A provider that saw its   *)
(* cancel flag breaks out of its stream and the text so far is such a      *)
(* response.                                                               *)
ReplyFinal(t) ==
  /\ Replies(t)
  /\ EndTurn(t, "ok")
  /\ UNCHANGED <<iter, force, anyOk, callVars, pending, latest, stage,
                 level, signals, dialogs, remembered, history>>

NewCalls(t, B) == B # {} /\ \A c \in B : Owner[c] = t /\ status[c] = "new"

(* So does one that had to do without tools and has calls all the same: it *)
(* is appended with them, and nothing ever answers them.                   *)
ReplyUnanswered(t, B) ==
  /\ Replies(t)
  /\ force[t]
  /\ NewCalls(t, B)
  /\ status' = [c \in Calls |-> IF c \in B THEN "unanswered" ELSE status[c]]
  /\ EndTurn(t, "ok")
  /\ UNCHANGED <<iter, force, anyOk, opCancelled, pending, latest, stage,
                 level, signals, dialogs, remembered, history>>

(* A response with calls: they are executed one after another.             *)
ReplyTools(t, B) ==
  /\ Replies(t)
  /\ ~force[t]
  /\ NewCalls(t, B)
  /\ batch' = [batch EXCEPT ![t] = B]
  /\ anyOk' = [anyOk EXCEPT ![t] = FALSE]
  /\ pc' = [pc EXCEPT ![t] = "batch"]
  /\ loop' = t
  /\ UNCHANGED <<iter, cur, force, timer, callVars, state, cancelEvent,
                 pending, latest, stage, guiVars, history>>

(* The cancel event ends a stream at its next chunk: a model that sends    *)
(* nothing more is waited for.                                             *)
LlmCancelled(t) ==
  /\ loop = NoTurn
  /\ pc[t] = "llm"
  /\ cancelEvent
  /\ EndTurn(t, "cancelled")
  /\ UNCHANGED <<iter, force, anyOk, callVars, provider, pending, latest, stage,
                 level, signals, dialogs, remembered, history>>

(* The task of a request was cancelled: the model is not waited for.       *)
RequestCancelled(t) ==
  /\ loop = NoTurn
  /\ pc[t] = "chat"
  /\ t \in provider.off
  /\ RequestOver(t)
  /\ EndTurn(t, "cancelled")
  /\ UNCHANGED <<iter, force, anyOk, callVars, pending, latest, stage,
                 level, signals, dialogs, remembered, history>>

-----------------------------------------------------------------------------
(* _execute_tool_calls: the calls of the batch one after another.          *)

(* Mutant of NextCall: the cancel event is not looked at between calls.    *)
NextCallUnchecked(t, c) == loop = t /\ pc[t] = "batch" /\ c \in batch[t]

(* The coroutine holds the loop, call c is next and nothing cancels it.    *)
NextCall(t, c) ==
  /\ loop = t /\ pc[t] = "batch"
  /\ c \in batch[t]
  /\ ~cancelEvent

BatchCancelled(t) ==
  /\ loop = t /\ pc[t] = "batch"
  /\ batch[t] # {}
  /\ cancelEvent
  /\ EndTurn(t, "cancelled")
  /\ UNCHANGED <<iter, force, anyOk, callVars, provider, pending, latest, stage,
                 level, signals, dialogs, remembered, history>>

(* Mutant of BatchDone: a cancel breaks out of the loop over the calls.    *)
BatchDoneEarly(t) ==
  /\ loop = t /\ pc[t] = "batch"
  /\ batch[t] = {} \/ cancelEvent
  /\ stage # "down"
  /\ force' = [force EXCEPT ![t] = @ \/ ~anyOk[t]]
  /\ pc' = [pc EXCEPT ![t] = "top"]
  /\ UNCHANGED <<iter, batch, cur, anyOk, timer, callVars, orchVars, guiVars, history>>

(* Every call has a result: the tool message is appended.  When all of     *)
(* them failed, the next response has to do without tools.                 *)
BatchDone(t) ==
  /\ loop = t /\ pc[t] = "batch"
  /\ batch[t] = {}
  /\ stage # "down"
  /\ force' = [force EXCEPT ![t] = @ \/ ~anyOk[t]]
  /\ pc' = [pc EXCEPT ![t] = "top"]
  /\ UNCHANGED <<iter, batch, cur, anyOk, timer, callVars, orchVars, guiVars, history>>

(* shutdown() has taken the session away under the turn: the next use of   *)
(* it raises.                                                              *)
SessionGone(t) ==
  /\ loop = t
  /\ stage = "down"
  /\ \/ pc[t] = "top" /\ iter[t] < MaxIterations /\ ~cancelEvent
     \/ pc[t] = "batch" /\ batch[t] = {}
  /\ EndTurn(t, "error")
  /\ UNCHANGED <<iter, force, anyOk, callVars, provider, pending, latest, stage,
                 level, signals, dialogs, remembered, history>>

(* Mutant of Settle: a call cancelled while it ran is called declined.     *)
SettleAsDeclined(t, c, r) ==
  /\ status' = [status EXCEPT ![c] = IF r = "opcancelled" THEN "declined" ELSE r]
  /\ anyOk' = [anyOk EXCEPT ![t] = @ \/ r = "ok"]
  /\ batch' = [batch EXCEPT ![t] = @ \ {c}]
  /\ cur' = [cur EXCEPT ![t] = NoCall]
  /\ pc' = [pc EXCEPT ![t] = "batch"]
  /\ loop' = t

(* Result r of call c goes into the results and the next call is taken.    *)
Settle(t, c, r) ==
  /\ status' = [status EXCEPT ![c] = r]
  /\ anyOk' = [anyOk EXCEPT ![t] = @ \/ r = "ok"]
  /\ batch' = [batch EXCEPT ![t] = @ \ {c}]
  /\ cur' = [cur EXCEPT ![t] = NoCall]
  /\ pc' = [pc EXCEPT ![t] = "batch"]
  /\ loop' = t

(* tools.search, or a tool that is not loaded: a result without a task.    *)
AnswerInPlace(t, c) ==
  /\ NextCall(t, c)
  /\ c \in Meta
  /\ \E r \in {"ok", "failed"} : Settle(t, c, r)
  /\ UNCHANGED <<iter, force, timer, opCancelled, state, cancelEvent, provider,
                 pending, latest, stage, guiVars, history>>

(* _request_confirmation: the signal is queued for the GUI thread and the  *)
(* future registered before the coroutine awaits it.                       *)
Ask(t, c) ==
  /\ NextCall(t, c)
  /\ c \notin Meta
  /\ ShouldConfirm(c)
  /\ stage = "up"
  /\ state' = "waiting_confirmation"
  /\ status' = [status EXCEPT ![c] = "waiting"]
  /\ signals' = Append(signals, c)
  /\ pending' = pending \cup {c}
  /\ latest' = c
  /\ asked' = asked \cup {c}
  /\ cur' = [cur EXCEPT ![t] = c]
  /\ pc' = [pc EXCEPT ![t] = "confirm"]
  /\ loop' = NoTurn
  /\ UNCHANGED <<iter, batch, force, anyOk, timer, opCancelled, cancelEvent, provider,
                 stage, level, input, dialogs, remembered, consent, effects>>

(* After shutdown has begun nobody is asked: the call counts as declined.  *)
AskRefused(t, c) ==
  /\ NextCall(t, c)
  /\ c \notin Meta
  /\ ShouldConfirm(c)
  /\ stage # "up"
  /\ Settle(t, c, "declined")
  /\ UNCHANGED <<iter, force, timer, opCancelled, state, cancelEvent, provider,
                 pending, latest, stage, guiVars, history>>

(* RunningToolCalls.run: a task is created and awaited.                    *)
Launch(t, c) ==
  /\ status' = [status EXCEPT ![c] = "scheduled"]
  /\ cur' = [cur EXCEPT ![t] = c]
  /\ pc' = [pc EXCEPT ![t] = "tool"]
  /\ loop' = NoTurn

RunUnasked(t, c) ==
  /\ NextCall(t, c)
  /\ c \notin Meta
  /\ ~ShouldConfirm(c)
  /\ Launch(t, c)
  /\ UNCHANGED <<iter, batch, force, anyOk, timer, opCancelled, state, cancelEvent,
                 provider, pending, latest, stage, guiVars, history>>

(* Mutant of Unregister: the set of pending confirmations is not pruned.   *)
UnregisterLatest(c) ==
  /\ pending' = pending
  /\ latest' = IF latest = c THEN NoCall ELSE latest
  /\ state' = "processing"

(* The finally of _request_confirmation.                                   *)
Unregister(c) ==
  /\ pending' = pending \ {c}
  /\ latest' = IF latest = c THEN NoCall ELSE latest
  /\ state' = "processing"

ResumeApproved(t) ==
  /\ loop = NoTurn
  /\ pc[t] = "confirm"
  /\ status[cur[t]] = "approved"
  /\ timer[t] # "firing"
  /\ Unregister(cur[t])
  /\ Launch(t, cur[t])
  /\ UNCHANGED <<iter, batch, force, anyOk, timer, opCancelled, cancelEvent, provider,
                 stage, guiVars, history>>

(* A denial, and any CancelledError, whoever raised it: also the one by    *)
(* which wait_for ends the turn, which is spent here.                      *)
ResumeDeclined(t) ==
  /\ loop = NoTurn
  /\ pc[t] = "confirm"
  /\ \/ status[cur[t]] \in {"denied", "released"}
     \/ status[cur[t]] = "approved" /\ timer[t] = "firing"
  /\ timer' = [timer EXCEPT ![t] = IF @ = "firing" THEN "spent" ELSE @]
  /\ Unregister(cur[t])
  /\ Settle(t, cur[t], "declined")
  /\ UNCHANGED <<iter, force, opCancelled, cancelEvent, provider, stage, guiVars, history>>

-----------------------------------------------------------------------------
(* The task of a tool call. *)

TaskStart(c) ==
  /\ loop = NoTurn
  /\ status[c] = "scheduled"
  /\ status' = [status EXCEPT ![c] = "running"]
  /\ effects' = effects \cup {c}
  /\ UNCHANGED <<turnVars, opCancelled, orchVars, guiVars, asked, consent>>

TaskReturns(c) ==
  /\ loop = NoTurn
  /\ status[c] = "running"
  /\ \E r \in {"retOk", "retFail"} : status' = [status EXCEPT ![c] = r]
  /\ UNCHANGED <<turnVars, opCancelled, orchVars, guiVars, history>>

(* A cancelled task ends; a tool that began may absorb the cancellation    *)
(* (named_pipe_client.py does while it closes) and return all the same.    *)
TaskStops(c) ==
  /\ loop = NoTurn
  /\ status[c] = "stopping"
  /\ \E r \in IF c \in effects THEN TaskDone ELSE {"retCancelled"} :
       status' = [status EXCEPT ![c] = r]
  /\ UNCHANGED <<turnVars, opCancelled, orchVars, guiVars, history>>

(* The turn goes on with the result; a call the operator cancelled on its  *)
(* own is a failed result, unless the turn itself is being cancelled.      *)
ToolResult(t) ==
  LET c == cur[t] IN
  /\ loop = NoTurn
  /\ pc[t] = "tool"
  /\ timer[t] # "firing"
  /\ \/ status[c] = "retOk"   /\ Settle(t, c, "ok")
     \/ status[c] = "retFail" /\ Settle(t, c, "failed")
     \/ /\ status[c] = "retCancelled"
        /\ c \in opCancelled /\ timer[t] = "armed"
        /\ Settle(t, c, "opcancelled")
  /\ opCancelled' = opCancelled \ {c}
  /\ UNCHANGED <<iter, force, timer, state, cancelEvent, provider, pending, latest,
                 stage, guiVars, history>>

(* Mutant of ToolAborted: a timeout ends the turn before its task stopped. *)
ToolAbandoned(t) ==
  /\ loop = NoTurn
  /\ pc[t] = "tool"
  /\ timer[t] \in {"firing", "spent"}
  /\ EndTurn(t, "cancelled")
  /\ UNCHANGED <<iter, force, anyOk, callVars, provider, pending, latest, stage,
                 level, signals, dialogs, remembered, history>>

ToolAborted(t) ==
  LET c == cur[t] IN
  /\ loop = NoTurn
  /\ pc[t] = "tool"
  /\ \/ timer[t] = "firing" /\ status[c] \in TaskDone
     \/ status[c] = "retCancelled" /\ ~(c \in opCancelled /\ timer[t] = "armed")
  /\ status' = [status EXCEPT ![c] = "stopped"]
  /\ opCancelled' = opCancelled \ {c}
  /\ EndTurn(t, "cancelled")
  /\ UNCHANGED <<iter, force, anyOk, provider, pending, latest, stage,
                 level, signals, dialogs, remembered, history>>

(* The operator cancels one call: RunningToolCalls.cancel.                 *)
CancelCall(c) ==
  /\ loop = NoTurn
  /\ status[c] \in LiveTask
  /\ status' = [status EXCEPT ![c] = "stopping"]
  /\ opCancelled' = opCancelled \cup {c}
  /\ UNCHANGED <<turnVars, orchVars, guiVars, history>>

-----------------------------------------------------------------------------
(* The timeout of wait_for, Cancel, session switches and shutdown. *)

(* The timer cancels what the turn awaits.  A future or task already done  *)
(* cannot take the cancellation, which then waits for the coroutine.       *)
TimeoutFires(t) ==
  LET c == cur[t]
      takes == \/ pc[t] = "confirm" /\ status[c] = "waiting"
               \/ pc[t] = "tool" /\ status[c] \in LiveTask
  IN
  /\ loop = NoTurn
  /\ pc[t] \in Awaiting
  /\ timer[t] = "armed"
  /\ timer' = [timer EXCEPT ![t] = IF takes THEN "spent" ELSE "firing"]
  /\ status' = IF takes
               THEN [status EXCEPT ![c] = IF pc[t] = "tool" THEN "stopping" ELSE "released"]
               ELSE status
  /\ UNCHANGED <<pc, iter, batch, cur, force, anyOk, opCancelled, orchVars, guiVars, history>>

Interrupted(t) ==
  /\ loop = NoTurn
  /\ pc[t] \in {"prepare", "llm", "chat"}
  /\ timer[t] = "firing"
  /\ RequestOver(t)
  /\ EndTurn(t, "cancelled")
  /\ UNCHANGED <<iter, force, anyOk, callVars, pending, latest, stage,
                 level, signals, dialogs, remembered, history>>

(* Mutant of Marshalled: only the latest confirmation is released.         *)
MarshalledLatest(s) ==
  [c \in Calls |-> IF c = latest /\ s[c] = "waiting" THEN "released" ELSE s[c]]

(* _marshal_pending_confirmations, then RunningToolCalls.cancel_all.       *)
Marshalled(s) == [c \in Calls |-> IF c \in pending /\ s[c] = "waiting" THEN "released" ELSE s[c]]
Swept(s)      == [c \in Calls |-> IF s[c] \in LiveTask THEN "stopping" ELSE s[c]]

(* The provider's cancel_request: its task is cancelled; a flag, which it  *)
(* also sets, is looked at only when the next chunk of a stream arrives.   *)
RequestTaskCancelled ==
  provider' = [provider EXCEPT !.off = @ \cup ({provider.task} \ {NoTurn})]

(* Mutant of CancelEffect: the confirmations are not marshalled.           *)
CancelEffectUnmarshalled ==
  IF state \in {"processing", "waiting_confirmation"}
  THEN /\ cancelEvent' = TRUE
       /\ RequestTaskCancelled
       /\ status' = Swept(status)
  ELSE /\ cancelEvent' = FALSE
       /\ UNCHANGED <<provider, status>>

(* cancel(): nothing but clearing the event when the state says idle.      *)
CancelEffect ==
  IF state \in {"processing", "waiting_confirmation"}
  THEN /\ cancelEvent' = TRUE
       /\ RequestTaskCancelled
       /\ status' = Swept(Marshalled(status))
  ELSE /\ cancelEvent' = FALSE
       /\ UNCHANGED <<provider, status>>

(* The Cancel button, or the deletion of the current session: the          *)
(* coroutine runs some time after the click, and its completion enables    *)
(* the input.                                                              *)
Cancel ==
  /\ loop = NoTurn
  /\ CancelEffect
  /\ input' = TRUE
  /\ UNCHANGED <<turnVars, opCancelled, loop, state, pending, latest, stage,
                 level, signals, dialogs, remembered, asked, consent, effects>>

(* start_session and load_session reset the state to idle, and nothing     *)
(* keeps them from running while a turn is in flight.                      *)
SwitchSession ==
  /\ loop = NoTurn
  /\ stage = "up"
  /\ state' = "idle"
  /\ input' = TRUE
  /\ UNCHANGED <<turnVars, callVars, loop, cancelEvent, provider, pending, latest,
                 stage, level, signals, dialogs, remembered, history>>

(* shutdown(): the flag and the marshalling; after sleep(0) the cancel; at *)
(* the end no session and the idle state.                                  *)
ShutdownMarshal ==
  /\ loop = NoTurn
  /\ stage = "up"
  /\ stage' = "marshalled"
  /\ status' = Marshalled(status)
  /\ UNCHANGED <<turnVars, opCancelled, loop, state, cancelEvent, provider, pending,
                 latest, guiVars, history>>

ShutdownCancel ==
  /\ loop = NoTurn
  /\ stage = "marshalled"
  /\ CancelEffect
  /\ stage' = "cancelled"
  /\ UNCHANGED <<turnVars, opCancelled, loop, state, pending, latest, guiVars,
                 asked, consent, effects>>

ShutdownFinish ==
  /\ loop = NoTurn
  /\ stage = "cancelled"
  /\ stage' = "down"
  /\ state' = "idle"
  /\ UNCHANGED <<turnVars, callVars, loop, cancelEvent, provider, pending, latest,
                 guiVars, history>>

-----------------------------------------------------------------------------
(* The GUI thread. *)

Word(yes) == IF yes THEN "approved" ELSE "denied"

(* Mutant of Deliver: a dialog closed without approval delivers nothing.   *)
DeliverApprovals(c, yes) ==
  /\ status' = [x \in Calls |-> IF yes /\ status[x] = "waiting" /\ x \in {latest, c}
                                THEN "approved" ELSE status[x]]
  /\ consent' = IF yes THEN consent \cup {c} ELSE consent

(* _deliver: resolve_confirmation resolves whatever confirmation is latest *)
(* by now, then the dialog's own future is resolved if it still waits.     *)
Deliver(c, yes) ==
  /\ status' = [x \in Calls |-> IF status[x] = "waiting" /\ x \in {latest, c}
                                THEN Word(yes) ELSE status[x]]
  /\ consent' = IF yes THEN consent \cup {c} ELSE consent

(* _show_confirmation_dialog for the oldest queued signal: a modal dialog  *)
(* opens on top of those already open, or a remembered answer is replayed  *)
(* without one.                                                            *)
OpenDialog ==
  /\ signals # <<>>
  /\ remembered[KindOf[Head(signals)]] = "none"
  /\ dialogs' = Append(dialogs, Head(signals))
  /\ signals' = Tail(signals)
  /\ UNCHANGED <<turnVars, callVars, orchVars, level, input, remembered, history>>

ReplayAnswer(yes) ==
  /\ signals # <<>>
  /\ remembered[KindOf[Head(signals)]] = Word(yes)
  /\ Deliver(Head(signals), yes)
  /\ signals' = Tail(signals)
  /\ UNCHANGED <<turnVars, opCancelled, orchVars, level, input, dialogs, remembered,
                 asked, effects>>

(* The operator decides in the topmost dialog, and may have the answer     *)
(* remembered; a dialog closed without a decision delivers a denial.       *)
Answer(yes, remember) ==
  LET c == dialogs[Len(dialogs)] IN
  /\ dialogs # <<>>
  /\ Deliver(c, yes)
  /\ remembered' = IF remember THEN [remembered EXCEPT ![KindOf[c]] = Word(yes)]
                   ELSE remembered
  /\ dialogs' = SubSeq(dialogs, 1, Len(dialogs) - 1)
  /\ UNCHANGED <<turnVars, opCancelled, orchVars, level, input, signals, asked, effects>>

(* The auto-approve button changes the level for the calls that follow.    *)
SetLevel(l) ==
  /\ dialogs = <<>>
  /\ level' = l
  /\ UNCHANGED <<turnVars, callVars, orchVars, input, signals, dialogs, remembered, history>>

-----------------------------------------------------------------------------
TurnStep(t) ==
  \/ Begin(t) \/ BeginRefused(t)
  \/ Exhausted(t) \/ TopCancelled(t) \/ TopDeadline(t) \/ CallLlm(t)
  \/ BatchCancelled(t) \/ BatchDone(t) \/ SessionGone(t)
  \/ \E c \in Calls : AnswerInPlace(t, c) \/ Ask(t, c) \/ AskRefused(t, c) \/ RunUnasked(t, c)
  \/ ResumeApproved(t) \/ ResumeDeclined(t)
  \/ ToolResult(t) \/ ToolAborted(t) \/ Interrupted(t) \/ RequestCancelled(t)

(* What waits for the provider: for its models, for a chunk or a response. *)
ModelReply(t) ==
  \/ Prepared(t) \/ Fail(t) \/ ReplyFinal(t) \/ LlmCancelled(t)
  \/ \E B \in SUBSET Calls : ReplyTools(t, B) \/ ReplyUnanswered(t, B)

TaskStep(c) == TaskStart(c) \/ TaskStops(c)

SignalStep == OpenDialog \/ \E yes \in BOOLEAN : ReplayAnswer(yes)

Gui ==
  \/ \E t \in Turns : Submit(t)
  \/ SignalStep
  \/ \E yes \in BOOLEAN, remember \in BOOLEAN : Answer(yes, remember)
  \/ \E l \in Levels : SetLevel(l)

Next ==
  \/ \E t \in Turns : TurnStep(t) \/ ModelReply(t) \/ TimeoutFires(t)
  \/ \E c \in Calls : TaskStep(c) \/ TaskReturns(c) \/ CancelCall(c)
  \/ Cancel \/ SwitchSession \/ ShutdownMarshal \/ ShutdownCancel \/ ShutdownFinish
  \/ Gui

Spec == Init /\ [][Next]_vars

-----------------------------------------------------------------------------
(* Safety. *)

(* The confirmations registered with the orchestrator are exactly those    *)
(* some turn awaits, and the one confirm_pending() would resolve is one of *)
(* them: the finally of _request_confirmation leaves nothing behind, in    *)
(* whatever order answers, cancels, timeouts and shutdown release them.    *)
PendingIsAwaited ==
  /\ pending = {c \in Calls : status[c] \in Undecided}
  /\ \A c \in pending : pc[Owner[c]] = "confirm" /\ cur[Owner[c]] = c
  /\ latest \in pending \cup {NoCall}

(* A tool task runs only while its turn awaits it: no turn, however it     *)
(* ends, leaves a task behind, and a turn runs one call at a time          *)
(* (RunningToolCalls.run, wait_for).                                       *)
NoOrphanTask ==
  \A c \in Calls : status[c] \in LiveTask \cup TaskDone =>
    pc[Owner[c]] = "tool" /\ cur[Owner[c]] = c

(* A call whose result tells the model that the operator declined it never *)
(* ran its tool.                                                           *)
DeclinedNeverRan == \A c \in Calls : status[c] = "declined" => c \notin effects

(* Once shutdown has marshalled the confirmations nobody waits for an      *)
(* answer any more: a turn that goes on during the teardown cannot ask.    *)
NoWaiterAfterShutdown == stage # "up" => \A c \in Calls : status[c] # "waiting"

(* While the cancel event is set no turn waits for the operator: Cancel    *)
(* releases the confirmations that exist and none is requested after it.   *)
NoWaiterWhileCancelling == cancelEvent => \A c \in Calls : status[c] # "waiting"

(* When a turn asks the model again every call of its earlier responses    *)
(* has a result in the history, so the model never sees one of them hang.  *)
(* A turn that ended well leaves calls without a result only when it had   *)
(* to do without tools, and then none of them ran (orchestrator.py:1553).  *)
ResultsBeforeNextRequest ==
  \A t \in Turns : pc[t] \in {"prepare", "top", "llm", "chat", "ok"} =>
    /\ batch[t] = {}
    /\ \A c \in Calls : Owner[c] = t =>
         \/ status[c] \in {"new"} \cup Result
         \/ status[c] = "unanswered" /\ pc[t] = "ok" /\ force[t] /\ c \notin effects

(* What the invariants above rest on: the call a turn is on is its own and *)
(* is where the turn says; a batch holds its turn's calls, untouched but   *)
(* for the current one; a call that has not been launched had no effect;   *)
(* only a turn that was cancelled or timed out abandons a call.            *)
CallsInPlace ==
  /\ \A t \in Turns :
       /\ pc[t] \in {"confirm", "tool"} => cur[t] \in Calls /\ Owner[cur[t]] = t
       /\ pc[t] = "confirm" => status[cur[t]] \in Undecided
       /\ pc[t] = "tool" => status[cur[t]] \in LiveTask \cup TaskDone
       /\ pc[t] \notin {"confirm", "tool"} => cur[t] = NoCall
       /\ \A c \in batch[t] : Owner[c] = t /\ (status[c] = "new" \/ c = cur[t])
       /\ batch[t] # {} => pc[t] \in {"batch", "confirm", "tool"}
  /\ \A c \in Calls :
       /\ status[c] \in {"new", "declined", "scheduled", "unanswered"} \cup Undecided
            => c \notin effects
       /\ status[c] = "unanswered" => pc[Owner[c]] = "ok" /\ force[Owner[c]]
       /\ status[c] = "stopped" => pc[Owner[c]] \in {"cancelled", "timeout"}

-----------------------------------------------------------------------------
(* What the documentation promises. *)

(* README.md:31 "asks for confirmation before anything changes a target":  *)
(* a call that was put up for confirmation runs only when the operator's   *)
(* own answer to that call approved it.                                    *)
ConsentBeforeEffect == \A c \in asked \cap effects : c \in consent

(* orchestrator.py:3465 "Nothing is in flight to cancel": when the state   *)
(* is one in which cancel() does nothing, no turn is in flight.            *)
IdleMeansNothingInFlight ==
  state \notin {"processing", "waiting_confirmation"} =>
    \A t \in Turns : pc[t] \notin InFlight

-----------------------------------------------------------------------------
(* Liveness. *)

(* The event loop runs what is ready, and the GUI thread processes its     *)
(* queued signals.  That a request ends by itself is nothing the program   *)
(* can promise, nor that a tool returns.                                   *)
LoopFairness ==
  /\ \A t \in Turns : WF_vars(TurnStep(t))
  /\ \A c \in Calls : WF_vars(TaskStep(c))
  /\ WF_vars(SignalStep)

ToolsReturn == \A c \in Calls : WF_vars(TaskReturns(c))
ModelsReply == \A t \in Turns : WF_vars(ModelReply(t))
TimersFire == \A t \in Turns : WF_vars(TimeoutFires(t))
OperatorAnswers == WF_vars(\E yes \in BOOLEAN, remember \in BOOLEAN : Answer(yes, remember))

CancelSpec == Spec /\ LoopFairness /\ ToolsReturn
AbsentSpec == CancelSpec /\ TimersFire /\ ModelsReply

(* orchestrator.py:1394 promises that TimeoutError propagates "when the    *)
(* loop does not complete within timeout_seconds": every message that      *)
(* reaches the loop leads to an end of its turn, the operator's answers    *)
(* or no answers.                                                          *)
TurnEnds == \A t \in Turns : (pc[t] = "queued") ~> (pc[t] \in Ended)

(* With the operator answering, models replying and timers firing, it does. *)
AttendedTurnEnds == TimersFire /\ ModelsReply /\ OperatorAnswers => TurnEnds

\* Turn t waits for a request that no cancellation has reached: a chunk of a
\* stream, a chat() that is not the provider's task or no longer is.
Silent(t) == pc[t] \in {"prepare", "llm"} \/ (pc[t] = "chat" /\ t \notin provider.off)

(* A turn in flight does not outlive a cancel event that stays set, though *)
(* nobody answers a dialog and no timeout comes (cancel).  It may outlive  *)
(* one while a model sends nothing more, and only then: with models that   *)
(* reply, or end their streams, every turn in flight ends.                 *)
CancelIsServed ==
  /\ []<>~(cancelEvent /\ \E t \in Turns : pc[t] \in InFlight /\ ~Silent(t))
  /\ ModelsReply => []<>~(cancelEvent /\ \E t \in Turns : pc[t] \in InFlight)
=============================================================================
