---------------------------- MODULE ToolHistory ----------------------------
(***************************************************************************)
(* What a model is shown of a session: the message list that the turns of  *)
(* core/orchestrator.py append to and cut back, and the copy of it, paired *)
(* and trimmed, that each request sends.                                   *)
(*                                                                         *)
(* A turn appends to the session that is current at that moment, sessions  *)
(* are saved and switched while it runs, and a turn that was cancelled may *)
(* overlap the next one (AgentLoop shows when).  So a list can hold calls  *)
(* nobody answered and results nobody asked for.  What a turn does beside  *)
(* that is AgentLoop's; here it may fail at any await.                     *)
(***************************************************************************)
EXTENDS Integers, Sequences, FiniteSets, SequencesExt

CONSTANTS Turns,          \* user messages, one turn each
          CallIds,        \* ToolCall.id: providers may number them anew in each reply
          Rows,           \* histories that other sessions may have in the store
          MaxIterations,  \* config.max_iterations
          MaxLoads,       \* bound: sessions loaded or started
          NoTurn, NoRow

ASSUME IterationAssumption == MaxIterations \in Nat /\ MaxLoads \in Nat
ASSUME NoneAssumption == NoTurn \notin Turns /\ NoRow \notin Rows

VARIABLES
  pc,       \* where each turn is
  iter,     \* iterations of its agent loop so far
  issued,   \* ids of the calls it is executing
  force,    \* force_no_tools_next
  history,  \* messages of the current session
  loading,  \* the messages read for the session about to be the current one
  loads     \* how many were

turnVars == <<pc, iter, issued, force>>
vars == <<turnVars, history, loading, loads>>

(* A message: who speaks, whether it has text, the calls an assistant      *)
(* message issues, the calls a tool message has results of, and the turn   *)
(* that holds this object.  One read from the store is held by none.       *)
Message == [role : {"user", "assistant", "tool"}, text : BOOLEAN,
            calls : SUBSET CallIds, results : SUBSET CallIds, by : Turns \cup {NoTurn}]

UserMessage(t)               == [role |-> "user", text |-> TRUE, calls |-> {}, results |-> {}, by |-> t]
AssistantMessage(t, text, c) == [role |-> "assistant", text |-> text, calls |-> c, results |-> {}, by |-> t]
ToolMessage(t, r)            == [role |-> "tool", text |-> FALSE, calls |-> {}, results |-> r, by |-> t]

ASSUME RowAssumption == Rows \subseteq Seq(Message)

TypeOK ==
  /\ pc \in [Turns -> {"unsent", "top", "llm", "batch", "ok", "failed"}]
  /\ iter \in [Turns -> 0..MaxIterations]
  /\ issued \in [Turns -> SUBSET CallIds]
  /\ force \in [Turns -> BOOLEAN]
  /\ history \in Seq(Message)
  /\ loading \in Seq(Message) \cup {NoRow}
  /\ loads \in 0..MaxLoads

Init ==
  /\ pc = [t \in Turns |-> "unsent"]
  /\ iter = [t \in Turns |-> 0]
  /\ issued = [t \in Turns |-> {}]
  /\ force = [t \in Turns |-> FALSE]
  /\ history = <<>>
  /\ loading = NoRow
  /\ loads = 0

-----------------------------------------------------------------------------
(* The outgoing copy. *)

(* Mutant of OwnerOf: the last calls issued own every later result.        *)
OwnerAmongCalls(h, i) == SelectLastInSubSeq(h, 1, i, LAMBDA m : m.calls # {})

(* The message a tool message answers: the last one before it that is no   *)
(* tool message, when that is an assistant message with calls; else 0.     *)
OwnerOf(h, i) ==
  LET o == SelectLastInSubSeq(h, 1, i, LAMBDA m : m.role # "tool")
  IN  IF o # 0 /\ h[o].calls # {} THEN o ELSE 0

(* Mutant of Answered: calls count as answered together or not at all.     *)
AnsweredTogether(h, i) ==
  LET given == UNION {h[j].results : j \in {k \in i + 1..Len(h) : h[k].role = "tool" /\ OwnerOf(h, k) = i}}
  IN  IF h[i].calls \subseteq given THEN h[i].calls ELSE {}

(* The calls of message i that a result answers.                           *)
Answered(h, i) ==
  h[i].calls \cap UNION {h[j].results : j \in {k \in i + 1..Len(h) : h[k].role = "tool" /\ OwnerOf(h, k) = i}}

(* The copy of message i to send: nothing when only what has no partner    *)
(* was in it.                                                              *)
Outgoing(h, i) ==
  LET m     == h[i]
      owner == OwnerOf(h, i)
      kept  == IF owner = 0 THEN {} ELSE m.results \cap Answered(h, owner)
      calls == Answered(h, i)
  IN  CASE m.role = "tool" ->
             IF owner = 0 \/ (m.results # {} /\ kept = {}) THEN <<>> ELSE <<[m EXCEPT !.results = kept]>>
        [] m.role = "assistant" /\ m.calls # {} ->
             IF calls = {} /\ ~m.text THEN <<>> ELSE <<[m EXCEPT !.calls = calls]>>
        [] OTHER -> <<m>>

(* _pair_tool_history. *)
Paired(h) == FlattenSeq([i \in 1..Len(h) |-> Outgoing(h, i)])

(* trim_messages_to_context_window: the oldest messages go until the rest  *)
(* fits, and with each the tool messages it leaves at the head.  What fits *)
(* is the window's affair.                                                 *)
Trimmed(h) == {h} \cup {SubSeq(h, k, Len(h)) : k \in {k \in 2..Len(h) + 1 : k > Len(h) \/ h[k].role # "tool"}}

(* The conversations a request may send now.                               *)
Outbound == Trimmed(Paired(history))

-----------------------------------------------------------------------------
(* The turns. *)

(* _run_user_turn appends the user message.                                *)
Send(t) ==
  /\ pc[t] = "unsent"
  /\ pc' = [pc EXCEPT ![t] = "top"]
  /\ history' = Append(history, UserMessage(t))
  /\ UNCHANGED <<iter, issued, force, loading, loads>>

(* An iteration sends one of Outbound.                                     *)
Request(t) ==
  /\ pc[t] = "top"
  /\ iter[t] < MaxIterations
  /\ iter' = [iter EXCEPT ![t] = @ + 1]
  /\ pc' = [pc EXCEPT ![t] = "llm"]
  /\ UNCHANGED <<issued, force, history, loading, loads>>

(* The reply joins the history unless it is empty.  It ends the turn when  *)
(* tools were not to be used any more, with whatever calls it has, or when *)
(* it has none.                                                            *)
Reply(t) ==
  /\ pc[t] = "llm"
  /\ \E text \in BOOLEAN, calls \in SUBSET CallIds :
       /\ history' = IF text \/ calls # {} THEN Append(history, AssistantMessage(t, text, calls)) ELSE history
       /\ issued' = [issued EXCEPT ![t] = IF force[t] THEN {} ELSE calls]
       /\ pc' = [pc EXCEPT ![t] = IF force[t] \/ calls = {} THEN "ok" ELSE "batch"]
  /\ UNCHANGED <<iter, force, loading, loads>>

(* The batch is over: one tool message has the results of all its calls,   *)
(* and when all failed the next request is the last.                       *)
Results(t) ==
  /\ pc[t] = "batch"
  /\ history' = Append(history, ToolMessage(t, issued[t]))
  /\ issued' = [issued EXCEPT ![t] = {}]
  /\ \E failed \in BOOLEAN : force' = [force EXCEPT ![t] = @ \/ failed]
  /\ pc' = [pc EXCEPT ![t] = "top"]
  /\ UNCHANGED <<iter, loading, loads>>

Exhausted(t) ==
  /\ pc[t] = "top"
  /\ iter[t] >= MaxIterations
  /\ pc' = [pc EXCEPT ![t] = "ok"]
  /\ UNCHANGED <<iter, issued, force, history, loading, loads>>

(* _rollback_turn_messages: the turn's own messages go from the end, as    *)
(* long as no other comes.                                                 *)
RolledBack(h, t) == SubSeq(h, 1, SelectLastInSeq(h, LAMBDA m : m.by # t))

(* An error, a cancel or the timeout ends the turn.                        *)
Fail(t) ==
  /\ pc[t] \in {"top", "llm", "batch"}
  /\ pc' = [pc EXCEPT ![t] = "failed"]
  /\ issued' = [issued EXCEPT ![t] = {}]
  /\ history' = RolledBack(history, t)
  /\ UNCHANGED <<iter, force, loading, loads>>

-----------------------------------------------------------------------------
(* The session is loaded again, or another one, or a new one is started,   *)
(* while turns run or not.                                                 *)

Stored(h) == [i \in 1..Len(h) |-> [h[i] EXCEPT !.by = NoTurn]]

(* SessionManager.load saves the session in use as it is, and reads the    *)
(* row of the one it is asked for.                                         *)
LoadBegins ==
  /\ loading = NoRow
  /\ loads < MaxLoads
  /\ loads' = loads + 1
  /\ loading' \in {Stored(history)} \cup Rows
  /\ UNCHANGED <<turnVars, history>>

(* load_session makes it the current one, on which the turns go on.        *)
LoadEnds ==
  /\ loading # NoRow
  /\ history' = loading
  /\ loading' = NoRow
  /\ UNCHANGED <<turnVars, loads>>

-----------------------------------------------------------------------------
Turn(t) == Send(t) \/ Request(t) \/ Reply(t) \/ Results(t) \/ Exhausted(t) \/ Fail(t)
Next == LoadBegins \/ LoadEnds \/ \E t \in Turns : Turn(t)

Spec == Init /\ [][Next]_vars

-----------------------------------------------------------------------------
(* Properties. *)

(* The tool messages right behind message i.                               *)
Behind(h, i) == {j \in i + 1..Len(h) : \A k \in i + 1..j : h[k].role = "tool"}
Given(h, i)  == UNION {h[j].results : j \in Behind(h, i)}

(* What every provider demands of a conversation (_pair_tool_history): no  *)
(* result whose call is not in the assistant message right before it, no   *)
(* call that nothing answers.                                              *)
Accepted(h) ==
  /\ \A j \in 1..Len(h) : h[j].role = "tool" =>
       \E i \in 1..j - 1 : h[i].role = "assistant" /\ j \in Behind(h, i) /\ h[j].results \subseteq h[i].calls
  /\ \A i \in 1..Len(h) : h[i].calls \subseteq Given(h, i)

(* Every request meets that demand, whatever the session went through:     *)
(* forced replies that still had calls, turns that overlapped or failed,   *)
(* switches in mid-turn, rows of an older build, trimming.                 *)
OutgoingAccepted == \A h \in Outbound : Accepted(h)

(* What remains of a conversation for its reader when calls and results    *)
(* without partner are left out: who spoke, whether in words, and which    *)
(* calls were answered.                                                    *)
Remains(h) ==
  FlattenSeq([i \in 1..Len(h) |->
    LET calls == h[i].calls \cap Given(h, i)
    IN  IF h[i].role = "tool" \/ (~h[i].text /\ calls = {}) THEN <<>>
        ELSE <<[role |-> h[i].role, text |-> h[i].text, calls |-> calls]>>])

(* Pairing loses nothing else: every text and every answered call of the   *)
(* session is in the copy, in its place.                                   *)
OnlyUnpairedDropped == Remains(Paired(history)) = Remains(history)

(* What TLC refutes: that a call is sent with one result.  Google's calls  *)
(* are numbered from zero in each reply (google.py:1074), and a result     *)
(* names its call by the id alone: that of a batch which was running when  *)
(* the session was loaded joins the answer of another call.                *)
AnsweredOnce ==
  \A h \in Outbound : \A i \in 1..Len(h) : \A j, k \in Behind(h, i) :
    j # k => h[j].results \cap h[k].results = {}
=============================================================================
