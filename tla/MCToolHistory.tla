--------------------------- MODULE MCToolHistory ---------------------------
(* Two turns, two call ids, and rows of other sessions.                    *)
EXTENDS ToolHistory

CONSTANTS t1, t2, c0, c1

TwoTurns == {t1, t2}
TwoIds == {c0, c1}

\* An empty session, one saved before its turn had an answer, and one with what
\* an older build may leave: results whose call is gone, and calls nobody answered.
NewOrOld ==
  {<<>>, << UserMessage(NoTurn), AssistantMessage(NoTurn, TRUE, CallIds) >>} \cup
  {<< ToolMessage(NoTurn, {c}), AssistantMessage(NoTurn, FALSE, {c}) >> : c \in CallIds}

Interchangeable == Permutations(CallIds) \cup Permutations(Turns)

\* Bounds: the messages of the session in use, fewer when turns overlap in a
\* session that was loaded.
Running == {t \in Turns : pc[t] \in {"top", "llm", "batch"}}
Short == Len(history) <= IF loads > 0 /\ Cardinality(Running) > 1 THEN 3 ELSE 5
=============================================================================
