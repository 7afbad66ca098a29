--------------------------- MODULE MCOperatorWait ---------------------------
(* Instance of OperatorWait for TLC: a short and a longer request, and two *)
(* questions that may overlap.                                             *)
EXTENDS OperatorWait

CONSTANTS r1, r2, q1, q2

Both == {r1, r2}
TwoQuestions == {q1, q2}
Budgets == [r \in Requests |-> IF r = r1 THEN 1 ELSE 2]
=============================================================================
