---------------------------- MODULE MCAgentLoop ----------------------------
(* Instances of AgentLoop for TLC: one turn with three calls, two turns    *)
(* with two calls, and the switches the runs combine them with.          *)
EXTENDS AgentLoop

CONSTANTS t1, t2, c1, c2, c3, k1, k2

OneTurn == {t1}
TwoTurns == {t1, t2}
TwoCalls == {c1, c2}
ThreeCalls == {c1, c2, c3}
OneKind == {k1}
KindOne == [c \in Calls |-> k1]
BothKinds == {k1, k2}
NoCalls == {}

OwnerOne == [c \in Calls |-> t1]
OwnerTwo == [c \in Calls |-> IF c = c2 THEN t2 ELSE t1]
KindFirstApart == [c \in Calls |-> IF c = c1 THEN k1 ELSE k2]
FirstTwo == {c1, c2}
FirstOnly == {c1}
ThirdOnly == {c3}

AsTask == {"chat"}
AsStream == {"llm"}
EitherWay == {"llm", "chat"}

OnlyDestructive == {"destructive"}
DestructiveOrNone == {"destructive", "none"}

\* What happens to the turns beside their own course: a time limit, a switch
\* of the level, an answer kept, one call cancelled, the end of the program.
TimedOut   == \E t \in Turns : timer[t] \in {"firing", "spent"} \/ pc[t] = "timeout"
Disturbances == {k \in 1..5 : CASE k = 1 -> TimedOut
                                 [] k = 2 -> level = "none"
                                 [] k = 3 -> \E kind \in Kinds : remembered[kind] # "none"
                                 [] k = 4 -> opCancelled # {}
                                 [] k = 5 -> stage # "up"}
OneDisturbance == Cardinality(Disturbances) <= 1
=============================================================================
