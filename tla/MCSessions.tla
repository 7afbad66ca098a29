----------------------------- MODULE MCSessions -----------------------------
(* Instances of Sessions for TLC: which operations are requested.          *)
EXTENDS Sessions

CONSTANTS turn, save, load, delete, start, quit, i1, i2, i3

All == {turn, save, load, delete, start, quit}

\* A switch of session and the end of the program around a turn, a day
\* passing with either of the two; or three of the operations that save and
\* switch sessions, which may overlap.
Together ==
  LET requested == {o \in Ops : pc[o] # "new"}
      oneDay == today = 0
  IN \/ /\ requested \subseteq {turn, load, quit}
        /\ oneDay \/ Cardinality(requested) < 3
     \/ /\ requested \subseteq {save, load, start, delete}
        /\ oneDay /\ Cardinality(requested) <= 3

KindOf(o) == CASE o = turn   -> "turn"
               [] o = save   -> "save"
               [] o = load   -> "load"
               [] o = delete -> "delete"
               [] o = start  -> "start"
               [] o = quit   -> "quit"

Kinds1 == [o \in Ops |-> KindOf(o)]
ToThird == [o \in Ops |-> IF o = start THEN i3 ELSE i2]
IdsThree == {i1, i2, i3}
=============================================================================
