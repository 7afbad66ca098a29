--------------------------- MODULE MCWriteGrants ---------------------------
(* An instance of WriteGrants for TLC: two programs, the first with two    *)
(* servers that share a directory.                                         *)
EXTENDS WriteGrants, TLC

CONSTANTS p1, p2, a1, b1, a2, d1, d2

Both == {p1, p2}
Folders == {d1, d2}
Servers == {a1, b1, a2}
Owner == [l \in Servers |-> IF l = a2 THEN p2 ELSE p1]
Lists == [l \in Servers |-> IF l = b1 THEN <<d1, d2>> ELSE <<d1>>]
OneList == [l \in Servers |-> <<d1>>]
OneFolder == {d1}

\* A directory that was met is of no further interest, and the rest goes on
\* as in an instance without it.
Unmet == crossed = {}
=============================================================================
