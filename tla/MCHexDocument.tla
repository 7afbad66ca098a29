--------------------------- MODULE MCHexDocument ---------------------------
(* An instance of HexDocument for TLC: documents of at most two chunks.    *)
EXTENDS HexDocument, TLC

CONSTANTS a, b, c1, c2, p1, p2

Chunks == {a, b}
Documents == {<<>>, <<a, b>>, <<b, a>>}
Threads == {c1, c2}
Files == {p1, p2}

\* The last change of the bytes meets one thread at work.
OneAtLast == generation = MaxGeneration => \E c \in Clients : jobs[c] = Idle

\* The files are alike, and so are the threads.
Symmetric == Permutations(Files) \cup Permutations(Threads)
=============================================================================
