------------------------------ MODULE MCJobQueue ------------------------------
(* An instance of JobQueue for TLC: three jobs, two of them running the    *)
(* same operation.                                                         *)
EXTENDS JobQueue

CONSTANTS a, b, c

Three == {a, b, c}
\* The shutdown meets two jobs at the most.
TwoAtShutdown == closed => \E j \in Jobs : pc[j] \in {"new", "refused"}

Runs3 == [j \in Three |-> IF j = c THEN "find" ELSE "export"]
===============================================================================
