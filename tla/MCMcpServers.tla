---------------------------- MODULE MCMcpServers ----------------------------
(* Instances of McpServers for TLC: which operations may overlap.          *)
EXTENDS McpServers, TLC

CONSTANTS o1, o2, o3, end

TwoAndQuit == {o1, o2, end}
ThreeAndQuit == {o1, o2, o3, end}

\* The program starts, and the operator does anything once.
BootAnd == [o \in Ops |-> CASE o = o1  -> {"boot"}
                            [] o = end -> {"quit"}
                            [] OTHER   -> {"start", "stop", "restart", "test"}]

\* A test or a restart is looked at with one operation more, a start or a
\* stop with both; and one connection at a time is lost or tried again.
Pairs == (\E o \in Ops : kind[o] \in {"restart", "test"}) => \E o \in Ops : op[o].pc = "idle"
Ailing(r) == r.attempt > 0 \/ r.sup = "backoff" \/ r.broken \/ r.notice # "none"
OneRetries == Cardinality({c \in Ops : Ailing(conn[c])}) <= 1

\* Three starts and the end of the manager, which refute StopIsTotal.
Starts == [o \in Ops |-> IF o = end THEN {"quit"} ELSE {"start"}]
Interchangeable == Permutations({o1, o2, o3})
=============================================================================
