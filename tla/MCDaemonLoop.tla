---------------------------- MODULE MCDaemonLoop ----------------------------
(* DaemonLoop with a few connections of every kind.                        *)
EXTENDS DaemonInDiscovery

CONSTANT First              \* one of the connections

Rank == [mcp |-> 1, shutdown |-> 2, status |-> 3, unauthorized |-> 4, silent |-> 5]

\* The properties treat all connections alike, so that of two connections of
\* different kinds one assignment is enough.
OrderedInit == Init /\ \A c \in Conns : Rank[kind[First]] <= Rank[kind[c]]

OrderedSpec == OrderedInit /\ [][Next]_vars /\ Fairness
=============================================================================
