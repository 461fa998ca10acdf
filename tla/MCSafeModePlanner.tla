-------------------------- MODULE MCSafeModePlanner --------------------------
(* Instances of SafeModePlanner for TLC. *)
EXTENDS SafeModePlannerProofs

CONSTANTS r1, r2

\* A plan without relations, plans that scan a relation twice in a row, last
\* or before another relation.
MCPlans == {<<>>, <<r1, r1>>, <<r1, r1, r2>>}
MCRowCounts == {-1, 3}

Timeout(s, l) == [statement |-> s, lock |-> l]

\* Both timeouts set, one disabled each way, both disabled, one PostgreSQL refuses.
MCAnyConfigs == {Timeout(0, 0), Timeout(1, 0), Timeout(0, 2)}
MCConfigs == MCAnyConfigs \union {Timeout(2, 1), Timeout(3, 1)}
=============================================================================
