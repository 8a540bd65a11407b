--------------------------- MODULE MCReplicaRows ---------------------------
EXTENDS ReplicaRows, TLC

CONSTANTS f1, f2, r1, r2, l1, l2, c1, c2

\* The requests share a frontend, on which the first load may run for one of them.
OwnHome == [a \in Actors |-> IF a \in {r1, r2, l1} THEN f1 ELSE f2]
=============================================================================
