----------------------------- MODULE MCLoadJob -----------------------------
EXTENDS LoadJob, TLC

CONSTANTS A, B, r1, r2, r3, r4

\* The first two requests arrive at one replica, the others at the other.
TwoReplicas == [r \in Requests |-> IF r \in {r1, r2} THEN A ELSE B]

Symmetry == Permutations({r1, r2} \cap Requests) \cup Permutations({r3, r4} \cap Requests)
=============================================================================
