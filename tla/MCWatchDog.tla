----------------------------- MODULE MCWatchDog -----------------------------
EXTENDS WatchDog

CONSTANTS m1, m2, m3, m4

\* m1 and m2 cannot be loaded together; the others run alongside anything.
OneGroup == [m \in Models |-> IF m \in {m1, m2} THEN {"vram-heavy"} ELSE {}]
NoGroups == [m \in Models |-> {}]

\* m1 and m2 (in the group) are alike, and so are the requests.
Symmetry == Permutations(Requests) \cup Permutations({m1, m2})
=============================================================================
