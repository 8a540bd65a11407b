------------------------- MODULE MCWatchdogRestart -------------------------
EXTENDS WatchdogRestart, TLC

Symmetry == Permutations(Admins) \cup Permutations(Models)
=============================================================================
