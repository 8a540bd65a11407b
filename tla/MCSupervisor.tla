---------------------------- MODULE MCSupervisor ----------------------------
EXTENDS Supervisor, TLC

Symmetry ==
    Permutations(Keys) \cup Permutations(Installs \ Forced) \cup Permutations(Backends)
=============================================================================
