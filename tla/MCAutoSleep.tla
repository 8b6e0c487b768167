------------------------------ MODULE MCAutoSleep ------------------------------
EXTENDS AutoSleep, TLC

Symmetry == Permutations(Watchers) \cup Permutations(Targets)
=============================================================================
