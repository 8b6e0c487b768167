---------------------------- MODULE MCCoordinator ----------------------------
EXTENDS Coordinator, TLC
Symmetry == Permutations(Callers) \cup Permutations(Refreshes)
              \cup Permutations(Stations)
=============================================================================
