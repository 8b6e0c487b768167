SPECIFICATION Spec
CONSTANTS
    Askers = {0, 1, 2}
    StartupAsker = 0
    MaxEnables = 2
    s1 = s1
    s2 = s2
    Stations <- MCStations
    MaxBatches = 2
    Known <- MCKnown
    Target <- MCTarget
    Found <- MCFound
    Slots = 1
INVARIANTS BulkInv AdapterOnce NewestTargetWins
PROPERTIES BatchEnds
CHECK_DEADLOCK FALSE
