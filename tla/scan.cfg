SPECIFICATION FairSpec
INVARIANTS ScanInv DrainQuiet AdapterLossReported
PROPERTIES ScanEnds LateStartIsStopped
CHECK_DEADLOCK FALSE
