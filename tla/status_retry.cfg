SPECIFICATION FairSpec
CONSTANTS
    MaxDelay = 2
    FailureCap = 2
    MetadataLimit = 2
    BusyRetry = 1
    Bases = {1}
    Limits = {1, 2}
    Thresholds = {1, 2}
    MaxMisses = 2
    Offers = {{"channel"}, {"metadata"}}
    MaxEvents = 2
INVARIANTS RetryInv
PROPERTIES MarkerBehindBackoff FailureCountedOnce NoStaleRevival GivesUpWithoutChannel
CHECK_DEADLOCK FALSE
