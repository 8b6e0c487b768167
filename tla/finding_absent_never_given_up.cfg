SPECIFICATION FairSpec
CONSTANTS
    MaxDelay = 2
    FailureCap = 2
    MetadataLimit = 2
    BusyRetry = 1
    Bases = {1}
    Limits = {1, 2}
    Thresholds = {1}
    MaxMisses = 1
    Offers = {{"channel"}}
    MaxEvents = 2
PROPERTIES AbsentGivenUp
CHECK_DEADLOCK FALSE
