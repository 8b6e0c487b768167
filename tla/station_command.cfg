SPECIFICATION CommandSpec
CONSTANTS
    Calls = {c1, c2}
    CommandCalls = {c1}
    Cancellers = {c1}
    NoOne = NoOne
    SessionCallKinds = {"refresh"}
    Kinds <- KindsOfCalls
    CommandKinds = {"on", "sleep", "channel", "identify"}
    MaxHandles = 2
    DiscoveryAttempts = 1
    WriteAttempts = 2
    ConfirmAttempts = 1
    FallbackAttempts = 2
    ReconnectThreshold = 1
    MaxExtensions = 1
INVARIANTS CommandInv NeverReplayed PollsBounded
CHECK_DEADLOCK FALSE
