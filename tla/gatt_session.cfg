SPECIFICATION FairSpec
CONSTANTS
    Opener = c1
    Closer = c2
    Calls = {c1, c2}
    Cancellers = {c1}
    NoOne = NoOne
    OpenerKinds = {"fetch"}
    CloserKinds = {"refresh", "sweep", "probe"}
    Kinds <- KindsOfCalls
    MaxHandles = 2
    DiscoveryAttempts = 2
INVARIANTS SessionInv
PROPERTIES ForeignSessionKept ImplementsSessionOwner DropNoticed CallsEnd
CHECK_DEADLOCK FALSE
