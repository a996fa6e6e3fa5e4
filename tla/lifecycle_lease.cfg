\* Two processes share a state directory, from its creation; two unlocks, each with a
\* listener, an expiry and connections.  A lock that waits for ever stops the system.
SPECIFICATION FairSpec
CONSTANTS
    Connections = {c1, c2}
    MaxLeases = 2
    Processes = {p1, p2}
INVARIANTS
    LetGoIsReleased
    OpensWhatInitMade
PROPERTIES
    StateIsPreserved
    ImplementsUnlockLease
    EveryConnectionEnds
    ShutdownReleases
    LockReturnsUnlessMutualWait
CHECK_DEADLOCK FALSE
