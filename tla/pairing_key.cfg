\* One key, whose clock is behind, with or ahead of the Connector's, pairs twice over
\* two leaves.
SPECIFICATION FairSpec
CONSTANTS
    k1 = k1
    Keys = {k1}
    Offsets <- Clocks
    PairingTtl = 2
    MaxClockSkew = 1
    AuditRetention = 3
    MaxPending = 1
    MaxAttempts <- Twice
    MaxLeaf = 2
    MaxClock = 6
INVARIANTS
    PairedMeansApproved
    BothDisplayTheSame
    ApprovalsMadeTheirDevice
PROPERTIES
    DecidedOnce
    PairReturns
