\* One call, its retry and its late copies, under clocks that disagree and change.
SPECIFICATION FairSpec
CONSTANTS
    c1 = c1
    c2 = c2
    Callers = {c1}
    OperationOf <- OneOperation
    BackendOutcomes = {"ok", "invalid_input", "transient", "unbound"}
    Uses = 2
    Offsets <- BehindOrAhead
    RequestTtl = 2
    GrantExpiry = 3
    SnapshotTtl = 1
    MaxClockSkew = 1
    MaxRecords = 1
    EarlierEvidence <- NewOrUsed
    MaxClock = 4
INVARIANTS
    EvidenceMatchesAuthority
    OneUsePerCall
PROPERTY
    CallReturns
CHECK_DEADLOCK FALSE
