\* Two processes make one call each over a network that loses and delays, and
\* share a ledger and a snapshot.  A caller may have nothing left to do.
SPECIFICATION Spec
CONSTANTS
    c1 = c1
    c2 = c2
    Callers = {c1, c2}
    OperationOf <- OneOperation
    BackendOutcomes = {"ok"}
    Uses = 2
    Offsets <- AheadOrNot
    RequestTtl = 1
    GrantExpiry = 3
    SnapshotTtl = 1
    MaxClockSkew = 1
    MaxRecords = 2
    EarlierEvidence <- NewOrUsed
    MaxClock = 2
SYMMETRY CallersAlike
INVARIANTS
    ResultIsRecorded
    TimesNeverGoBack
    AvailableIsBacked
CHECK_DEADLOCK FALSE
