\* Two executions that may spend one grant; two writes to the file, one change of the authority,
\* and a lock after which the registry is cleared.
SPECIFICATION Spec
CONSTANTS
    u1 = u1
    u2 = u2
    g1 = g1
    a = a
    b = b
    Users <- MCUsers
    Grants <- MCGrants
    Contents <- MCContents
    NoGrant = NoGrant
    Ttl = 1
    MaxClock = 1
    MaxWrites = 2
    MaxRevision = 2
    MaxSession = 2
SYMMETRY Interchangeable
INVARIANTS
    ReadsWhatWasApproved
    HandedOverOnce
    NothingAfterClear
    OpenWhileExecuted
