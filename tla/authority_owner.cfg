\* Two handlers with requests for the last use of a grant, under every owner command:
\* revocation, replacement, policy, locking.  The wall clock is never set back.
SPECIFICATION Spec
CONSTANTS
    d1 = d1
    d2 = d2
    op1 = op1
    op2 = op2
    q1 = q1
    q2 = q2
    NoRequest = NoRequest
    NoExecution = NoExecution
    Devices = {d1}
    Handlers = {h1, h2}
    Operations = {op1, op2}
    Bound = {op1}
    Requests <- OwnerRequests
    RequestIds = {q1, q2}
    Revocable = {d1}
    Terms <- OwnerTerms
    MaxRequestTtl = 2
    MaxClockSkew = 1
    AuditRetention = 4
    MaxBackStep = 0
    MaxOverrun = 1
    MaxClock = 2
    MaxRevision = 2
    MaxPolicy = 2
SYMMETRY HandlersAlike
INVARIANTS
    UsesAreMetered
    CompletionNeverRefused
PROPERTIES
    HandoffNeedsLiveAuthority
    AuthorityNeverRevives
