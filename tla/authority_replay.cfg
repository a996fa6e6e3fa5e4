\* Copies of one request, before and after its claim row is cleaned up, with the
\* fairness of the event loop.
SPECIFICATION FairSpec
CONSTANTS
    d1 = d1
    d2 = d2
    op1 = op1
    op2 = op2
    q1 = q1
    q2 = q2
    NoRequest = NoRequest
    NoExecution = NoExecution
    Devices = {d1}
    Handlers = {h1, h2}
    Operations = {op1}
    Bound = {op1}
    Requests <- ReplayRequests
    RequestIds = {q1}
    Revocable = {}
    Terms <- ReplayTerms
    MaxRequestTtl = 1
    MaxClockSkew = 1
    AuditRetention = 3
    MaxBackStep = 1
    MaxOverrun = 1
    MaxClock = 5
    MaxRevision = 1
    MaxPolicy = 1
INVARIANTS
    ExecutedAtMostOnce
    ReceiptsMatchCommits
PROPERTIES
    ImplementsMeteredExecution
    EveryRequestSettles
