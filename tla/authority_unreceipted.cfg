\* The second clock read of a handler may find its deadline passed.
SPECIFICATION FairSpec
CONSTANTS
    d1 = d1
    d2 = d2
    op1 = op1
    op2 = op2
    q1 = q1
    q2 = q2
    NoRequest = NoRequest
    NoExecution = NoExecution
    Devices = {d1, d2}
    Handlers = {h1}
    Operations = {op1, op2}
    Bound = {op1}
    Requests <- SteadyRequests
    RequestIds = {q1, q2}
    Revocable = {}
    Terms <- SteadyTerms
    MaxRequestTtl = 2
    MaxClockSkew = 1
    AuditRetention = 4
    MaxBackStep = 0
    MaxOverrun = 1
    MaxClock = 5
    MaxRevision = 1
    MaxPolicy = 1
PROPERTY
    EndedExecutionGetsReceipt
