\* Both sides, with one fallback, a budget of two attempts and a half, and a
\* deadline that leaves no room for the whole time of grace.
SPECIFICATION FairSpec
CONSTANTS
    Sides = {"vps", "connector"}
    Fallbacks = 1
    TotalTime = 5
    AttemptTime = 2
    RequestTime = 3
    HelperTime = 2
    Grace = 2
    MaxClock = 6
INVARIANTS
    GroupIsKilled
    SecretEndsWithCall
    CancellationIsKept
    DirectoryOutlivesWorker
PROPERTY
    CallReturns
