\* The deadline of the execution passes while its worker is given time to stop.
SPECIFICATION Spec
CONSTANTS
    Sides = {"connector"}
    Fallbacks = 1
    TotalTime = 5
    AttemptTime = 2
    RequestTime = 3
    HelperTime = 2
    Grace = 2
    MaxClock = 6
INVARIANT
    WorkerIsReaped
