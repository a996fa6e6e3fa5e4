\* The expiry task and a lock command close one listener at once.
SPECIFICATION FairSpec
CONSTANTS
    Connections = {c1}
    MaxLeases = 1
    Processes = {p1}
PROPERTIES
    SharedShutdownFinishes
CHECK_DEADLOCK FALSE
