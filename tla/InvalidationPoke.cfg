\* An item or habit stream; such streams share nothing but their permits.
SPECIFICATION FairSpec
CONSTANTS
    Clients = {c1}
    Processes = {p1, p2}
    HighWater = FALSE
    ProbeYields = FALSE
    MaxConnections = 1
    MaxHead = 3
    MaxFaults = 1
INVARIANTS
    NoWakeupLost
    CursorNeverAhead
PROPERTIES
    ClientsConverge
