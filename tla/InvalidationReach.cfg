\* A schedule stream, whose heartbeats cut probes short.
SPECIFICATION FairSpec
CONSTANTS
    Clients = {c1}
    Processes = {p1, p2}
    HighWater = TRUE
    ProbeYields = TRUE
    MaxConnections = 1
    MaxHead = 2
    MaxFaults = 2
PROPERTIES
    ClientsConverge
