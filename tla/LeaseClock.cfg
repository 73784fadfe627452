\* The clock: one client, a wall clock that jumps, all command types.
SPECIFICATION Spec
CONSTANTS
    None = None
    SessionIds = {s1, s2}
    Items = {i1}
    Second = 2
    MaxActual = 3
    MaxPause = 1
    MaxDefer = 1
    Clients = {c1}
    Keys = {k1, k2}
    IdempotencyTtl = 0
    CommandInputs = {"start", "pause", "resume", "complete", "skip", "defer"}
    SecondsInputs = {1}
    InstantInputs = {3, 5}
    Rollbacks = {0}
    MaxTime = 2
    MaxForward = 3
    MaxRevision = 4
    MaxItemRevision = 1
SYMMETRY LeaseSymmetry
VIEW ClockView
INVARIANTS
    TypeOK
    CreditedTimeIsReal
    HistoryOrderIsCommitOrder
    RowsFitTable
PROPERTIES
    TerminalIsFinal
