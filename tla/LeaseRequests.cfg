\* Concurrent requests, retries, expiring keys and item edits.
SPECIFICATION Spec
CONSTANTS
    None = None
    SessionIds = {s1, s2}
    Items = {i1}
    Second = 1
    MaxActual = 1
    MaxPause = 1
    MaxDefer = 1
    Clients = {c1, c2}
    Keys = {k1, k2}
    IdempotencyTtl = 1
    CommandInputs = {"start", "pause"}
    SecondsInputs = {}
    InstantInputs = {}
    Rollbacks = {}
    MaxTime = 1
    MaxForward = 1
    MaxRevision = 3
    MaxItemRevision = 2
SYMMETRY LeaseSymmetry
INVARIANTS
    OneLease
    AppliedAtMostOnce
    LiveItemIsExecutable
