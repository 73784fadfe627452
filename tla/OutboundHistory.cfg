CONSTANTS
    None = None
    i1 = i1
    w1 = w1
    w2 = w2
    Items <- MCItems
    Workers <- OneWorker
    MaxRevision = 2
    MaxClaims = 2
    MaxEdits = 1
    MaxConfigs = 2
    MaxStarts = 0
SPECIFICATION Spec
INVARIANT OneObjectPerItem
INVARIANT MappingIsSound
PROPERTY KeepsPromise
CHECK_DEADLOCK FALSE
