CONSTANTS
    None = None
    i1 = i1
    w1 = w1
    w2 = w2
    Items <- MCItems
    Workers <- TwoWorkers
    MaxRevision = 1
    MaxClaims = 2
    MaxEdits = 0
    MaxConfigs = 1
    MaxStarts = 1
SPECIFICATION FairSpec
INVARIANT TypeOK
INVARIANT DeliveringIsOwned
PROPERTY DeliveriesEnd
CHECK_DEADLOCK FALSE
