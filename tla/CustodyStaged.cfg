SPECIFICATION FairSpec
CONSTANTS
    g1 = g1
    g2 = g2
    r1 = r1
    d1 = d1
    Sessions <- MCSessions
    Subjects <- OneSubject
    Reconcilers <- OneReconciler
    Requests <- MCRequests
    MaxAttempts = 1
    MaxClaims = 0
PROPERTY
    StagedIsFinished
CHECK_DEADLOCK FALSE
