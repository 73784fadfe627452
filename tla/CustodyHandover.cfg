SPECIFICATION Spec
CONSTANTS
    g1 = g1
    g2 = g2
    r1 = r1
    d1 = d1
    Sessions <- MCSessions
    Subjects <- MCSubjects
    Reconcilers <- OneReconciler
    Requests <- MCRequests
    MaxAttempts = 2
    MaxClaims = 1
SYMMETRY Symmetry
INVARIANTS
    TypeOK
    NoGrantForgotten
    OneRevocationAtATime
PROPERTY
    GrantOutlivesCleanup
CHECK_DEADLOCK FALSE
