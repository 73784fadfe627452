\* Two processes with an operation each: one process cannot notify the other.
SPECIFICATION FairSpec
CONSTANTS
    None = None
    r1 = r1
    r2 = r2
    o1 = o1
    o2 = o2
    Runtimes = {r1, r2}
    Operations = {o1, o2}
    Homes <- SplitOrShared
    Deletions = {d1}
    MaxContexts = 2
INVARIANTS
    TypeOK
    UncertainWorkIsRegistered
    ProofStaysTrue
    FencedIsQuiet
PROPERTIES
    DrainEnds
\* Everything may be settled and fenced.
CHECK_DEADLOCK FALSE
