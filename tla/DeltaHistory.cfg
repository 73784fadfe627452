\* Two writers, one client that pages and loses answers.
SPECIFICATION Spec
CONSTANTS
    None = None
    i1 = i1
    i2 = i2
    Items = {i1, i2}
    Writers = {w1, w2}
    Clients = {c1}
    GroupCap = 2
    PageBytes = 2
    Limit = 2
    Sizes = {1}
    Spacing = 0
    RowCap = 1
    MaxTickets = 1
    Histories <- OldAndNew
    MaxSeq = 4
    MaxFaults = 1
INVARIANTS
    ReplicaIsSnapshot
    GroupsStayWhole
    GroupsAreSound
    AlwaysDeliverable
    PageIsLargest
PROPERTIES
    HistoryAppends
SYMMETRY DeltaSymmetry
