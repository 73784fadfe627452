\* One client whose snapshots expire and whose answers are lost.
SPECIFICATION FairSpec
CONSTANTS
    None = None
    i1 = i1
    i2 = i2
    Items = {i1, i2}
    Writers = {w1}
    Clients = {c1}
    GroupCap = 2
    PageBytes = 4
    Limit = 1
    Sizes = {2}
    Spacing = 0
    RowCap = 1
    MaxTickets = 1
    Histories <- Old
    MaxSeq = 4
    MaxFaults = 1
PROPERTIES
    ClientsCatchUp
