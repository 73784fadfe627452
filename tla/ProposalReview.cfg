\* Three items, two proposals of one command each (reviewed alone or as a
\* group, in either order), one preview slot.
CONSTANTS
    i1 = i1
    i2 = i2
    i3 = i3
    p1 = p1
    p2 = p2
    v1 = v1
    Ids = {i1, i2, i3}
    Proposals = {p1, p2}
    Slots = {v1}
    Statuses = {"planned", "completed"}
    Orders = {0}
    None = None
    Refused = Refused
    MaxEvents = 1
    Starts <- LegacyForests
    ChangeSets <- SingleCommands
    Edits <- PlainCommands
SYMMETRY Symmetry
SPECIFICATION Spec
INVARIANTS
    TypeOK
    ForestIsSettled
    LiveStaysExecutable
    ReviewStaysTrue
    UndoRestores
    OrderIsFound
