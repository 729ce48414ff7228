SPECIFICATION HSpec
CONSTANTS
    c1 = c1
    c2 = c2
    c3 = c3
    Card = {c1}
    Slot = {s1, s2}
    ByName <- OneCard
    EditRequests <- Edits
    Copies = {1}
    MaxLog = 3
    None = None
    Keep = Keep
SYMMETRY AlikeSlots
CHECK_DEADLOCK FALSE
INVARIANTS TypeOK
PROPERTIES CardsChangeByTheRules ArchivedIsFrozen UndoRestores
