SPECIFICATION HSpec
CONSTANTS
    c1 = c1
    c2 = c2
    c3 = c3
    Card = {c1}
    Slot = {s1}
    ByName <- OneCard
    EditRequests <- EditsNamingTwice
    Copies = {1}
    MaxLog = 2
    None = None
    Keep = Keep
CHECK_DEADLOCK FALSE
INVARIANTS NewestCanBeUndone
