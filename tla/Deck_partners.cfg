SPECIFICATION HSpec
CONSTANTS
    c1 = c1
    c2 = c2
    c3 = c3
    Card = {c1, c2, c3}
    Slot = {}
    ByName <- ThreeCards
    EditRequests <- Partners
    Copies = {1}
    MaxLog = 3
    None = None
    Keep = Keep
CHECK_DEADLOCK FALSE
INVARIANTS CommandZoneFits UndoneOnce LogExplainsDeck
PROPERTY RequestsAreAtomic
