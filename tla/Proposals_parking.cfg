SPECIFICATION RSpec
CONSTANTS
    c1 = c1
    c2 = c2
    s1 = s1
    s2 = s2
    Card = {c1, c2}
    Slot = {}
    ByName <- TwoCards
    EditRequests <- Both
    Proposable <- Items
    CopyLimit <- Limits
    Copies = {}
    MaxLog = 3
    MaxProposals = 2
    None = None
    Keep = Keep
CHECK_DEADLOCK FALSE
INVARIANTS ParkingTakesOneCopy
