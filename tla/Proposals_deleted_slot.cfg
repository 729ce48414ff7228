SPECIFICATION RSpec
CONSTANTS
    c1 = c1
    c2 = c2
    s1 = s1
    s2 = s2
    Card = {c1}
    Slot = {s1, s2}
    ByName <- OneCard
    EditRequests = {}
    Proposable <- Filed
    CopyLimit <- Limits
    Copies = {1}
    MaxLog = 1
    MaxProposals = 1
    None = None
    Keep = Keep
CHECK_DEADLOCK FALSE
INVARIANTS DeletedSlotsNeverFailAccepts
