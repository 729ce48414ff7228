SPECIFICATION Spec
CONSTANTS
    card1 = card1
    card2 = card2
    token1 = token1
    w1 = w1
    w2 = w2
    Card = {card1, card2}
    Token = {token1}
    Zone <- Zones
    Life = {20, 40}
    OpeningHand = 1
    MaxMulligans = 2
    Window = {w1, w2}
    Plans <- AllPlans
    MaxPast = 2
    MaxTexts = 2
    MaxVersion = 2
    None = None
CONSTRAINT Bounded
CHECK_DEADLOCK FALSE
INVARIANTS StoredCanBeRead VersionNamesTable ObservedOnce RefusalsAreTrue
PROPERTIES TypingIsKept
