SPECIFICATION Spec
CONSTANTS
    N = 4
    Lands <- ResponseLands
    Spells <- ResponseSpells
    Creatures <- Bears
    Owner <- ResponseOwner
    Controller <- ResponseController
    Colours <- Colour
    Produces <- ResponseProduces
    Cost <- CostU
    MaxStack = 4
    None = None
INVARIANTS TypeOK EveryStateRestores PassesGoRound ManaAccounted FaultsOnlyOnEmptyStack
CHECK_DEADLOCK FALSE
