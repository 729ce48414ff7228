SPECIFICATION FairHSpec
CONSTANTS
    N = 3
    Lands <- ThreeLands
    Spells <- ThreeSpells
    Creatures <- Bears
    Owner <- ThreeOwner
    Controller <- ThreeController
    Colours <- Colour
    Produces <- ThreeProduces
    Cost <- CostU
    MaxStack = 4
    None = None
INVARIANTS DepartedHoldNothing StackIsWhole PendingStillValid SomeoneCanAnswer
PROPERTIES AdvanceReturns DeparturesHappen RoundIsUnanimous ReversalLeavesNoTrace
CHECK_DEADLOCK FALSE
