SPECIFICATION Spec
CONSTANTS
    k0 = k0
    k1 = k1
    k2 = k2
    k3 = k3
    N = 3
    Creatures = {k0, k1, k2, k3}
    Owner <- Own
    Controller <- Ctl
    Power <- Two
    Toughness <- Two
    Commander = k2
    Life <- Lives
    Hand <- Hands
    Library <- Libraries
    MaxHand = 1
    None = None
CHECK_DEADLOCK FALSE
INVARIANT OnlyUnsupportedDamageFaults
