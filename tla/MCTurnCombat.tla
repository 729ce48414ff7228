---------------------------- MODULE MCTurnCombat ----------------------------
\* Three seats: seat 0 has two Bears to attack with, seat 1 a Bear of its own
\* and seat 2's commander, as in the kernel's commander_exile configuration.
EXTENDS TurnCombatInvariant, TLC

CONSTANTS k0, k1, k2, k3

Own == k0 :> 0 @@ k1 :> 1 @@ k2 :> 2 @@ k3 :> 0
Ctl == [Own EXCEPT ![k2] = 1]
Two == [x \in Creatures |-> 2]
Lives == [p \in Seat |-> IF p = 0 THEN 4 ELSE 2]
Hands == [p \in Seat |-> IF p = 0 THEN 2 ELSE 0]
Libraries == [p \in Seat |-> IF p = 2 THEN 0 ELSE 1]
=============================================================================
