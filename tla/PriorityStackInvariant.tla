------------------------- MODULE PriorityStackInvariant -------------------------
(***************************************************************************)
(* The inductive invariant behind the theorems of PriorityStack_proofs:    *)
(* the safety properties of PriorityStack that support each other, and     *)
(* what they need besides.                                                 *)
(***************************************************************************)
EXTENDS PriorityStack

\* A player is queued to leave once, and somebody always stays.
QueueIsSound ==
    /\ \A i, j \in DOMAIN concessions : concessions[i] = concessions[j] => i = j
    /\ Len(concessions) < Cardinality(live)

\* There is always a latest instance, and a tapped land is on the battlefield.
TableIsSound ==
    /\ IsFiniteSet(stack)
    /\ \A l \in tapped : zone[l] = "battlefield"

\* A cast can always be taken back: the caster still has the mana of the lands
\* tapped for it; and while its target is being chosen there is one to choose.
CastIsReversible ==
    /\ frame \in {"Targets", "Mana"} => ~cast.undo
    /\ frame \in CastFrames => \A k \in Colours : ActivatedOf(k) <= mana[priority][k]
    /\ frame = "Targets" => SomeLegal(zone)

\* The instance being resolved has announced its target.
ResolvingIsTargeted == frame = "Resolve" => resolving.spell.target # None

IInv ==
    /\ TypeOK /\ QueueIsSound /\ TableIsSound
    /\ DepartedHoldNothing /\ StackMatchesZones
    /\ CastingIsOnTop /\ CastIsReversible
    /\ ResolvingIsFrozenTop /\ ResolvingIsTargeted
    /\ PendingStillValid
=============================================================================
