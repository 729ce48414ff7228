------------------------- MODULE TurnCombatInvariant -------------------------
(***************************************************************************)
(* The inductive invariant behind the theorems of TurnCombat_proofs: what  *)
(* a player's departure, a wave of losses and every rule step of a turn    *)
(* keep, and what those properties rest on.                                *)
(***************************************************************************)
EXTENDS TurnCombat

\* A game that goes on has two players, and no queue of departures empties it.
SomebodyStays ==
    Ended \/ (Cardinality(live) > 1 /\ Len(concessions) < Cardinality(live))

\* Whom a suspended frame is about is still there.
FrameIsCurrent ==
    /\ frame.kind = "Attackers" => active # None
    /\ frame.kind = "Blockers" => frame.remaining \subseteq live
    /\ frame.kind = "DamageChoice" =>
         place[frame.source] = "battlefield" /\ Cardinality(Recipients(combat, frame.source)) > 1
    /\ frame.kind = "Discard" => frame.player \in live /\ frame.count <= hand[frame.player]
    /\ frame.kind = "CommanderReturn" => Owner[frame.object] \in live

\* A declaration names creatures that are in play, and waits nowhere but in its
\* own frame.
Declares(kind) ==
    pending.kind = kind =>
        /\ frame.kind \in {kind, "Fault"}
        /\ DOMAIN pending.data \subseteq {x \in Creatures : place[x] = "battlefield"}

\* What a rule step takes from an accepted answer is still there.
PendingIsUsable ==
    /\ Declares("Attackers") /\ Declares("Blockers")
    /\ pending.kind = "Attackers" => \A x \in DOMAIN pending.data : pending.data[x] \in Seat
    /\ pending.kind = "PlayLand" => pending.player \in Seat /\ hand[pending.player] > 0
    /\ pending.kind = "CommanderReturn" => pending.data \in BOOLEAN

IInv ==
    /\ TypeOK /\ SomebodyStays /\ DepartedHoldNothing
    /\ FrameIsCurrent /\ PendingIsUsable /\ PriorityIsStable
=============================================================================
