------------------------- MODULE PriorityStackHistory -------------------------
(***************************************************************************)
(* PriorityStack with two history variables, which no action reads: what   *)
(* each player saw when they passed, and the table as it was before the    *)
(* casting in progress.  They state what the kernel's two memories, State. *)
(* passes and Casting.prior_passes, stand for.                             *)
(***************************************************************************)
EXTENDS PriorityStack

VARIABLES
    saw,    \* for each player whose pass still counts, the table they passed on
    before  \* the table, passes and priority when the casting in progress began

hvars == <<vars, saw, before>>

Nothing == [zone |-> <<>>, tapped |-> {}, mana |-> <<>>, stack |-> {},
            passes |-> {}, priority |-> None]
Sight == [zone |-> zone, tapped |-> tapped, mana |-> mana, stack |-> stack,
          passes |-> passes, priority |-> priority]

\* Whose pass the kernel still remembers after this step.
Remembered == passes' \cup (IF frame' \in CastFrames THEN cast'.prior ELSE {})

HInit == Init /\ saw = [p \in Seat |-> Nothing] /\ before = Nothing

HNext ==
    /\ Next
    /\ saw' = [p \in Seat |->
                 IF p \notin Remembered THEN Nothing
                 ELSE IF Applies("Priority", "Pass") /\ p = pending.player THEN Sight
                 ELSE saw[p]]
    /\ before' = IF frame' \notin CastFrames THEN Nothing
                 ELSE IF frame \notin CastFrames THEN Sight
                 ELSE before

HSpec == HInit /\ [][HNext]_hvars

\* With the host of FairSpec, which keeps calling Game::advance.
FairHSpec == HSpec /\ WF_vars(Advance)

-----------------------------------------------------------------------------

\* The table a, and zones z, differ for the players L who remain in nothing but
\* what departures took away: the cards of players who left, and the permanents
\* they controlled.
SameZones(a, L, z) ==
    \A c \in Card : Owner[c] \in L =>
        \/ a.zone[c] = z[c]
        \/ a.zone[c] = "battlefield" /\ Controller[c] \notin L /\ z[c] = "exile"
SameStack(a, L, st) ==
    {s \in a.stack : Owner[s.card] \in L} = {s \in st : Owner[s.card] \in L}
StillTapped(t, z) == {l \in t : z[l] = "battlefield"}
SameMana(a, L, m) == \A p \in L : a.mana[p] = m[p]

SameTable(a, L, z, t, m, st) ==
    /\ SameZones(a, L, z) /\ SameStack(a, L, st) /\ SameMana(a, L, m)
    /\ StillTapped(a.tapped, z) = t

\* This step leaves the table a, but for what departures took.
Leaves(a) == SameTable(a, live', zone', tapped', mana', stack')

\* A spell starts to resolve only when every remaining player has passed on the
\* table as it is now (Game::all_live_passed, begin_resolution): no pass made
\* before a spell, a tapped land or a resolution changed the table is counted,
\* whether it was remembered through a reversed cast or through departures.
EveryPassSawThis ==
    frame # "Resolve" /\ frame' = "Resolve" =>
        \A p \in live' :
            \/ Applies("Priority", "Pass") /\ p = pending.player
            \/ saw[p] # Nothing /\ Leaves(saw[p])
RoundIsUnanimous == [][EveryPassSawThis]_hvars

\* A casting that is given up, for want of mana or by a departure, leaves no
\* trace (Game::reverse_cast, finish_departure): the table and the round of
\* passes are again what they were before it, but for what departures took.  Only
\* mana the caster chose to keep stays, with the lands it came from tapped, and
\* then the round starts again.
GivenUp == frame \in CastFrames /\ frame' \notin CastFrames \cup {"Fault", "Finished"}
                                /\ zone'[cast.source] # "stack"
RoundRestored ==
    IF frame' = "Resolve" THEN live' \subseteq before.passes
                          ELSE passes' = before.passes \cap live'
ManaKept ==
    /\ tapped' = StillTapped(before.tapped \cup cast.activated, zone')
    /\ \A k \in Colours :
          mana'[before.priority][k] = before.mana[before.priority][k] + ActivatedOf(k)
NoTraceLeft ==
    GivenUp =>
        \/ Leaves(before) /\ RoundRestored
        \/ /\ cast.activated # {}
           /\ SameZones(before, live', zone') /\ SameStack(before, live', stack')
           /\ passes' = {}
           /\ Owner[cast.source] \notin live' \/ ManaKept
ReversalLeavesNoTrace == [][NoTraceLeft]_hvars
=============================================================================
