--------------------- MODULE PriorityStackHistoryInvariant ---------------------
(***************************************************************************)
(* The inductive invariant of PriorityStackHistory: what a player whose    *)
(* pass still counts saw is the present table, or the present one with the *)
(* casting in progress taken back, but for what departures took.           *)
(***************************************************************************)
EXTENDS PriorityStackHistory, PriorityStackInvariant

Table == [zone : [Card -> Zones], tapped : SUBSET Lands, mana : [Seat -> [Colours -> Nat]],
          stack : SUBSET StackInstance, passes : SUBSET Seat, priority : Seat]

\* The table as it would be without the casting in progress.
ZoneBack == [zone EXCEPT ![cast.source] = "hand"]
ManaBack == [mana EXCEPT ![priority] = [k \in Colours |-> @[k] - ActivatedOf(k)]]
IsBack(a) ==
    a \in Table /\ SameTable(a, live, ZoneBack, tapped \ cast.activated, ManaBack, stack \ {Top})

\* A pass that counts was made on this table.
PassesSawThis ==
    frame = "Priority" =>
        \A p \in passes : saw[p] \in Table /\ SameTable(saw[p], live, zone, tapped, mana, stack)

\* A cast taken back would leave the table and the round in which it began, and
\* the passes it would bring back were made on that table.
CastHidesThat ==
    frame \in CastFrames =>
        /\ IsBack(before) /\ before.passes = cast.prior /\ before.priority = priority
        /\ \A p \in cast.prior \cap live : IsBack(saw[p])

HInv == IInv /\ PassesGoRound /\ PassesSawThis /\ CastHidesThat
=============================================================================
