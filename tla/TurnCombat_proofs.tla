--------------------------- MODULE TurnCombat_proofs ---------------------------
(***************************************************************************)
(* The safety of TurnCombat for every number of seats, every set of        *)
(* creatures and every starting hand, library and life: IInv holds         *)
(* initially and every action preserves it.                                *)
(***************************************************************************)
EXTENDS TurnCombatInvariant, FiniteOrders, TLAPS, SequenceTheorems

-----------------------------------------------------------------------------
(* The helpers *)

LEMMA SeatsFinite == \A L \in SUBSET Seat : IsFiniteSet(L) /\ Cardinality(L) \in Nat
<1>1. IsFiniteSet(0 .. N - 1)
  BY FS_Interval, SeatAssumption
<1>2. IsFiniteSet(Seat)
  BY <1>1 DEF Seat
<1>3. QED  BY <1>2, FS_Subset, FS_CardinalityType

\* Game::next_live names a player who is at the table.
LEMMA NextLiveIsLive ==
    ASSUME NEW a \in Seat, NEW L \in SUBSET Seat, L # {}
    PROVE  NextLive(a, L) \in L
<1> DEFINE f == [q \in L |-> Ahead(a, q)]
<1>1. f \in [L -> Int]
  BY SeatAssumption DEF Seat, Ahead
<1>2. PICK p \in L : \A q \in L : f[p] <= f[q]
  <2>1. IsFiniteSet(L)
    BY SeatsFinite
  <2> HIDE DEF f
  <2>2. QED  BY <1>1, <2>1, LeastExists
<1>3. \A q \in L : Ahead(a, p) <= Ahead(a, q)
  BY <1>2
<1>4. QED  BY <1>3 DEF NextLive

\* Priority is granted to somebody at the table.
LEMMA RecipientIsLive ==
    ASSUME owner \in Seat, NEW L \in SUBSET Seat, L # {}, NEW act \in L \cup {None}
    PROVE  Recipient(act, L) \in L
BY NextLiveIsLive DEF Recipient

\* A set of seats with two players in it is not empty, and one with none is.
LEMMA SizeFacts ==
    ASSUME NEW L \in SUBSET Seat
    PROVE  /\ Cardinality(L) > 0 <=> L # {}
           /\ \A p : Cardinality(L \ {p}) >= Cardinality(L) - 1
<1>1. IsFiniteSet(L) /\ Cardinality(L) \in Nat
  BY SeatsFinite
<1>2. Cardinality(L) = 0 <=> L = {}
  BY <1>1, FS_EmptySet
<1>3. Cardinality(L) > 0 <=> L # {}
  BY <1>1, <1>2
<1>4. ASSUME NEW p PROVE Cardinality(L \ {p}) >= Cardinality(L) - 1
  BY <1>1, FS_RemoveElement
<1>5. QED  BY <1>3, <1>4

\* The frames, told apart by their kind.
LEMMA FrameFacts ==
    ASSUME NEW fr \in Frames
    PROVE  /\ fr.kind = "Stabilize" => fr \in Waves
           /\ fr.kind = "Blockers" => fr = [kind |-> "Blockers", remaining |-> fr.remaining]
                                      /\ fr.remaining \in (SUBSET Seat) \ {{}}
           /\ fr.kind = "DamageChoice" => fr.source \in Creatures
           /\ fr.kind = "Discard" => fr.player \in Seat /\ fr.count \in Nat \ {0}
           /\ fr.kind = "CommanderReturn" => fr.object \in Creatures /\ fr.resume \in Waves
BY DEF Frames, Waves, Stabilize, Bare

LEMMA WaveFacts ==
    ASSUME NEW fr \in Waves
    PROVE  /\ fr \in Frames /\ fr.kind = "Stabilize" /\ fr.resume \in {"Priority", "Transition"}
           /\ Stabilize(fr.resume, fr.cleanup, TRUE) \in Waves
BY DEF Waves, Stabilize, Frames

LEMMA SettlingIsAWave == Settling \in Waves
  BY DEF Settling, Stabilize, Waves

LEMMA SimpleFrames ==
    \A k \in {"Priority", "Attackers", "Damage", "CleanupClear", "Transition", "EnterStep", "Draw"} :
        Bare(k) \in Frames /\ Bare(k).kind = k
<1>1. ASSUME NEW k \in {"Priority", "Attackers", "Damage", "CleanupClear", "Transition", "EnterStep", "Draw"}
      PROVE  Bare(k) \in Frames /\ Bare(k).kind = k
  <2>1. Bare(k).kind = k
    BY DEF Bare
  <2> HIDE DEF Bare
  <2>2. QED  BY <2>1 DEF Frames
<1>2. QED  BY <1>1

\* What an accepted answer of player p says.
LEMMA AnswerFacts ==
    ASSUME NEW p, NEW fr, NEW L, NEW act, NEW pl, NEW cb, NEW in \in Answers(p, fr, L, act, pl, cb)
    PROVE  /\ in.player = p
           /\ in.kind \in {"Attackers", "Blockers", "CommanderReturn"} => fr.kind = in.kind
           /\ in.kind \in {"Attackers", "Blockers"} =>
                DOMAIN in.data \subseteq {x \in Creatures : pl[x] = "battlefield"}
           /\ in.kind = "Attackers" => \A x \in DOMAIN in.data : in.data[x] \in L
           /\ in.kind = "CommanderReturn" => in.data \in BOOLEAN
           /\ in.kind = "PlayLand" => hand[p] > 0
<1>1. CASE fr.kind = "Priority"
  BY <1>1 DEF Answers
<1>2. CASE fr.kind = "Attackers"
  BY <1>2 DEF Answers, Fielded
<1>3. CASE fr.kind = "Blockers"
  BY <1>3 DEF Answers, Fielded
<1>4. CASE fr.kind = "DamageChoice"
  BY <1>4 DEF Answers
<1>5. CASE fr.kind = "Discard"
  BY <1>5 DEF Answers
<1>6. CASE fr.kind = "CommanderReturn"
  BY <1>6 DEF Answers
<1>7. CASE fr.kind \notin DecisionFrames
  BY <1>7 DEF Answers, DecisionFrames
<1>8. QED  BY <1>1, <1>2, <1>3, <1>4, <1>5, <1>6, <1>7 DEF DecisionFrames

-----------------------------------------------------------------------------
(* Creatures that move and players who leave *)

\* The part of the invariant about creatures, hands and libraries.
TableTyped ==
    /\ DOMAIN damage = Creatures /\ place \in [Creatures -> Places]
    /\ tapped \subseteq Creatures /\ ready \subseteq Creatures /\ returns \subseteq Creatures
    /\ DOMAIN combat \subseteq Creatures /\ \A x \in DOMAIN combat : combat[x] \in Attack
    /\ DOMAIN choices \subseteq Creatures
FightersAreInPlay ==
    \A x \in DOMAIN combat : \A y \in {x} \cup combat[x].blockers : place[y] = "battlefield"
TableLeft ==
    /\ \A x \in Creatures : (place[x] = "gone") <=> (Owner[x] \notin live)
    /\ \A x \in Creatures : place[x] = "battlefield" => Controller[x] \in live
    /\ \A p \in Seat \ live : hand[p] = 0 /\ library[p] = 0

LEMMA MoveKeeps ==
    ASSUME TableTyped, FightersAreInPlay, NEW pl \in [Creatures -> Places], MoveTo(pl)
    PROVE  TableTyped' /\ FightersAreInPlay' /\ place' = pl
<1> DEFINE moved == {x \in Creatures : pl[x] # place[x]}
<1>1. /\ place' = pl /\ tapped' = tapped \ moved /\ ready' = ready \ moved
      /\ damage' = [x \in Creatures |-> IF x \in moved THEN 0 ELSE damage[x]]
      /\ combat' = Without(combat, moved)
      /\ choices' = [x \in DOMAIN choices \ moved |-> choices[x]]
      /\ returns' = (returns \ moved) \cup {x \in moved \cap {Commander} : pl[x] \in {"graveyard", "exile"}}
  BY DEF MoveTo
<1>2. moved \subseteq Creatures /\ \A x \in Creatures \ moved : pl[x] = place[x]
  OBVIOUS
<1> HIDE DEF moved
<1>3. DOMAIN combat' = DOMAIN combat \ moved
  BY <1>1 DEF Without
<1>4. ASSUME NEW x \in DOMAIN combat'
      PROVE  /\ combat'[x] \in Attack /\ combat'[x].blockers = combat[x].blockers \ moved
             /\ place'[x] = "battlefield"
  <2>1. combat'[x] = [combat[x] EXCEPT !.blockers = @ \ moved]
    BY <1>1, <1>3 DEF Without
  <2>2. combat[x] \in Attack /\ x \in Creatures \ moved
    BY <1>3 DEF TableTyped
  <2>3. combat'[x] \in Attack /\ combat'[x].blockers = combat[x].blockers \ moved
    BY <2>1, <2>2 DEF Attack
  <2>4. QED  BY <1>1, <1>2, <1>3, <2>2, <2>3 DEF FightersAreInPlay
<1>5. ASSUME NEW x \in DOMAIN combat', NEW y \in combat'[x].blockers PROVE place'[y] = "battlefield"
  <2>1. y \in combat[x].blockers \ moved /\ x \in DOMAIN combat
    BY <1>3, <1>4
  <2>2. y \in Creatures
    BY <2>1 DEF TableTyped, Attack
  <2>3. QED  BY <1>1, <1>2, <2>1, <2>2 DEF FightersAreInPlay
<1>6. FightersAreInPlay'
  BY <1>4, <1>5 DEF FightersAreInPlay
<1>7. TableTyped'
  BY <1>1, <1>2, <1>3, <1>4 DEF TableTyped
<1>8. QED  BY <1>1, <1>6, <1>7

\* begin_departure and the waves: what is left when the players D leave a table
\* whose creatures have just come to pl.
LEMMA LeaveKeeps ==
    ASSUME TypeOK, TableTyped, FightersAreInPlay, TableLeft, NEW D \in SUBSET Seat,
           active \in live \cup {None},
           NEW pl \in [Creatures -> Places],
           \A x \in Creatures : (pl[x] = "gone") <=> (place[x] = "gone"),
           \A x \in Creatures : pl[x] = "battlefield" => place[x] = "battlefield",
           Leave(D, live \ D), MoveTo(AfterLeaving(D, pl))
    PROVE  /\ TableTyped' /\ FightersAreInPlay' /\ TableLeft'
           /\ hand' \in [Seat -> Nat] /\ library' \in [Seat -> Nat]
           /\ \A p \in Seat \ D : hand'[p] = hand[p]
           /\ live' = live \ D /\ active' \in live' \cup {None}
           /\ place' = AfterLeaving(D, pl)
<1> DEFINE to == AfterLeaving(D, pl)
<1>1. to \in [Creatures -> Places]
  BY DEF AfterLeaving, Places
<1>2. TableTyped' /\ FightersAreInPlay' /\ place' = to
  <2>1. MoveTo(to)
    OBVIOUS
  <2> HIDE DEF to
  <2>2. QED  BY <1>1, <2>1, MoveKeeps
<1>3. /\ hand' = [p \in Seat |-> IF p \in D THEN 0 ELSE hand[p]]
      /\ library' = [p \in Seat |-> IF p \in D THEN 0 ELSE library[p]]
      /\ live' = live \ D /\ active' = IF active \in D THEN None ELSE active
  BY DEF Leave
<1>4. hand' \in [Seat -> Nat] /\ library' \in [Seat -> Nat]
  BY <1>3 DEF TypeOK
<1>5. \A p \in Seat \ live' : hand'[p] = 0 /\ library'[p] = 0
  BY <1>3 DEF TableLeft
<1>6. ASSUME NEW x \in Creatures
      PROVE  /\ (place'[x] = "gone") <=> (Owner[x] \notin live')
             /\ place'[x] = "battlefield" => Controller[x] \in live'
  <2>1. place'[x] = IF Owner[x] \in D THEN "gone"
                    ELSE IF pl[x] = "battlefield" /\ Controller[x] \in D THEN "exile"
                    ELSE pl[x]
    BY <1>2 DEF AfterLeaving
  <2>2. QED  BY <1>3, <2>1 DEF TableLeft
<1>7. TableLeft'
  BY <1>5, <1>6 DEF TableLeft
<1>8. QED  BY <1>2, <1>3, <1>4, <1>7

-----------------------------------------------------------------------------
(* What the invariant says of a game that goes on *)

LEMMA StillPlayed ==
    ASSUME IInv, ~Ended
    PROVE  /\ live \in SUBSET Seat /\ live # {} /\ priority \in live
           /\ Cardinality(live) > 1 /\ Len(concessions) < Cardinality(live)
           /\ active \in live \cup {None}
           /\ Recipient(active, live) \in live
<1>1. live \in SUBSET Seat /\ live # {}
  <2>1. live \in SUBSET Seat
    BY DEF IInv, TypeOK
  <2>2. Cardinality(live) > 1
    BY DEF IInv, SomebodyStays
  <2>3. live # {}
    BY <2>2, FS_EmptySet
  <2>4. QED  BY <2>1, <2>3
<1>2. active \in live \cup {None} /\ priority \in live
  BY <1>1 DEF IInv, DepartedHoldNothing
<1>3. Recipient(active, live) \in live
  BY <1>1, <1>2, RecipientIsLive DEF IInv, TypeOK
<1>4. QED  BY <1>1, <1>2, <1>3 DEF IInv, SomebodyStays

LEMMA TableFacts == IInv => TableTyped /\ FightersAreInPlay /\ TableLeft
  BY DEF IInv, TypeOK, DepartedHoldNothing, TableTyped, FightersAreInPlay, TableLeft

\* The answer that waits is from somebody at the table.
LEMMA Answered == IInv /\ pending.kind # "None" => pending.player \in live
  BY DEF IInv, DepartedHoldNothing, NoInput

-----------------------------------------------------------------------------
(* Inputs *)

LEMMA SubmitKeeps == IInv /\ Submit => IInv'
<1> SUFFICES ASSUME IInv, Submit PROVE IInv'
  OBVIOUS
<1>1. pending' \in Answers(Asked, frame, live, active, place, combat) /\ Asked \in live
  BY DEF Submit, AwaitsDecision
<1>2. UNCHANGED <<seats, turn, cards, objects, declared, frame, concessions>>
  BY DEF Submit
<1>3. /\ pending'.player \in live
      /\ pending'.kind \in {"Attackers", "Blockers", "CommanderReturn"} => frame.kind = pending'.kind
      /\ pending'.kind \in {"Attackers", "Blockers"} =>
           DOMAIN pending'.data \subseteq {x \in Creatures : place[x] = "battlefield"}
      /\ pending'.kind = "Attackers" => \A x \in DOMAIN pending'.data : pending'.data[x] \in live
      /\ pending'.kind = "CommanderReturn" => pending'.data \in BOOLEAN
      /\ pending'.kind = "PlayLand" => hand[pending'.player] > 0
  BY <1>1, AnswerFacts
<1>4. TypeOK'
  BY <1>2, <1>3 DEF IInv, TypeOK, seats, turn, cards, objects
<1>5. SomebodyStays' /\ FrameIsCurrent'
  BY <1>2 DEF IInv, SomebodyStays, FrameIsCurrent, Ended, seats, turn, cards, objects
<1>6. DepartedHoldNothing'
  BY <1>2, <1>3 DEF IInv, DepartedHoldNothing, seats, turn, cards, objects
<1>7. PendingIsUsable'
  BY <1>2, <1>3 DEF IInv, TypeOK, PendingIsUsable, Declares, seats, turn, cards, objects
<1>8. PriorityIsStable'
  <2>1. pending' # NoInput
    BY <1>3, NoneAssumption DEF NoInput, IInv, TypeOK
  <2>2. QED  BY <1>2, <2>1 DEF IInv, PriorityIsStable, Doomed, Losers, seats, turn, cards, objects
<1>9. QED  BY <1>4, <1>5, <1>6, <1>7, <1>8 DEF IInv

LEMMA ConcedeKeeps == ASSUME IInv, NEW p \in Seat, Concede(p) PROVE IInv'
<1>1. /\ ~Ended /\ concessions' = Append(concessions, p)
      /\ Cardinality(live) - Len(concessions) > 1
      /\ UNCHANGED <<seats, turn, cards, objects, declared, frame, pending>>
  BY DEF Concede
<1>2. concessions \in Seq(Seat)
  BY DEF IInv, TypeOK
<1>3. concessions' \in Seq(Seat) /\ Len(concessions') = Len(concessions) + 1 /\ concessions' # <<>>
  BY <1>1, <1>2
<1>4. TypeOK'
  BY <1>1, <1>3 DEF IInv, TypeOK, seats, turn, cards, objects
<1>5. SomebodyStays'
  BY <1>1, <1>2, <1>3, StillPlayed, SeatsFinite DEF SomebodyStays, Ended, seats
<1>6. DepartedHoldNothing' /\ FrameIsCurrent' /\ PendingIsUsable'
  BY <1>1 DEF IInv, DepartedHoldNothing, FrameIsCurrent, PendingIsUsable, Declares,
              seats, turn, cards, objects
<1>7. PriorityIsStable'
  BY <1>1, <1>3 DEF IInv, PriorityIsStable, Doomed, Losers, Drained, seats, turn, cards, objects
<1>8. QED  BY <1>4, <1>5, <1>6, <1>7 DEF IInv

-----------------------------------------------------------------------------
(* Rule steps that no player leaves in *)

\* A step into a frame nobody is asked in, by which nobody leaves and no creature
\* moves, keeps the invariant if it keeps the types, the seats and the combat.
LEMMA AutomaticKeeps ==
    ASSUME IInv, ~Ended, TypeOK',
           UNCHANGED <<live, place, concessions>>,
           frame'.kind \notin DecisionFrames,
           pending' = NoInput \/ (pending' = pending /\ frame.kind \notin {"Attackers", "Blockers"}
                                                     /\ \A p \in Seat : hand'[p] >= hand[p]),
           active' \in live \cup {None}, priority' \in live, passes' \subseteq live,
           \A p \in Seat \ live : hand'[p] = 0 /\ library'[p] = 0,
           FightersAreInPlay'
    PROVE  IInv'
<1>1. SomebodyStays'
  BY StillPlayed DEF SomebodyStays
<1>2. DepartedHoldNothing'
  BY DEF IInv, DepartedHoldNothing, FightersAreInPlay
<1>3. FrameIsCurrent' /\ PriorityIsStable'
  BY DEF FrameIsCurrent, PriorityIsStable, DecisionFrames
<1>4. PendingIsUsable'
  <2>1. CASE pending' = NoInput
    BY <2>1 DEF PendingIsUsable, Declares, NoInput
  <2>2. CASE /\ pending' = pending /\ frame.kind \notin {"Attackers", "Blockers"}
             /\ \A p \in Seat : hand'[p] >= hand[p]
    <3>1. pending.kind \notin {"Attackers", "Blockers"}
      BY <2>2 DEF IInv, PendingIsUsable, Declares, Ended
    <3>2. pending.kind = "PlayLand" => hand'[pending.player] > 0
      <4> SUFFICES ASSUME pending.kind = "PlayLand" PROVE hand'[pending.player] > 0
        OBVIOUS
      <4>1. pending.player \in Seat /\ hand[pending.player] > 0
        BY DEF IInv, PendingIsUsable
      <4>2. hand'[pending.player] \in Nat /\ hand[pending.player] \in Nat
        BY <4>1 DEF IInv, TypeOK
      <4>3. QED  BY <2>2, <4>1, <4>2
    <3>3. QED  BY <2>2, <3>1, <3>2 DEF IInv, PendingIsUsable, Declares
  <2>3. QED  BY <2>1, <2>2
<1>5. QED  BY <1>1, <1>2, <1>3, <1>4 DEF IInv

LEMMA OfferReturnKeeps == IInv /\ OfferReturn => IInv'
<1> SUFFICES ASSUME IInv, OfferReturn PROVE IInv'
  OBVIOUS
<1>1. PICK x \in Offered : frame' = [kind |-> "CommanderReturn", object |-> x, resume |-> frame]
  BY DEF OfferReturn
<1>2. /\ frame.kind = "Stabilize" /\ returns' = {}
      /\ UNCHANGED <<seats, turn, cards, place, tapped, ready, damage, combat, choices, declared,
                     pending, concessions>>
  BY DEF OfferReturn, InFrame
<1>3. frame \in Waves
  BY <1>2, FrameFacts DEF IInv, TypeOK
<1>4. x \in Creatures /\ Owner[x] \in live
  BY DEF Offered, IInv, TypeOK
<1>5. frame' \in Frames /\ frame'.kind = "CommanderReturn" /\ frame'.object = x
  BY <1>1, <1>3, <1>4 DEF Frames
<1>6. TypeOK'
  BY <1>2, <1>5 DEF IInv, TypeOK, seats, turn, cards
<1>7. SomebodyStays' /\ FrameIsCurrent' /\ PriorityIsStable'
  BY <1>2, <1>4, <1>5 DEF IInv, SomebodyStays, FrameIsCurrent, PriorityIsStable, Ended, seats
<1>8. DepartedHoldNothing' /\ PendingIsUsable'
  BY <1>2, <1>5 DEF IInv, DepartedHoldNothing, PendingIsUsable, Declares, seats, turn, cards
<1>9. QED  BY <1>6, <1>7, <1>8 DEF IInv

LEMMA SettleKeeps == IInv /\ Settle => IInv'
<1> SUFFICES ASSUME IInv, Settle PROVE IInv'
  OBVIOUS
<1> DEFINE again == frame.cleanup /\ frame.changed
           resume == IF again THEN "Priority" ELSE frame.resume
           agreed == resume = "Priority" /\ pending = NoInput /\ live \subseteq passes
<1>1. /\ frame.kind = "Stabilize" /\ Drained /\ Doomed \cup Losers = {} /\ returns' = {}
      /\ repeat' = (repeat \/ again)
      /\ priority' = IF again THEN Recipient(active, live) ELSE priority
      /\ frame' = Bare(IF agreed THEN "Transition" ELSE resume)
      /\ passes' = IF agreed THEN {} ELSE passes
      /\ UNCHANGED <<live, active, owner, step, landPlayed, cards, place, tapped, ready, damage,
                     combat, choices, declared, pending, concessions>>
  BY DEF Settle, InFrame
<1>2. ~Ended
  BY <1>1 DEF Ended
<1>3. frame \in Waves
  BY <1>1, FrameFacts DEF IInv, TypeOK
<1>4. resume \in {"Priority", "Transition"} /\ again \in BOOLEAN
  BY <1>3 DEF Waves
<1> HIDE DEF again, resume
<1>5. frame' \in Frames /\ frame'.kind = IF agreed THEN "Transition" ELSE resume
  BY <1>1, <1>4, SimpleFrames
<1>6. priority' \in live /\ active' \in live \cup {None} /\ passes' \subseteq live
  BY <1>1, <1>2, StillPlayed DEF IInv, DepartedHoldNothing
<1>7. TypeOK'
  BY <1>1, <1>4, <1>5, <1>6 DEF IInv, TypeOK, cards
<1>8. SomebodyStays' /\ FrameIsCurrent'
  BY <1>1, <1>2, <1>4, <1>5 DEF IInv, SomebodyStays, FrameIsCurrent
<1>9. DepartedHoldNothing'
  BY <1>1, <1>6 DEF IInv, DepartedHoldNothing, cards
<1>10. PendingIsUsable'
  BY <1>1, <1>4, <1>5 DEF IInv, PendingIsUsable, Declares, cards
<1>11. PriorityIsStable'
  <2>1. Doomed' = {} /\ Losers' = {}
    BY <1>1 DEF Doomed, Losers, cards
  <2>2. frame'.kind = "Priority" /\ live' \subseteq passes' => pending' # NoInput
    BY <1>1, <1>4, <1>5
  <2>3. QED  BY <1>1, <2>1, <2>2 DEF PriorityIsStable
<1>12. QED  BY <1>7, <1>8, <1>9, <1>10, <1>11 DEF IInv

LEMMA PassKeeps == IInv /\ Pass => IInv'
<1> SUFFICES ASSUME IInv, Pass PROVE IInv'
  OBVIOUS
<1> DEFINE pa == passes \cup {pending.player}
<1>1. /\ frame.kind = "Priority" /\ pending.kind = "Pass" /\ pending' = NoInput
      /\ IF live \subseteq pa
         THEN passes' = {} /\ frame' = Bare("Transition") /\ UNCHANGED priority
         ELSE passes' = pa /\ frame' = Settling /\ priority' = NextLive(pending.player, live)
      /\ UNCHANGED <<live, active, turn, cards, objects, declared, concessions>>
  BY DEF Pass, Applies, InFrame
<1>2. ~Ended
  BY <1>1 DEF Ended
<1>3. pending.player \in live
  BY <1>1, Answered
<1>4. priority' \in live /\ passes' \subseteq live /\ active' \in live \cup {None}
  BY <1>1, <1>2, <1>3, StillPlayed, NextLiveIsLive DEF IInv, DepartedHoldNothing
<1>5. frame' \in Frames /\ frame'.kind \notin DecisionFrames
  BY <1>1, SimpleFrames, SettlingIsAWave, WaveFacts DEF DecisionFrames
<1>6. TypeOK'
  BY <1>1, <1>4, <1>5 DEF IInv, TypeOK, turn, cards, objects
<1>7. FightersAreInPlay' /\ \A p \in Seat \ live : hand'[p] = 0 /\ library'[p] = 0
  BY <1>1, TableFacts DEF FightersAreInPlay, TableLeft, cards, objects
<1>8. QED  BY <1>1, <1>2, <1>4, <1>5, <1>6, <1>7, AutomaticKeeps DEF objects

LEMMA PlayLandKeeps == IInv /\ PlayLand => IInv'
<1> SUFFICES ASSUME IInv, PlayLand PROVE IInv'
  OBVIOUS
<1>1. /\ frame.kind = "Priority" /\ pending.kind = "PlayLand" /\ pending' = NoInput
      /\ hand' = [hand EXCEPT ![pending.player] = @ - 1]
      /\ landPlayed' = TRUE /\ passes' = {} /\ frame' = Settling
      /\ UNCHANGED <<live, active, priority, owner, step, repeat, life, failed, library, objects,
                     declared, concessions>>
  BY DEF PlayLand, Applies, InFrame
<1>2. ~Ended
  BY <1>1 DEF Ended
<1>3. pending.player \in live /\ pending.player \in Seat /\ hand[pending.player] > 0
  BY <1>1, Answered DEF IInv, PendingIsUsable
<1>4. hand' \in [Seat -> Nat] /\ \A p \in Seat \ live : hand'[p] = hand[p]
  BY <1>1, <1>3 DEF IInv, TypeOK
<1>5. frame' \in Frames /\ frame'.kind \notin DecisionFrames
  BY <1>1, SettlingIsAWave, WaveFacts DEF DecisionFrames
<1>6. TypeOK'
  BY <1>1, <1>4, <1>5 DEF IInv, TypeOK, objects
<1>7. FightersAreInPlay' /\ \A p \in Seat \ live : hand'[p] = 0 /\ library'[p] = 0
  BY <1>1, <1>4, TableFacts DEF FightersAreInPlay, TableLeft, objects
<1>8. priority' \in live /\ active' \in live \cup {None}
  BY <1>1, <1>2, StillPlayed
<1>9. QED  BY <1>1, <1>2, <1>5, <1>6, <1>7, <1>8, AutomaticKeeps DEF objects

LEMMA NextStepIsStep == step \in {Steps[i] : i \in DOMAIN Steps} =>
                            NextStep \in {Steps[i] : i \in DOMAIN Steps}
<1> SUFFICES ASSUME step \in {Steps[i] : i \in DOMAIN Steps}
             PROVE  NextStep \in {Steps[i] : i \in DOMAIN Steps}
  OBVIOUS
<1>1. DOMAIN Steps = 1 .. 12 /\ Len(Steps) = 12
  BY DEF Steps
<1>2. Steps[9] = "EndCombat" /\ Steps[12] = "Cleanup"
  BY DEF Steps
<1> DEFINE i == CHOOSE i \in DOMAIN Steps : Steps[i] = step
<1>3. i \in 1 .. 12
  BY <1>1
<1>4. (i % Len(Steps)) + 1 \in DOMAIN Steps
  BY <1>1, <1>3
<1> HIDE DEF Steps
<1>5. QED  BY <1>1, <1>2, <1>4 DEF NextStep

LEMMA TransitionKeeps == IInv /\ Transition => IInv'
<1> SUFFICES ASSUME IInv, Transition PROVE IInv'
  OBVIOUS
<1> DEFINE over == step = "Cleanup" /\ ~repeat
           to == IF over THEN NextLive(owner, live) ELSE owner
<1>1. /\ frame.kind = "Transition"
      /\ step' = NextStep /\ owner' = to /\ active' = IF to \in live THEN to ELSE None
      /\ landPlayed' = (landPlayed /\ ~over)
      /\ ready' = IF over THEN ready \cup Fielded(place, to) ELSE ready
      /\ passes' = {} /\ repeat' = FALSE /\ frame' = Bare("EnterStep")
      /\ UNCHANGED <<live, priority, cards, place, tapped, damage, combat, choices, returns,
                     declared, pending, concessions>>
  BY DEF Transition, InFrame
<1>2. ~Ended
  BY <1>1 DEF Ended
<1>3. to \in Seat
  BY <1>2, StillPlayed, NextLiveIsLive DEF IInv, TypeOK
<1>4. landPlayed' \in BOOLEAN /\ ready' \subseteq Creatures
  BY <1>1 DEF IInv, TypeOK, Fielded
<1> HIDE DEF to, over
<1>5. frame' \in Frames /\ frame'.kind \notin DecisionFrames
  BY <1>1, SimpleFrames DEF DecisionFrames
<1>6. TypeOK'
  <2>1. step' \in {Steps[i] : i \in DOMAIN Steps}
    BY <1>1, NextStepIsStep DEF IInv, TypeOK
  <2>2. QED  BY <1>1, <1>3, <1>4, <1>5, <2>1 DEF IInv, TypeOK, cards
<1>7. FightersAreInPlay' /\ \A p \in Seat \ live : hand'[p] = 0 /\ library'[p] = 0
  BY <1>1, TableFacts DEF FightersAreInPlay, TableLeft, cards
<1>8. priority' \in live /\ active' \in live \cup {None}
  BY <1>1, <1>2, StillPlayed
<1>9. \A p \in Seat : hand'[p] >= hand[p]
  BY <1>1 DEF cards, IInv, TypeOK
<1>10. QED  BY <1>1, <1>2, <1>5, <1>6, <1>7, <1>8, <1>9, AutomaticKeeps

LEMMA EnterUntapKeeps == IInv /\ EnterUntap => IInv'
<1> SUFFICES ASSUME IInv, EnterUntap PROVE IInv'
  OBVIOUS
<1>1. /\ frame.kind = "EnterStep"
      /\ tapped' = tapped \ Fielded(place, active) /\ frame' = Bare("Transition")
      /\ UNCHANGED <<seats, turn, cards, place, ready, damage, combat, choices, returns, declared,
                     pending, concessions>>
  BY DEF EnterUntap, Entering, InFrame
<1>2. ~Ended
  BY <1>1 DEF Ended
<1>3. frame' \in Frames /\ frame'.kind \notin DecisionFrames
  BY <1>1, SimpleFrames DEF DecisionFrames
<1>4. TypeOK'
  BY <1>1, <1>3 DEF IInv, TypeOK, seats, turn, cards
<1>5. FightersAreInPlay' /\ \A p \in Seat \ live : hand'[p] = 0 /\ library'[p] = 0
  BY <1>1, TableFacts DEF FightersAreInPlay, TableLeft, cards
<1>6. priority' \in live /\ active' \in live \cup {None} /\ passes' \subseteq live
  BY <1>1, <1>2, StillPlayed DEF IInv, DepartedHoldNothing, seats
<1>7. \A p \in Seat : hand'[p] >= hand[p]
  BY <1>1 DEF cards, IInv, TypeOK
<1>8. QED  BY <1>1, <1>2, <1>3, <1>4, <1>5, <1>6, <1>7, AutomaticKeeps DEF seats

\* What the steps that grant priority have in common (grant_turn_priority).
LEMMA GrantKeeps ==
    ASSUME IInv, ~Ended, Grant, UNCHANGED <<live, active, passes, place, concessions>>,
           pending' = NoInput \/ (pending' = pending /\ frame.kind \notin {"Attackers", "Blockers"}
                                                     /\ \A p \in Seat : hand'[p] >= hand[p]),
           \A p \in Seat \ live : hand'[p] = 0 /\ library'[p] = 0,
           FightersAreInPlay',
           frame' \in Frames /\ priority' \in live => TypeOK'
    PROVE  IInv'
<1>1. frame' = Settling /\ priority' = Recipient(active, live)
  BY DEF Grant
<1>2. frame' \in Frames /\ frame'.kind \notin DecisionFrames
  BY <1>1, SettlingIsAWave, WaveFacts DEF DecisionFrames
<1>3. priority' \in live /\ active' \in live \cup {None} /\ passes' \subseteq live
  BY <1>1, StillPlayed DEF IInv, DepartedHoldNothing
<1>4. QED  BY <1>2, <1>3, AutomaticKeeps

LEMMA EnterDrawKeeps == IInv /\ EnterDraw => IInv'
<1> SUFFICES ASSUME IInv, EnterDraw PROVE IInv'
  OBVIOUS
<1>1. /\ frame.kind = "EnterStep" /\ Grant
      /\ UNCHANGED <<live, active, passes, turn, life, objects, declared, pending, concessions>>
  BY DEF EnterDraw, Entering, InFrame
<1>2. ~Ended
  BY <1>1 DEF Ended
<1>3. /\ hand' \in [Seat -> Nat] /\ library' \in [Seat -> Nat] /\ failed' \subseteq Seat
      /\ \A p \in Seat : hand'[p] >= hand[p]
      /\ \A p \in Seat \ live : hand'[p] = hand[p] /\ library'[p] = library[p]
  <2>1. CASE active = None \/ (active # None /\ ~(library[active] > 0))
    <3>1. UNCHANGED <<hand, library>> /\ failed' \subseteq failed \cup ({active} \ {None})
      BY <2>1 DEF EnterDraw
    <3>2. QED  BY <3>1 DEF IInv, TypeOK
  <2>2. CASE active # None /\ library[active] > 0
    <3>1. /\ library' = [library EXCEPT ![active] = @ - 1]
          /\ hand' = [hand EXCEPT ![active] = @ + 1] /\ UNCHANGED failed
      BY <2>2 DEF EnterDraw
    <3>2. active \in live
      BY <1>2, <2>2, StillPlayed
    <3>3. QED  BY <2>2, <3>1, <3>2 DEF IInv, TypeOK
  <2>3. QED  BY <2>1, <2>2
<1>4. frame' \in Frames /\ priority' \in live => TypeOK'
  BY <1>1, <1>3 DEF IInv, TypeOK, turn, objects
<1>5. FightersAreInPlay' /\ \A p \in Seat \ live : hand'[p] = 0 /\ library'[p] = 0
  BY <1>1, <1>3, TableFacts DEF FightersAreInPlay, TableLeft, objects
<1>6. QED  BY <1>1, <1>2, <1>3, <1>4, <1>5, GrantKeeps DEF objects

LEMMA EnterAroundCombatKeeps == IInv /\ EnterAroundCombat => IInv'
<1> SUFFICES ASSUME IInv, EnterAroundCombat PROVE IInv'
  OBVIOUS
<1>1. /\ frame.kind = "EnterStep" /\ Grant
      /\ combat' = <<>> /\ choices' = <<>> /\ declared' = (declared /\ step # "BeginningCombat")
      /\ UNCHANGED <<live, active, passes, turn, cards, place, tapped, ready, damage, returns,
                     pending, concessions>>
  BY DEF EnterAroundCombat, InFrame
<1>2. ~Ended
  BY <1>1 DEF Ended
<1>3. DOMAIN combat' = {} /\ DOMAIN choices' = {} /\ declared' \in BOOLEAN
  BY <1>1 DEF IInv, TypeOK
<1>4. frame' \in Frames /\ priority' \in live => TypeOK'
  BY <1>1, <1>3 DEF IInv, TypeOK, turn, cards
<1>5. FightersAreInPlay' /\ \A p \in Seat \ live : hand'[p] = 0 /\ library'[p] = 0
  BY <1>1, <1>3, TableFacts DEF FightersAreInPlay, TableLeft, cards
<1>6. \A p \in Seat : hand'[p] >= hand[p]
  BY <1>1 DEF cards, IInv, TypeOK
<1>7. QED  BY <1>1, <1>2, <1>4, <1>5, <1>6, GrantKeeps

LEMMA EnterQuietlyKeeps == IInv /\ EnterQuietly => IInv'
<1> SUFFICES ASSUME IInv, EnterQuietly PROVE IInv'
  OBVIOUS
<1>1. /\ frame.kind = "EnterStep" /\ Grant
      /\ UNCHANGED <<live, active, passes, turn, cards, objects, declared, pending, concessions>>
  BY DEF EnterQuietly, InFrame
<1>2. ~Ended
  BY <1>1 DEF Ended
<1>3. frame' \in Frames /\ priority' \in live => TypeOK'
  BY <1>1 DEF IInv, TypeOK, turn, cards, objects
<1>4. FightersAreInPlay' /\ \A p \in Seat \ live : hand'[p] = 0 /\ library'[p] = 0
  BY <1>1, TableFacts DEF FightersAreInPlay, TableLeft, cards, objects
<1>5. \A p \in Seat : hand'[p] >= hand[p]
  BY <1>1 DEF cards, IInv, TypeOK
<1>6. QED  BY <1>1, <1>2, <1>3, <1>4, <1>5, GrantKeeps DEF objects

LEMMA EnterDecidingKeeps == IInv /\ EnterDeciding => IInv'
<1> SUFFICES ASSUME IInv, EnterDeciding PROVE IInv'
  OBVIOUS
<1>1. /\ frame.kind = "EnterStep"
      /\ UNCHANGED <<seats, turn, cards, objects, declared, pending, concessions>>
  BY DEF EnterDeciding, InFrame
<1>2. ~Ended
  BY <1>1 DEF Ended
<1>3. /\ frame' \in Frames
      /\ frame'.kind \in {"Attackers", "Blockers", "Damage", "Discard", "CleanupClear"}
      /\ FrameIsCurrent'
  <2>1. CASE active # None /\ frame' = Bare("Attackers")
    BY <1>1, <2>1, SimpleFrames DEF FrameIsCurrent, seats
  <2>2. CASE Defenders # {} /\ frame' = [kind |-> "Blockers", remaining |-> Defenders]
    <3>1. Defenders \subseteq live
      BY DEF Defenders
    <3>2. frame' \in [kind : {"Blockers"}, remaining : (SUBSET Seat) \ {{}}]
      BY <2>2, <3>1 DEF IInv, TypeOK
    <3>3. frame' \in Frames
      BY <3>2 DEF Frames
    <3>4. QED  BY <1>1, <2>2, <3>1, <3>3 DEF FrameIsCurrent, seats
  <2>3. CASE frame' = Bare("Damage") \/ frame' = Bare("CleanupClear")
    BY <2>3, SimpleFrames DEF FrameIsCurrent
  <2>4. CASE /\ active # None /\ hand[active] > MaxHand
             /\ frame' = [kind |-> "Discard", player |-> active, count |-> hand[active] - MaxHand]
    <3>1. active \in live /\ active \in Seat /\ hand[active] \in Nat
      BY <1>2, <2>4, StillPlayed DEF IInv, TypeOK
    <3>2. hand[active] - MaxHand \in Nat \ {0} /\ hand[active] - MaxHand <= hand[active]
      BY <2>4, <3>1, CardAssumption
    <3>3. frame' \in Frames
      BY <2>4, <3>1, <3>2 DEF Frames
    <3>4. QED  BY <1>1, <2>4, <3>1, <3>2, <3>3 DEF FrameIsCurrent, seats, cards
  <2>5. QED  BY <2>1, <2>2, <2>3, <2>4 DEF EnterDeciding
<1>4. TypeOK'
  BY <1>1, <1>3 DEF IInv, TypeOK, seats, turn, cards, objects
<1>5. SomebodyStays' /\ DepartedHoldNothing'
  BY <1>1, <1>2 DEF IInv, SomebodyStays, DepartedHoldNothing, seats, cards, objects
<1>6. PendingIsUsable'
  BY <1>1 DEF IInv, PendingIsUsable, Declares, cards, objects
<1>7. PriorityIsStable'
  BY <1>3 DEF PriorityIsStable
<1>8. QED  BY <1>3, <1>4, <1>5, <1>6, <1>7 DEF IInv

LEMMA DeclareAttackersKeeps == IInv /\ DeclareAttackers => IInv'
<1> SUFFICES ASSUME IInv, DeclareAttackers PROVE IInv'
  OBVIOUS
<1> DEFINE d == pending.data
<1>1. /\ frame.kind = "Attackers" /\ pending.kind = "Attackers" /\ Grant /\ pending' = NoInput
      /\ combat' = [x \in DOMAIN d |-> [defender |-> d[x], blocked |-> FALSE, blockers |-> {}]]
      /\ tapped' = tapped \cup DOMAIN d /\ declared' = (DOMAIN d # {})
      /\ UNCHANGED <<live, active, passes, turn, cards, place, ready, damage, choices, returns,
                     concessions>>
  BY DEF DeclareAttackers, Applies, InFrame
<1>2. ~Ended
  BY <1>1 DEF Ended
<1>3. /\ \A x \in DOMAIN d : x \in Creatures /\ place[x] = "battlefield" /\ d[x] \in Seat
  BY <1>1 DEF IInv, PendingIsUsable, Declares
<1> HIDE DEF d
<1>4. DOMAIN combat' = DOMAIN d /\ \A x \in DOMAIN d :
        combat'[x] = [defender |-> d[x], blocked |-> FALSE, blockers |-> {}]
  BY <1>1
<1>5. ASSUME NEW x \in DOMAIN combat' PROVE combat'[x] \in Attack /\ combat'[x].blockers = {}
  <2>1. d[x] \in Seat
    BY <1>3, <1>4
  <2>2. [defender |-> d[x], blocked |-> FALSE, blockers |-> {}] \in Attack
    BY <2>1 DEF Attack
  <2>3. combat'[x] = [defender |-> d[x], blocked |-> FALSE, blockers |-> {}]
    BY <1>4
  <2>4. combat'[x].blockers = {}
    BY <2>3
  <2>5. QED  BY <2>2, <2>3, <2>4
<1>6. tapped' \subseteq Creatures /\ declared' \in BOOLEAN
  BY <1>1, <1>3 DEF IInv, TypeOK
<1>7. frame' \in Frames /\ priority' \in live => TypeOK'
  BY <1>1, <1>3, <1>4, <1>5, <1>6 DEF IInv, TypeOK, turn, cards
<1>8. FightersAreInPlay' /\ \A p \in Seat \ live : hand'[p] = 0 /\ library'[p] = 0
  BY <1>1, <1>3, <1>4, <1>5, TableFacts DEF FightersAreInPlay, TableLeft, cards
<1>9. QED  BY <1>1, <1>2, <1>7, <1>8, GrantKeeps

LEMMA DeclareBlockersKeeps == IInv /\ DeclareBlockers => IInv'
<1> SUFFICES ASSUME IInv, DeclareBlockers PROVE IInv'
  OBVIOUS
<1> DEFINE d == pending.data
           Blocking(x) == {b \in DOMAIN d : d[b] = x}
           rest == frame.remaining \ {pending.player}
<1>1. /\ frame.kind = "Blockers" /\ pending.kind = "Blockers" /\ pending' = NoInput
      /\ combat' = [x \in DOMAIN combat |->
                      [combat[x] EXCEPT !.blocked = @ \/ Blocking(x) # {},
                                        !.blockers = @ \cup Blocking(x)]]
      /\ IF rest = {} THEN Grant ELSE frame' = [frame EXCEPT !.remaining = rest] /\ UNCHANGED priority
      /\ UNCHANGED <<live, active, passes, turn, cards, place, tapped, ready, damage, choices,
                     returns, declared, concessions>>
  BY DEF DeclareBlockers, Applies, InFrame
<1>2. ~Ended
  BY <1>1 DEF Ended
<1>3. \A b \in DOMAIN d : b \in Creatures /\ place[b] = "battlefield"
  BY <1>1 DEF IInv, PendingIsUsable, Declares
<1>4. \A x : Blocking(x) \subseteq DOMAIN d
  OBVIOUS
<1> HIDE DEF d, Blocking
<1>5. DOMAIN combat' = DOMAIN combat /\ \A x \in DOMAIN combat :
        /\ combat'[x] \in Attack
        /\ combat'[x].blockers = combat[x].blockers \cup Blocking(x)
  <2>1. DOMAIN combat' = DOMAIN combat
    BY <1>1
  <2>2. ASSUME NEW x \in DOMAIN combat
        PROVE combat'[x] \in Attack /\ combat'[x].blockers = combat[x].blockers \cup Blocking(x)
    <3>1. combat'[x] = [combat[x] EXCEPT !.blocked = @ \/ Blocking(x) # {},
                                          !.blockers = @ \cup Blocking(x)]
      BY <1>1
    <3>2. combat[x] \in Attack /\ Blocking(x) \subseteq Creatures
      BY <1>3, <1>4 DEF IInv, TypeOK
    <3>3. QED  BY <3>1, <3>2 DEF Attack
  <2>3. QED  BY <2>1, <2>2
<1>6. FightersAreInPlay'
  <2>1. place' = place /\ FightersAreInPlay
    BY <1>1, TableFacts
  <2>2. ASSUME NEW x \in DOMAIN combat, NEW y \in {x} \cup combat'[x].blockers
        PROVE  place[y] = "battlefield"
    <3>1. y \in {x} \cup combat[x].blockers \/ y \in DOMAIN d
      BY <1>4, <1>5, <2>2
    <3>2. QED  BY <1>3, <2>1, <3>1 DEF FightersAreInPlay
  <2>3. QED  BY <1>5, <2>1, <2>2 DEF FightersAreInPlay
<1>7. \A p \in Seat \ live : hand'[p] = 0 /\ library'[p] = 0
  BY <1>1, TableFacts DEF TableLeft, cards
<1>8. frame' \in Frames /\ priority' \in live => TypeOK'
  BY <1>1, <1>5 DEF IInv, TypeOK, turn, cards
<1>9. CASE rest = {}
  BY <1>1, <1>2, <1>6, <1>7, <1>8, <1>9, GrantKeeps
<1>10. CASE rest # {}
  <2>1. /\ frame = [kind |-> "Blockers", remaining |-> frame.remaining]
        /\ frame.remaining \in (SUBSET Seat) \ {{}} /\ frame.remaining \subseteq live
    BY <1>1, FrameFacts DEF IInv, TypeOK, FrameIsCurrent
  <2>2. frame' = [kind |-> "Blockers", remaining |-> rest]
    BY <1>1, <1>10, <2>1
  <2>3. rest \in (SUBSET Seat) \ {{}} /\ rest \subseteq live
    BY <1>10, <2>1
  <2> HIDE DEF rest
  <2>4. frame' \in Frames /\ frame'.kind = "Blockers" /\ frame'.remaining = rest
    BY <2>2, <2>3 DEF Frames
  <2>5. TypeOK'
    BY <1>1, <1>2, <1>8, <1>10, <2>4, StillPlayed
  <2>6. SomebodyStays' /\ FrameIsCurrent' /\ PriorityIsStable' /\ PendingIsUsable'
    BY <1>1, <1>2, <2>3, <2>4 DEF IInv, SomebodyStays, FrameIsCurrent, PriorityIsStable,
       PendingIsUsable, Declares, NoInput
  <2>7. DepartedHoldNothing'
    BY <1>1, <1>6, <1>7, <1>10 DEF IInv, DepartedHoldNothing, FightersAreInPlay
  <2>8. QED  BY <2>5, <2>6, <2>7 DEF IInv
<1>11. QED  BY <1>9, <1>10

LEMMA CombatDamageKeeps == IInv /\ CombatDamage => IInv'
<1> SUFFICES ASSUME IInv, CombatDamage PROVE IInv'
  OBVIOUS
<1>1. /\ frame.kind \in {"Damage", "DamageChoice"} /\ AssignDamage(Chosen) /\ pending' = NoInput
      /\ UNCHANGED <<live, active, passes, turn, failed, hand, library, place, tapped, ready,
                     combat, returns, declared, concessions>>
  BY DEF CombatDamage, DamageStep, Applies, InFrame
<1>2. ~Ended
  BY <1>1 DEF Ended
<1>3. DOMAIN Chosen \subseteq Creatures
  BY FrameFacts DEF Chosen, IInv, TypeOK
<1>4. FightersAreInPlay' /\ \A p \in Seat \ live : hand'[p] = 0 /\ library'[p] = 0
  BY <1>1, TableFacts DEF FightersAreInPlay, TableLeft
<1>5. CASE Undivided(Chosen) # {}
  <2>1. PICK x \in Undivided(Chosen) :
          /\ frame' = [kind |-> "DamageChoice", source |-> x]
          /\ choices' = [y \in DOMAIN Chosen \ {x} |-> Chosen[y]]
    BY <1>1, <1>5 DEF AssignDamage
  <2>2. UNCHANGED <<life, damage, priority>>
    BY <1>1, <1>5 DEF AssignDamage
  <2>3. x \in DOMAIN combat /\ Cardinality(combat[x].blockers) > 1
    BY DEF Undivided
  <2>4. x \in Creatures /\ place[x] = "battlefield" /\ Cardinality(Recipients(combat, x)) > 1
    BY <2>3, TableFacts DEF TableTyped, FightersAreInPlay, Recipients
  <2>5. frame' \in Frames /\ frame'.kind = "DamageChoice" /\ frame'.source = x
    BY <2>1, <2>4 DEF Frames
  <2>6. DOMAIN choices' \subseteq Creatures
    BY <1>3, <2>1
  <2>7. TypeOK'
    BY <1>1, <2>2, <2>5, <2>6 DEF IInv, TypeOK, turn
  <2>8. FrameIsCurrent'
    BY <1>1, <2>4, <2>5 DEF FrameIsCurrent, Recipients
  <2>9. SomebodyStays' /\ PriorityIsStable' /\ PendingIsUsable'
    BY <1>1, <1>2, <2>5 DEF IInv, SomebodyStays, PriorityIsStable, PendingIsUsable, Declares, NoInput
  <2>10. DepartedHoldNothing'
    BY <1>1, <2>2 DEF IInv, DepartedHoldNothing
  <2>11. QED  BY <2>7, <2>8, <2>9, <2>10 DEF IInv
<1>6. CASE Undivided(Chosen) = {}
  <2>1. Grant /\ choices' = <<>> /\ DOMAIN life' = Seat /\ DOMAIN damage' = Creatures
    BY <1>1, <1>6 DEF AssignDamage
  <2>2. DOMAIN choices' = {}
    BY <2>1
  <2>3. frame' \in Frames /\ priority' \in live => TypeOK'
    BY <1>1, <2>1, <2>2 DEF IInv, TypeOK, turn
  <2>4. QED  BY <1>1, <1>2, <1>4, <2>1, <2>3, GrantKeeps
<1>7. QED  BY <1>5, <1>6

LEMMA DiscardKeeps == IInv /\ Discard => IInv'
<1> SUFFICES ASSUME IInv, Discard PROVE IInv'
  OBVIOUS
<1>1. /\ frame.kind = "Discard" /\ hand' = [hand EXCEPT ![frame.player] = @ - frame.count]
      /\ frame' = Bare("CleanupClear") /\ pending' = NoInput
      /\ UNCHANGED <<seats, turn, life, failed, library, objects, declared, concessions>>
  BY DEF Discard, Applies, InFrame
<1>2. ~Ended
  BY <1>1 DEF Ended
<1>3. /\ frame.player \in live /\ frame.player \in Seat
      /\ frame.count \in Nat /\ frame.count <= hand[frame.player]
  BY <1>1, FrameFacts DEF IInv, TypeOK, FrameIsCurrent
<1>4. hand' \in [Seat -> Nat] /\ \A p \in Seat \ live : hand'[p] = hand[p]
  BY <1>1, <1>3 DEF IInv, TypeOK
<1>5. frame' \in Frames /\ frame'.kind \notin DecisionFrames
  BY <1>1, SimpleFrames DEF DecisionFrames
<1>6. TypeOK'
  BY <1>1, <1>4, <1>5 DEF IInv, TypeOK, seats, turn, objects
<1>7. FightersAreInPlay' /\ \A p \in Seat \ live : hand'[p] = 0 /\ library'[p] = 0
  BY <1>1, <1>4, TableFacts DEF FightersAreInPlay, TableLeft, objects
<1>8. priority' \in live /\ active' \in live \cup {None} /\ passes' \subseteq live
  BY <1>1, <1>2, StillPlayed DEF IInv, DepartedHoldNothing, seats
<1>9. QED  BY <1>1, <1>2, <1>5, <1>6, <1>7, <1>8, AutomaticKeeps DEF seats, objects

LEMMA ClearDamageKeeps == IInv /\ ClearDamage => IInv'
<1> SUFFICES ASSUME IInv, ClearDamage PROVE IInv'
  OBVIOUS
<1>1. /\ frame.kind = "CleanupClear" /\ damage' = [x \in Creatures |-> 0]
      /\ frame' = Stabilize("Transition", TRUE, FALSE)
      /\ UNCHANGED <<seats, turn, cards, place, tapped, ready, combat, choices, returns, declared,
                     pending, concessions>>
  BY DEF ClearDamage, InFrame
<1>2. ~Ended
  BY <1>1 DEF Ended
<1>3. frame' \in Waves
  BY <1>1 DEF Waves, Stabilize
<1>4. frame' \in Frames /\ frame'.kind \notin DecisionFrames
  BY <1>3, WaveFacts DEF DecisionFrames
<1>5. TypeOK'
  BY <1>1, <1>4 DEF IInv, TypeOK, seats, turn, cards
<1>6. FightersAreInPlay' /\ \A p \in Seat \ live : hand'[p] = 0 /\ library'[p] = 0
  BY <1>1, TableFacts DEF FightersAreInPlay, TableLeft, cards
<1>7. priority' \in live /\ active' \in live \cup {None} /\ passes' \subseteq live
  BY <1>1, <1>2, StillPlayed DEF IInv, DepartedHoldNothing, seats
<1>8. \A p \in Seat : hand'[p] >= hand[p]
  BY <1>1 DEF cards, IInv, TypeOK
<1>9. QED  BY <1>1, <1>2, <1>4, <1>5, <1>6, <1>7, <1>8, AutomaticKeeps DEF seats

LEMMA FaultKeeps == IInv /\ Fault => IInv'
<1> SUFFICES ASSUME IInv, Fault PROVE IInv'
  OBVIOUS
<1>1. /\ frame' = [kind |-> "Fault", supported |-> WrongInput]
      /\ UNCHANGED <<seats, turn, cards, objects, declared, pending, concessions>>
  BY DEF Fault
<1>2. WrongInput \in BOOLEAN
  BY DEF WrongInput
<1>3. frame' \in Frames /\ frame'.kind = "Fault"
  BY <1>1, <1>2 DEF Frames
<1>4. TypeOK'
  BY <1>1, <1>3 DEF IInv, TypeOK, seats, turn, cards, objects
<1>5. SomebodyStays' /\ FrameIsCurrent' /\ PriorityIsStable'
  BY <1>3 DEF SomebodyStays, Ended, FrameIsCurrent, PriorityIsStable
<1>6. DepartedHoldNothing'
  BY <1>1 DEF IInv, DepartedHoldNothing, seats, cards, objects
<1>7. PendingIsUsable'
  BY <1>1, <1>3 DEF IInv, PendingIsUsable, Declares, cards, objects
<1>8. QED  BY <1>4, <1>5, <1>6, <1>7 DEF IInv

LEMMA AnswerReturnKeeps == IInv /\ AnswerReturn => IInv'
<1> SUFFICES ASSUME IInv, AnswerReturn PROVE IInv'
  OBVIOUS
<1>1. /\ frame.kind = "CommanderReturn" /\ pending.kind = "CommanderReturn" /\ pending' = NoInput
      /\ UNCHANGED <<seats, turn, cards, declared, concessions>>
  BY DEF AnswerReturn, InFrame
<1>2. ~Ended
  BY <1>1 DEF Ended
<1>3. frame.object \in Creatures /\ frame.resume \in Waves /\ Owner[frame.object] \in live
  BY <1>1, FrameFacts DEF IInv, TypeOK, FrameIsCurrent
<1>4. pending.data \in BOOLEAN
  BY <1>1 DEF IInv, PendingIsUsable
<1>5. priority' \in live /\ active' \in live \cup {None} /\ passes' \subseteq live
  BY <1>1, <1>2, StillPlayed DEF IInv, DepartedHoldNothing, seats
<1>6. CASE pending.data
  <2> DEFINE pl == [place EXCEPT ![frame.object] = "command"]
  <2>1. MoveTo(pl) /\ frame' = Stabilize(frame.resume.resume, frame.resume.cleanup, TRUE)
    BY <1>6 DEF AnswerReturn
  <2>2. pl \in [Creatures -> Places]
    BY <1>3 DEF IInv, TypeOK, Places
  <2>3. \A x \in Creatures : pl[x] = IF x = frame.object THEN "command" ELSE place[x]
    BY <1>3 DEF IInv, TypeOK
  <2> HIDE DEF pl
  <2>4. TableTyped' /\ FightersAreInPlay' /\ place' = pl
    BY <2>1, <2>2, MoveKeeps, TableFacts
  <2>5. frame' \in Waves /\ frame' \in Frames /\ frame'.kind = "Stabilize"
    BY <1>3, <2>1, WaveFacts
  <2>6. TypeOK'
    BY <1>1, <2>4, <2>5 DEF IInv, TypeOK, TableTyped, seats, turn, cards
  <2>7. SomebodyStays' /\ FrameIsCurrent' /\ PriorityIsStable' /\ PendingIsUsable'
    BY <1>1, <1>2, <2>5 DEF IInv, SomebodyStays, FrameIsCurrent, PriorityIsStable,
                            PendingIsUsable, Declares, NoInput, seats
  <2>8. DepartedHoldNothing'
    BY <1>1, <1>3, <2>3, <2>4, TableFacts
       DEF IInv, DepartedHoldNothing, FightersAreInPlay, TableLeft, seats, cards
  <2>9. QED  BY <2>6, <2>7, <2>8 DEF IInv
<1>7. CASE ~pending.data
  <2>1. frame' = frame.resume /\ UNCHANGED objects
    BY <1>7 DEF AnswerReturn
  <2>2. frame' \in Frames /\ frame'.kind \notin DecisionFrames
    BY <1>3, <2>1, WaveFacts DEF DecisionFrames
  <2>3. TypeOK'
    BY <1>1, <2>1, <2>2 DEF IInv, TypeOK, seats, turn, cards, objects
  <2>4. FightersAreInPlay' /\ \A p \in Seat \ live : hand'[p] = 0 /\ library'[p] = 0
    BY <1>1, <2>1, TableFacts DEF FightersAreInPlay, TableLeft, cards, objects
  <2>5. QED  BY <1>1, <1>2, <1>5, <2>1, <2>2, <2>3, <2>4, AutomaticKeeps DEF seats, objects
<1>8. QED  BY <1>4, <1>6, <1>7

-----------------------------------------------------------------------------
(* Rule steps that players leave in *)

\* The end of the game (Game::finish_if_ended).
LEMMA FinishKeeps ==
    ASSUME IInv, TypeOK, TableTyped', FightersAreInPlay', TableLeft', NEW L \in SUBSET live, Finish(L),
           live' = L, active' \in live' \cup {None}, passes' \subseteq live',
           hand' \in [Seat -> Nat], library' \in [Seat -> Nat],
           concessions' \in Seq(Seat), UNCHANGED <<turn, life, failed, declared>>
    PROVE  IInv'
<1>1. /\ pending' = NoInput
      /\ frame' \in Frames /\ frame'.kind \in {"Draw", "Finished"}
      /\ priority' \in Seat /\ (live' = {} \/ priority' \in live')
  <2>1. CASE L = {}
    BY <2>1, SimpleFrames DEF Finish, TypeOK
  <2>2. CASE L # {}
    <3>1. PICK p \in L : frame' = [kind |-> "Finished", winner |-> p] /\ priority' = p
      BY <2>2 DEF Finish
    <3>2. p \in Seat
      BY DEF TypeOK
    <3>3. frame' \in Frames
      BY <3>1, <3>2 DEF Frames
    <3>4. QED  BY <3>1, <3>2, <3>3 DEF Finish
  <2>3. QED  BY <2>1, <2>2
<1>2. TypeOK'
  BY <1>1 DEF TypeOK, TableTyped, turn
<1>3. SomebodyStays' /\ FrameIsCurrent' /\ PriorityIsStable' /\ PendingIsUsable'
  BY <1>1 DEF SomebodyStays, Ended, FrameIsCurrent, PriorityIsStable, PendingIsUsable, Declares, NoInput
<1>4. DepartedHoldNothing'
  BY <1>1 DEF DepartedHoldNothing, FightersAreInPlay, TableLeft
<1>5. QED  BY <1>2, <1>3, <1>4 DEF IInv

LEMMA WaveKeeps == IInv /\ Wave => IInv'
<1> SUFFICES ASSUME IInv, Wave PROVE IInv'
  OBVIOUS
<1> DEFINE L == live \ Losers
           dead == [x \in Creatures |-> IF x \in Doomed THEN "graveyard" ELSE place[x]]
<1>1. /\ frame.kind = "Stabilize" /\ Drained /\ Leave(Losers, L) /\ MoveTo(AfterLeaving(Losers, dead))
      /\ passes' = passes \cap L
      /\ IF Losers # {} /\ Cardinality(L) <= 1
         THEN Finish(L)
         ELSE /\ frame' = Stabilize(frame.resume, frame.cleanup, TRUE)
              /\ priority' = IF priority \in Losers THEN NextLive(priority, L) ELSE priority
              /\ pending' = IF pending.player \in Losers THEN NoInput ELSE pending
      /\ UNCHANGED <<turn, life, failed, declared, concessions>>
  BY DEF Wave, InFrame
<1>2. ~Ended
  BY <1>1 DEF Ended
<1>3. live \in SUBSET Seat /\ Losers \in SUBSET Seat /\ Losers \subseteq live
  BY DEF Losers, IInv, TypeOK
<1>4. dead \in [Creatures -> Places] /\ \A x \in Creatures :
        /\ (dead[x] = "gone") <=> (place[x] = "gone")
        /\ dead[x] = "battlefield" => place[x] = "battlefield"
  BY DEF Doomed, IInv, TypeOK, Places
<1> HIDE DEF dead
<1>5. /\ TableTyped' /\ FightersAreInPlay' /\ TableLeft'
      /\ hand' \in [Seat -> Nat] /\ library' \in [Seat -> Nat]
      /\ \A p \in Seat \ Losers : hand'[p] = hand[p]
      /\ live' = L /\ active' \in live' \cup {None}
  BY <1>1, <1>2, <1>3, <1>4, LeaveKeeps, TableFacts, StillPlayed DEF IInv
<1>6. passes' \subseteq live' /\ concessions' \in Seq(Seat)
  BY <1>1, <1>5 DEF IInv, TypeOK
<1>7. CASE Losers # {} /\ Cardinality(L) <= 1
  <2>1. Finish(L)
    BY <1>1, <1>7
  <2>2. L \in SUBSET live
    OBVIOUS
  <2> HIDE DEF L
  <2>3. QED  BY <1>1, <1>5, <1>6, <2>1, <2>2, FinishKeeps DEF IInv
<1>8. CASE ~(Losers # {} /\ Cardinality(L) <= 1)
  <2>1. /\ frame' = Stabilize(frame.resume, frame.cleanup, TRUE)
        /\ priority' = IF priority \in Losers THEN NextLive(priority, L) ELSE priority
        /\ pending' = IF pending.player \in Losers THEN NoInput ELSE pending
    BY <1>1, <1>8
  <2>2. frame' \in Waves /\ frame' \in Frames /\ frame'.kind = "Stabilize"
    BY <1>1, <2>1, FrameFacts, WaveFacts DEF IInv, TypeOK
  <2>3. L \in SUBSET Seat /\ Cardinality(L) \in Nat /\ Cardinality(L) > 1
    <3>1. CASE Losers = {}
      BY <1>2, <3>1, SeatsFinite, StillPlayed
    <3>2. CASE Losers # {}
      BY <1>3, <1>8, <3>2, SeatsFinite
    <3>3. QED  BY <3>1, <3>2
  <2>4. priority' \in live'
    <3>1. L # {}
      <4> HIDE DEF L
      <4> QED  BY <2>3, SizeFacts
    <3>2. priority \in live /\ priority \in Seat
      BY <1>2, <1>3, StillPlayed
    <3>3. NextLive(priority, L) \in L
      <4> HIDE DEF L
      <4> QED  BY <2>3, <3>1, <3>2, NextLiveIsLive
    <3>4. QED  BY <1>5, <2>1, <3>2, <3>3
  <2>5. pending' = NoInput \/ (pending' = pending /\ pending.player \in live')
    BY <1>3, <1>5, <2>1 DEF IInv, DepartedHoldNothing
  <2>6. TypeOK'
    BY <1>1, <1>5, <1>6, <2>2, <2>3, <2>4, <2>5 DEF IInv, TypeOK, TableTyped, turn
  <2>7. SomebodyStays'
    <3>1. Len(concessions') = 0
      BY <1>1 DEF Drained
    <3>2. QED  BY <1>5, <2>3, <3>1 DEF SomebodyStays
  <2>8. FrameIsCurrent' /\ PriorityIsStable'
    BY <2>2 DEF FrameIsCurrent, PriorityIsStable
  <2>9. DepartedHoldNothing'
    BY <1>5, <1>6, <2>4, <2>5 DEF DepartedHoldNothing, FightersAreInPlay, TableLeft
  <2>10. PendingIsUsable'
    <3>1. CASE pending' = NoInput
      BY <3>1 DEF PendingIsUsable, Declares, NoInput
    <3>2. CASE pending' = pending /\ pending.player \in live'
      <4>1. pending.player \in Seat /\ hand'[pending.player] = hand[pending.player]
        BY <1>3, <1>5, <3>2
      <4>2. pending.kind \notin {"Attackers", "Blockers"}
        BY <1>1 DEF IInv, PendingIsUsable, Declares
      <4>3. QED  BY <3>2, <4>1, <4>2 DEF IInv, PendingIsUsable, Declares
    <3>3. QED  BY <2>5, <3>1, <3>2
  <2>11. QED  BY <2>6, <2>7, <2>8, <2>9, <2>10 DEF IInv
<1>9. QED  BY <1>7, <1>8

\* Where a departure finds its way back to is a frame, and one that is about
\* somebody who is still there.
LEMMA ResumedFacts ==
    ASSUME IInv, ~Ended, NEW L \in SUBSET live, NEW act \in L \cup {None}, NEW pl, NEW cb,
           NEW fr, fr = Resumed(L, act, pl, cb),
           \A p \in L : hand'[p] = hand[p]
    PROVE  /\ fr \in Frames /\ fr.kind # "Priority"
           /\ fr.kind = "Attackers" => act # None
           /\ fr.kind = "Blockers" => fr.remaining \subseteq L
           /\ fr.kind = "DamageChoice" =>
                pl[fr.source] = "battlefield" /\ ~(Cardinality(Recipients(cb, fr.source)) < 2)
           /\ fr.kind = "Discard" => fr.player \in L /\ fr.count <= hand'[fr.player]
           /\ fr.kind = "CommanderReturn" => Owner[fr.object] \in L
<1>1. frame \in Frames
  BY DEF IInv, TypeOK
<1>2. CASE frame.kind = "Priority"
  BY <1>2, SettlingIsAWave, WaveFacts DEF Resumed
<1>3. CASE frame.kind = "CommanderReturn"
  <2>1. frame.resume \in Waves
    BY <1>1, <1>3, FrameFacts
  <2>2. fr = IF Owner[frame.object] \notin L THEN frame.resume ELSE frame
    BY <1>3 DEF Resumed
  <2>3. QED  BY <1>1, <1>3, <2>1, <2>2, WaveFacts
<1>4. CASE frame.kind = "Attackers"
  BY <1>1, <1>4, SettlingIsAWave, WaveFacts DEF Resumed
<1>5. CASE frame.kind = "Blockers"
  <2>1. CASE frame.remaining \cap L = {}
    BY <1>5, <2>1, SettlingIsAWave, WaveFacts DEF Resumed
  <2>2. CASE frame.remaining \cap L # {}
    <3>1. frame = [kind |-> "Blockers", remaining |-> frame.remaining]
          /\ frame.remaining \in (SUBSET Seat) \ {{}}
      BY <1>1, <1>5, FrameFacts
    <3>2. fr = [frame EXCEPT !.remaining = @ \cap L]
      BY <1>5, <2>2 DEF Resumed
    <3>3. fr = [kind |-> "Blockers", remaining |-> frame.remaining \cap L]
      BY <3>1, <3>2
    <3>4. fr \in Frames
      BY <2>2, <3>1, <3>3 DEF Frames
    <3>5. QED  BY <3>3, <3>4
  <2>3. QED  BY <2>1, <2>2
<1>6. CASE frame.kind = "DamageChoice"
  BY <1>1, <1>6, SimpleFrames DEF Resumed
<1>7. CASE frame.kind = "Discard"
  <2>1. fr = IF frame.player \notin L THEN Bare("CleanupClear") ELSE frame
    BY <1>7 DEF Resumed
  <2>2. frame.count <= hand[frame.player]
    BY <1>7 DEF IInv, FrameIsCurrent
  <2>3. QED  BY <1>1, <1>7, <2>1, <2>2, SimpleFrames
<1>8. CASE frame.kind \notin DecisionFrames
  BY <1>1, <1>8 DEF Resumed, DecisionFrames
<1>9. QED  BY <1>2, <1>3, <1>4, <1>5, <1>6, <1>7, <1>8 DEF DecisionFrames

LEMMA DepartKeeps == IInv /\ Depart => IInv'
<1> SUFFICES ASSUME IInv, Depart PROVE IInv'
  OBVIOUS
<1> DEFINE p == Head(concessions)
           L == live \ {p}
           pl == AfterLeaving({p}, place)
           act == IF active = p THEN None ELSE active
           heir == IF priority = p THEN NextLive(p, L) ELSE priority
           fr == Resumed(L, act, pl, combat')
           orphaned == frame.kind = "CommanderReturn" /\ Owner[frame.object] \notin L
           kept == IF pending.player # p /\ ~orphaned
                      /\ pending \in Answers(pending.player, Judging(fr), L, act, pl, combat')
                   THEN pending ELSE NoInput
           agreed == frame.kind = "Priority" /\ kept = NoInput /\ Len(concessions) = 1
                     /\ L \subseteq passes
<1>1. /\ ~Ended /\ ~Drained /\ Leave({p}, L) /\ MoveTo(pl)
      /\ concessions' = Tail(concessions) /\ UNCHANGED <<turn, life, failed, declared>>
  BY DEF Depart
<1>2. IF Cardinality(L) = 1
      THEN Finish(L) /\ passes' = passes \cap L
      ELSE /\ frame' = IF agreed THEN Bare("Transition") ELSE fr
           /\ passes' = IF agreed THEN {} ELSE passes \cap L
           /\ pending' = kept
           /\ priority' = IF frame.kind \in {"Attackers", "Blockers"} /\ fr = Settling
                          THEN Recipient(act, L) ELSE heir
  BY DEF Depart
<1>3. /\ concessions \in Seq(Seat) /\ p \in Seat /\ concessions' \in Seq(Seat)
      /\ Len(concessions') = Len(concessions) - 1 /\ Len(concessions) \in Nat
  BY <1>1 DEF Drained, IInv, TypeOK
<1>4. live \in SUBSET Seat /\ Cardinality(live) \in Nat /\ Cardinality(live) > Len(concessions)
  BY <1>1, StillPlayed, SeatsFinite
<1>5. L \in SUBSET Seat /\ Cardinality(L) \in Nat /\ Cardinality(L) >= Cardinality(live) - 1
      /\ Cardinality(L) > 0
  <2>1. Cardinality(live) > 1
    BY <1>1, StillPlayed
  <2>2. L \in SUBSET Seat /\ Cardinality(L) \in Nat /\ Cardinality(L) >= Cardinality(live) - 1
    BY <1>4, SizeFacts, SeatsFinite
  <2>3. QED  BY <1>4, <2>1, <2>2
<1>6. L # {}
  <2> HIDE DEF L
  <2> QED  BY <1>5, SizeFacts
<1>7. /\ TableTyped' /\ FightersAreInPlay' /\ TableLeft'
      /\ hand' \in [Seat -> Nat] /\ library' \in [Seat -> Nat]
      /\ \A q \in Seat \ {p} : hand'[q] = hand[q]
      /\ live' = L /\ active' \in live' \cup {None}
      /\ place' = pl
  <2>1. place \in [Creatures -> Places] /\ {p} \in SUBSET Seat
    BY <1>3 DEF IInv, TypeOK
  <2> HIDE DEF p
  <2>2. QED  BY <1>1, <2>1, LeaveKeeps, TableFacts, StillPlayed DEF IInv
<1>8. active' = act /\ act \in L \cup {None}
  <2>1. active' = IF active \in {p} THEN None ELSE active
    BY <1>1 DEF Leave
  <2>2. QED  BY <1>1, <2>1, StillPlayed
<1>9. passes \subseteq live /\ L \subseteq live
  BY DEF IInv, DepartedHoldNothing
<1>10. CASE Cardinality(L) = 1
  <2>1. Finish(L) /\ passes' \subseteq live' /\ L \in SUBSET live
    BY <1>2, <1>7, <1>9, <1>10
  <2> HIDE DEF L, pl
  <2>2. QED  BY <1>1, <1>3, <1>7, <2>1, FinishKeeps DEF IInv
<1>11. CASE Cardinality(L) # 1
  <2>1. /\ frame' = IF agreed THEN Bare("Transition") ELSE fr
        /\ passes' = IF agreed THEN {} ELSE passes \cap L
        /\ pending' = kept
        /\ priority' = IF frame.kind \in {"Attackers", "Blockers"} /\ fr = Settling
                       THEN Recipient(act, L) ELSE heir
    BY <1>2, <1>11
  <2>2. \A q \in L : q \in Seat /\ q # p /\ hand'[q] = hand[q]
    BY <1>4, <1>7
  <2>3. heir \in L /\ Recipient(act, L) \in L
    <3>1. priority \in live
      BY <1>1, StillPlayed
    <3>2. NextLive(p, L) \in L
      <4> HIDE DEF L, p
      <4> QED  BY <1>3, <1>5, <1>6, NextLiveIsLive
    <3>3. Recipient(act, L) \in L
      <4> HIDE DEF L, act
      <4> QED  BY <1>5, <1>6, <1>8, RecipientIsLive DEF IInv, TypeOK
    <3>4. QED  BY <3>1, <3>2, <3>3
  <2>4. L \in SUBSET live
    OBVIOUS
  <2> HIDE DEF L, pl, act, heir, p
  <2>5. /\ fr \in Frames /\ fr.kind # "Priority"
        /\ fr.kind = "Attackers" => act # None
        /\ fr.kind = "Blockers" => fr.remaining \subseteq L
        /\ fr.kind = "DamageChoice" =>
             pl[fr.source] = "battlefield" /\ ~(Cardinality(Recipients(combat', fr.source)) < 2)
        /\ fr.kind = "Discard" => fr.player \in L /\ fr.count <= hand'[fr.player]
        /\ fr.kind = "CommanderReturn" => Owner[fr.object] \in L
    BY <1>1, <1>8, <2>2, <2>4, ResumedFacts
  <2>6. kept = NoInput \/
          /\ kept = pending /\ pending.player # p
          /\ pending \in Answers(pending.player, Judging(fr), L, act, pl, combat')
    OBVIOUS
  <2> HIDE DEF fr, orphaned, kept
  <2>7. agreed => frame' = Bare("Transition") /\ kept = NoInput
    BY <2>1
  <2>8. ~agreed => frame' = fr
    BY <2>1
  <2>9. passes' \subseteq live' /\ priority' \in live'
    BY <1>7, <2>1, <2>3
  <2> HIDE DEF agreed
  <2>10. frame' \in Frames /\ frame'.kind # "Priority" /\ pending' = kept
    BY <2>1, <2>5, <2>7, <2>8, SimpleFrames
  <2>11. FrameIsCurrent'
    <3>1. CASE agreed
      BY <2>7, <3>1, SimpleFrames DEF FrameIsCurrent
    <3>2. CASE ~agreed
      <4>1. Cardinality(Recipients(combat', fr.source)) \in Nat
        <5>1. TableTyped'
          BY <1>7
        <5>2. Recipients(combat', fr.source) \subseteq Creatures
          BY <5>1 DEF TableTyped, Recipients, Attack
        <5>3. QED  BY <5>2, CreatureAssumption, FS_Subset, FS_CardinalityType
      <4>2. QED  BY <1>7, <1>8, <2>5, <2>8, <3>2, <4>1 DEF FrameIsCurrent
    <3>3. QED  BY <3>1, <3>2
  <2>12. SomebodyStays'
    BY <1>3, <1>4, <1>5, <1>7, <1>11 DEF SomebodyStays
  <2>13. pending' = NoInput \/ (pending' = pending /\ pending.player \in live' /\ pending.player \in Seat
                                /\ hand'[pending.player] = hand[pending.player])
    <3>1. pending = NoInput \/ (pending.player \in live /\ pending.player \in Seat)
      BY DEF IInv, DepartedHoldNothing, TypeOK
    <3>2. pending.player \in live /\ pending.player # p => pending.player \in L
      BY DEF L
    <3>3. QED  BY <1>7, <2>2, <2>6, <2>10, <3>1, <3>2
  <2>14. TypeOK'
    BY <1>1, <1>3, <1>5, <1>7, <2>9, <2>10, <2>13 DEF IInv, TypeOK, TableTyped, turn
  <2>15. DepartedHoldNothing'
    BY <1>7, <2>9, <2>13 DEF DepartedHoldNothing, FightersAreInPlay, TableLeft
  <2>16. PriorityIsStable'
    BY <2>10 DEF PriorityIsStable
  <2>17. PendingIsUsable'
    <3>1. CASE kept = NoInput
      BY <2>10, <3>1 DEF PendingIsUsable, Declares, NoInput
    <3>2. CASE /\ kept # NoInput /\ kept = pending
               /\ pending \in Answers(pending.player, Judging(fr), L, act, pl, combat')
      <4>1. /\ pending.kind \in {"Attackers", "Blockers"} => Judging(fr).kind = pending.kind
            /\ pending.kind \in {"Attackers", "Blockers"} =>
                 DOMAIN pending.data \subseteq {x \in Creatures : pl[x] = "battlefield"}
            /\ pending.kind = "Attackers" => \A x \in DOMAIN pending.data : pending.data[x] \in L
        BY <3>2, AnswerFacts
      <4>2. Judging(fr).kind \in {"Attackers", "Blockers"} => fr.kind = Judging(fr).kind
        BY <2>5, FrameFacts, WaveFacts, SimpleFrames DEF Judging
      <4>3. frame' = fr
        BY <2>7, <2>8, <3>2
      <4>4. pending' = pending /\ hand'[pending.player] = hand[pending.player] /\ pending.player \in Seat
        BY <2>10, <2>13, <3>2
      <4>5. QED  BY <1>5, <1>7, <4>1, <4>2, <4>3, <4>4 DEF IInv, PendingIsUsable, Declares
    <3>3. QED  BY <2>6, <3>1, <3>2
  <2>18. QED  BY <2>11, <2>12, <2>14, <2>15, <2>16, <2>17 DEF IInv
<1>12. QED  BY <1>10, <1>11

-----------------------------------------------------------------------------

LEMMA InitIsSound == Init => IInv
<1> SUFFICES ASSUME Init PROVE IInv
  OBVIOUS
<1>1. 0 \in Seat /\ Cardinality(Seat) = N /\ N > 1
  <2>1. Cardinality(0 .. N - 1) = N
    BY FS_Interval, SeatAssumption
  <2>2. QED  BY <2>1, SeatAssumption DEF Seat
<1>2. frame \in Frames /\ frame.kind = "Priority"
  BY SimpleFrames DEF Init
<1>3. DOMAIN combat = {} /\ DOMAIN choices = {}
  BY DEF Init
<1>4. step \in {Steps[i] : i \in DOMAIN Steps}
  <2>1. 4 \in DOMAIN Steps /\ Steps[4] = "PrecombatMain"
    BY DEF Steps
  <2>2. QED  BY <2>1 DEF Init
<1>5. TypeOK
  <2>1. place \in [Creatures -> Places]
    BY DEF Init, Places
  <2>2. concessions \in Seq(Seat)
    BY DEF Init
  <2>3. QED  BY <1>1, <1>2, <1>3, <1>4, <2>1, <2>2, CardAssumption DEF Init, TypeOK
<1>6. SomebodyStays
  <2>1. live = Seat /\ Len(concessions) = 0
    BY DEF Init
  <2>2. Cardinality(live) = N
    BY <1>1, <2>1
  <2>3. Cardinality(live) > 1 /\ Len(concessions) < Cardinality(live)
    BY <1>1, <2>1, <2>2, SeatAssumption
  <2>4. QED  BY <2>3 DEF SomebodyStays
<1>7. DepartedHoldNothing
  BY <1>1, <1>3, CreatureAssumption DEF Init, DepartedHoldNothing
<1>8. FrameIsCurrent
  BY <1>2 DEF FrameIsCurrent
<1>9. PendingIsUsable
  BY DEF Init, PendingIsUsable, Declares, NoInput
<1>10. PriorityIsStable
  <2>1. Doomed = {}
    BY CreatureAssumption DEF Init, Doomed
  <2>2. Losers = {}
    BY CardAssumption DEF Init, Losers
  <2>3. ~(live \subseteq passes)
    BY <1>1 DEF Init
  <2>4. QED  BY <2>1, <2>2, <2>3 DEF Init, PriorityIsStable
<1>11. QED  BY <1>5, <1>6, <1>7, <1>8, <1>9, <1>10 DEF IInv

LEMMA StutterKeeps == IInv /\ UNCHANGED vars => IInv'
  BY DEF IInv, vars, seats, turn, cards, objects, TypeOK, SomebodyStays, Ended, DepartedHoldNothing,
         FrameIsCurrent, PendingIsUsable, Declares, PriorityIsStable, Doomed, Losers, Drained

LEMMA NextKeeps == IInv /\ [Next]_vars => IInv'
<1> SUFFICES ASSUME IInv, [Next]_vars PROVE IInv'
  OBVIOUS
<1>1. CASE Submit
  BY <1>1, SubmitKeeps
<1>2. CASE \E p \in Seat : Concede(p)
  BY <1>2, ConcedeKeeps
<1>3. CASE RuleStep
  BY <1>3, DepartKeeps, WaveKeeps, OfferReturnKeeps, SettleKeeps, AnswerReturnKeeps, PassKeeps,
     PlayLandKeeps, TransitionKeeps, EnterUntapKeeps, EnterDrawKeeps, EnterAroundCombatKeeps,
     EnterDecidingKeeps, EnterQuietlyKeeps, DeclareAttackersKeeps, DeclareBlockersKeeps,
     CombatDamageKeeps, DiscardKeeps, ClearDamageKeeps, FaultKeeps DEF RuleStep
<1>4. CASE UNCHANGED vars
  BY <1>4, StutterKeeps
<1>5. QED  BY <1>1, <1>2, <1>3, <1>4 DEF Next

-----------------------------------------------------------------------------
(* What a sum over a set is, in the one case the theorems need *)

\* The function the sum of s over R is defined by.
SumsOver(s, R, g) ==
    g = [T \in SUBSET R |-> IF T = {} THEN 0
                            ELSE s[CHOOSE x \in T : TRUE] + g[T \ {CHOOSE x \in T : TRUE}]]

LEMMA SumIsChosen ==
    ASSUME NEW s, NEW R
    PROVE  Dealt(s, R) = (CHOOSE g : SumsOver(s, R, g))[R]
  BY DEF Dealt, MapThenSumSet, MapThenFoldSet, SumsOver

\* When all of n falls to one member, the sum is n: what the sum of every subset
\* is satisfies the recursion, and nothing else does, by a smallest subset for
\* which it were otherwise.
LEMMA SumOfOne ==
    ASSUME NEW R, IsFiniteSet(R), NEW one \in R, NEW n \in Nat, NEW s,
           s = [b \in R |-> IF b = one THEN n ELSE 0]
    PROVE  Dealt(s, R) = n
<1> DEFINE h == [T \in SUBSET R |-> IF one \in T THEN n ELSE 0]
           g == CHOOSE f : SumsOver(s, R, f)
           any(T) == CHOOSE x \in T : TRUE
<1>1. \A T \in SUBSET R : T # {} => any(T) \in T
  OBVIOUS
<1> HIDE DEF any
<1>2. \A x \in R : s[x] = IF x = one THEN n ELSE 0
  OBVIOUS
<1>3. \A T \in SUBSET R : h[T] = IF T = {} THEN 0 ELSE s[any(T)] + h[T \ {any(T)}]
  <2> TAKE T \in SUBSET R
  <2>1. CASE T = {}
    BY <2>1
  <2>2. CASE T # {}
    <3>1. any(T) \in T /\ any(T) \in R /\ T \ {any(T)} \in SUBSET R
      BY <1>1, <2>2
    <3>2. h[T \ {any(T)}] = IF one \in T /\ one # any(T) THEN n ELSE 0
      BY <3>1
    <3>3. h[T] = IF one \in T THEN n ELSE 0
      OBVIOUS
    <3>4. s[any(T)] = IF any(T) = one THEN n ELSE 0
      BY <1>2, <3>1
    <3> HIDE DEF h
    <3>5. QED  BY <2>2, <3>1, <3>2, <3>3, <3>4
  <2>3. QED  BY <2>1, <2>2
<1>4. SumsOver(s, R, h)
  <2>1. h = [T \in SUBSET R |-> h[T]]
    OBVIOUS
  <2> HIDE DEF h
  <2>2. h = [T \in SUBSET R |-> IF T = {} THEN 0 ELSE s[any(T)] + h[T \ {any(T)}]]
    BY <1>3, <2>1
  <2>3. QED  BY <2>2 DEF SumsOver, any
<1>5. SumsOver(s, R, g)
  <2> HIDE DEF h
  <2> QED  BY <1>4
<1>6. \A T \in SUBSET R : g[T] = IF T = {} THEN 0 ELSE s[any(T)] + g[T \ {any(T)}]
  <2> HIDE DEF g
  <2> QED  BY <1>5 DEF SumsOver, any
<1> DEFINE Bad == {T \in SUBSET R : g[T] # h[T]}
<1>7. ASSUME R \in Bad PROVE FALSE
  <2>1. \A T \in SUBSET R : IsFiniteSet(T)
    BY FS_Subset
  <2>2. Bad \subseteq FiniteSubsetsOf(R) /\ Bad # {}
    <3> HIDE DEF g, h
    <3> QED  BY <1>7, <2>1 DEF FiniteSubsetsOf
  <2>3. PICK T \in Bad : \A U \in Bad : ~(<<U, T>> \in StrictSubsetOrdering(R))
    <3>1. IsWellFoundedOn(StrictSubsetOrdering(R), FiniteSubsetsOf(R))
      BY FS_StrictSubsetOrderingWellFounded
    <3> HIDE DEF Bad
    <3>2. QED  BY <2>2, <3>1, WFMin
  <2>4. T \in SUBSET R /\ g[T] # h[T]
    OBVIOUS
  <2> HIDE DEF g, h
  <2>5. T # {}
    BY <1>3, <1>6, <2>4
  <2> DEFINE U == T \ {any(T)}
  <2>6. U \in SUBSET R /\ U # T /\ U \subseteq T
    BY <1>1, <2>4, <2>5
  <2>7. <<U, T>> \in StrictSubsetOrdering(R)
    BY <2>4, <2>6 DEF StrictSubsetOrdering
  <2>8. U \notin Bad
    <3> HIDE DEF U, Bad
    <3> QED  BY <2>3, <2>7
  <2>9. g[U] = h[U]
    BY <2>6, <2>8
  <2>10. QED  BY <1>3, <1>6, <2>4, <2>5, <2>9
<1>8. g[R] = h[R]
  <2>1. R \in SUBSET R
    OBVIOUS
  <2> HIDE DEF g, h
  <2>2. QED  BY <1>7, <2>1
<1>9. h[R] = n
  OBVIOUS
<1>10. Dealt(s, R) = g[R]
  BY SumIsChosen
<1> HIDE DEF g, h
<1>11. QED  BY <1>8, <1>9, <1>10

\* Damage can be divided among whatever blocks: all of it to one of them.
LEMMA DamageCanBeDivided ==
    ASSUME TypeOK, NEW x \in Creatures, NEW b \in Recipients(combat, x)
    PROVE  Splits(x, combat) # {}
<1> DEFINE R == Recipients(combat, x)
           s == [y \in R |-> IF y = b THEN Power[x] ELSE 0]
<1>1. R \in SUBSET Creatures
  BY DEF Recipients, TypeOK, Attack
<1>2. IsFiniteSet(R) /\ Power[x] \in Nat
  BY <1>1, CreatureAssumption, FS_Subset
<1>3. s \in [R -> 0 .. Power[x]]
  BY <1>2
<1>4. Dealt(s, R) = Power[x]
  <2>1. s = [y \in R |-> IF y = b THEN Power[x] ELSE 0]
    OBVIOUS
  <2> HIDE DEF s, R
  <2>2. b \in R
    BY DEF R
  <2>3. QED  BY <1>2, <2>1, <2>2, SumOfOne
<1>5. s \in Splits(x, combat)
  <2> HIDE DEF s
  <2> QED  BY <1>3, <1>4 DEF Splits
<1>6. QED  BY <1>5

-----------------------------------------------------------------------------
(* The theorems *)

\* The inductive invariant holds at every rule boundary of every game: whatever
\* step a departure or a wave of losses interrupts, advance goes on from a state
\* it could have reached without it.
THEOREM Invariance == Spec => []IInv
<1>1. Init => IInv
  BY InitIsSound
<1>2. IInv /\ [Next]_vars => IInv'
  BY NextKeeps
<1>3. QED  BY <1>1, <1>2, PTL DEF Spec

\* Every state has its type: a suspended frame names a real creature or player,
\* and cleanup never asks for more cards than the hand holds.
THEOREM TypeCorrect == Spec => []TypeOK
<1>1. IInv => TypeOK
  BY DEF IInv
<1>2. QED  BY <1>1, Invariance, PTL

\* Whatever departures meet, nothing of a player who left, and nothing that
\* player controlled, stays at the table or in combat (begin_departure).
THEOREM DepartedNeverHold == Spec => []DepartedHoldNothing
<1>1. IInv => DepartedHoldNothing
  BY DEF IInv
<1>2. QED  BY <1>1, Invariance, PTL

\* Nobody ever holds priority over a table that is not settled
\* (grant_turn_priority, stabilization_wave).
THEOREM PriorityStaysStable == Spec => []PriorityIsStable
<1>1. IInv => PriorityIsStable
  BY DEF IInv
<1>2. QED  BY <1>1, Invariance, PTL

\* Whoever the kernel waits for is at the table (decision_for).
THEOREM NobodyAbsentIsAsked == Spec => []AskedIsThere
<1>1. IInv => AskedIsThere
  <2> SUFFICES ASSUME IInv PROVE AskedIsThere
    OBVIOUS
  <2>1. frame \in Frames /\ live \in SUBSET Seat /\ owner \in Seat
    BY DEF IInv, TypeOK
  <2>2. ASSUME frame.kind \in DecisionFrames PROVE Asked \in live
    <3>1. ~Ended
      BY <2>2 DEF Ended, DecisionFrames
    <3>2. CASE frame.kind = "Priority"
      BY <3>1, <3>2, StillPlayed DEF Asked
    <3>3. CASE frame.kind = "Attackers"
      BY <3>1, <3>3, StillPlayed DEF Asked, IInv, FrameIsCurrent
    <3>4. CASE frame.kind = "Blockers"
      <4>1. frame.remaining \in (SUBSET Seat) \ {{}} /\ frame.remaining \subseteq live
        BY <2>1, <3>4, FrameFacts DEF IInv, FrameIsCurrent
      <4>2. NextLive(owner, frame.remaining) \in frame.remaining
        BY <2>1, <4>1, NextLiveIsLive
      <4>3. QED  BY <3>4, <4>1, <4>2 DEF Asked
    <3>5. CASE frame.kind = "DamageChoice"
      BY <2>1, <3>5, FrameFacts DEF Asked, IInv, FrameIsCurrent, DepartedHoldNothing
    <3>6. CASE frame.kind = "Discard"
      BY <3>6 DEF Asked, IInv, FrameIsCurrent
    <3>7. CASE frame.kind = "CommanderReturn"
      BY <3>7 DEF Asked, IInv, FrameIsCurrent
    <3>8. QED  BY <2>2, <3>2, <3>3, <3>4, <3>5, <3>6, <3>7 DEF DecisionFrames
  <2>3. frame.kind = "DamageChoice" => Cardinality(Recipients(combat, frame.source)) > 1
    BY DEF IInv, FrameIsCurrent
  <2>4. QED  BY <2>2, <2>3 DEF AskedIsThere
<1>2. QED  BY <1>1, Invariance, PTL

\* And whoever the kernel waits for has an answer it accepts, however many
\* creatures block and whatever damage is to be divided (validate_response,
\* validate_combat_response).
THEOREM EveryQuestionHasAnAnswer == Spec => []QuestionsCanBeAnswered
<1>1. IInv /\ AskedIsThere => QuestionsCanBeAnswered
  <2> SUFFICES ASSUME IInv, AskedIsThere, frame.kind \in DecisionFrames
               PROVE  Answers(Asked, frame, live, active, place, combat) # {}
    BY DEF QuestionsCanBeAnswered
  <2> DEFINE In(kind, data) == [player |-> Asked, kind |-> kind, data |-> data]
  <2>1. frame \in Frames /\ TypeOK
    BY DEF IInv, TypeOK
  <2>2. CASE frame.kind = "Priority"
    <3>1. In("Pass", None) \in Answers(Asked, frame, live, active, place, combat)
      BY <2>2 DEF Answers
    <3>2. QED  BY <3>1
  <2>3. CASE frame.kind = "Attackers"
    <3> DEFINE able == (Fielded(place, Asked) \ tapped) \cap ready
               none == [y \in {} |-> y]
    <3>1. none \in [{} -> live \ {Asked}] /\ {} \in SUBSET able
      OBVIOUS
    <3> HIDE DEF none, able, In
    <3>2. In("Attackers", none) \in {In("Attackers", d) : d \in [{} -> live \ {Asked}]}
      BY <3>1
    <3>3. {In("Attackers", d) : d \in [{} -> live \ {Asked}]}
             \in {{In("Attackers", d) : d \in [A -> live \ {Asked}]} : A \in SUBSET able}
      BY <3>1
    <3>4. In("Attackers", none) \in UNION {{In("Attackers", d) : d \in [A -> live \ {Asked}]} : A \in SUBSET able}
      BY <3>2, <3>3
    <3>5. QED  BY <2>3, <3>4 DEF Answers, In, able
  <2>4. CASE frame.kind = "Blockers"
    <3> DEFINE able == Fielded(place, Asked) \ tapped
               mine == {x \in DOMAIN combat : combat[x].defender = Asked}
               none == [y \in {} |-> y]
    <3>1. none \in [{} -> mine] /\ {} \in SUBSET able
      OBVIOUS
    <3> HIDE DEF none, able, mine, In
    <3>2. In("Blockers", none) \in {In("Blockers", d) : d \in [{} -> mine]}
      BY <3>1
    <3>3. {In("Blockers", d) : d \in [{} -> mine]}
             \in {{In("Blockers", d) : d \in [B -> mine]} : B \in SUBSET able}
      BY <3>1
    <3>4. In("Blockers", none) \in UNION {{In("Blockers", d) : d \in [B -> mine]} : B \in SUBSET able}
      BY <3>2, <3>3
    <3>5. QED  BY <2>4, <3>4 DEF Answers, In, able, mine
  <2>5. CASE frame.kind = "DamageChoice"
    <3>1. frame.source \in Creatures
      BY <2>1, <2>5, FrameFacts
    <3>2. Recipients(combat, frame.source) # {}
      <4>1. Cardinality(Recipients(combat, frame.source)) > 1
        BY <2>5 DEF AskedIsThere
      <4>2. Cardinality({}) = 0
        BY FS_EmptySet
      <4>3. QED  BY <4>1, <4>2
    <3>3. Splits(frame.source, combat) # {}
      BY <2>1, <3>1, <3>2, DamageCanBeDivided
    <3>4. Answers(Asked, frame, live, active, place, combat)
             = {In("Damage", s) : s \in Splits(frame.source, combat)}
      BY <2>5 DEF Answers
    <3>5. QED  BY <3>3, <3>4
  <2>6. CASE frame.kind = "Discard"
    BY <2>6 DEF Answers
  <2>7. CASE frame.kind = "CommanderReturn"
    <3>1. Answers(Asked, frame, live, active, place, combat) = {In("CommanderReturn", d) : d \in BOOLEAN}
      BY <2>7 DEF Answers
    <3>2. In("CommanderReturn", TRUE) \in {In("CommanderReturn", d) : d \in BOOLEAN}
      OBVIOUS
    <3>3. QED  BY <3>1, <3>2
  <2>8. QED  BY <2>2, <2>3, <2>4, <2>5, <2>6, <2>7 DEF DecisionFrames
<1>2. QED  BY <1>1, Invariance, NobodyAbsentIsAsked, PTL
=============================================================================
