---------------------------- MODULE PriorityStack ----------------------------
(***************************************************************************)
(* The scenario kernel of packages/game-engine/crates/core in the profiles *)
(* without turns (land_return, casting_reversal, stack_response): players  *)
(* pass priority around the table, cast spells in several stages, tap      *)
(* lands for mana, reverse a cast they cannot pay for, and may leave the   *)
(* game between any two rule steps.                                        *)
(*                                                                         *)
(* Three kinds of step interleave.  Submit is Game::respond: the asked     *)
(* player's answer is validated and parked in `pending'.  Concede is       *)
(* Game::concede: a departure is queued.  The rest are the iterations of   *)
(* Game::advance: each applies one rule step, a queued departure before    *)
(* anything else, or faults and keeps the state it started from.           *)
(*                                                                         *)
(* Abstractions.  The stack is the set of its instances, ordered by the    *)
(* StackId the code gives them; a card is named by itself, since in these  *)
(* profiles no card returns to a zone it has left except by the reversal   *)
(* of its own casting, so an incarnation adds nothing to the zone.  The    *)
(* only spell program of the closed card pool returns one target creature  *)
(* to its owner's hand and costs one mana of colour Cost.  No control      *)
(* effect exists outside the tests, so a permanent keeps its default       *)
(* controller.  Knowledge, trace, journal and the revision counter are     *)
(* left out: checking and submitting an answer is one step here because    *)
(* the receipt is void once anything else has changed the state.           *)
(***************************************************************************)
EXTENDS Integers, FiniteSets, Sequences

CONSTANTS
    N,           \* seats around the table; the code fixes four
    Lands, Spells, Creatures,
    Owner,       \* the physical owner of each card
    Controller,  \* the default controller of each permanent
    Colours, Produces, Cost,
    MaxStack,    \* how many spells the code lets wait on the stack
    None

Seat == 0 .. N - 1
Card == Lands \cup Spells \cup Creatures

ASSUME SeatAssumption == N \in Nat \ {0, 1}
ASSUME CardAssumption ==
    /\ IsFiniteSet(Lands) /\ IsFiniteSet(Spells)
    /\ Lands \cap Spells = {} /\ Lands \cap Creatures = {} /\ Spells \cap Creatures = {}
    /\ Owner \in [Card -> Seat]
    /\ Controller \in [Lands \cup Creatures -> Seat]
ASSUME ManaAssumption == Produces \in [Lands -> Colours] /\ Cost \in Colours
ASSUME StackAssumption == MaxStack \in Nat \ {0}
ASSUME NoneAssumption == None \notin Seat /\ None \notin Card

VARIABLES
    live,         \* seats whose player has not left
    active,       \* the player whose turn it is, None once that player left
    priority, passes,
    zone, tapped, mana,
    stack,        \* the set of StackInstances; StackId order is stack order
    frame,        \* the Frame tag
    cast,         \* Frame::{Targets, Mana, Payment}'s Casting
    resolving,    \* Frame::Resolve's Resolving
    pending,      \* the accepted input that no rule step has applied yet
    concessions   \* departures queued and not applied yet

table == <<zone, tapped, mana, stack>>
vars == <<live, active, priority, passes, zone, tapped, mana, stack, frame,
          cast, resolving, pending, concessions>>

-----------------------------------------------------------------------------
(* Types *)

Zones == {"hand", "battlefield", "stack", "graveyard", "exile", "gone"}
CastFrames == {"Targets", "Mana", "Payment"}
Frames == {"Priority", "Resolve", "Fault", "Finished"} \cup CastFrames
StackInstance == [id : Nat, card : Spells, target : Creatures \cup {None}, paid : BOOLEAN]
Casting == [source : Spells \cup {None}, prior : SUBSET Seat,
            activated : SUBSET Lands, undo : BOOLEAN]
Resolving == [spell : StackInstance, legal : BOOLEAN, cursor : 0 .. 1]
Input == [player : Seat, kind : {"Pass", "ActivateMana", "Cast", "Targets", "FinishMana"},
          card : Card \cup {None}, undo : BOOLEAN]

NoCast == [source |-> None, prior |-> {}, activated |-> {}, undo |-> FALSE]
NoResolving == [spell |-> None, legal |-> FALSE, cursor |-> 0]
NoInput == [player |-> None, kind |-> "None", card |-> None, undo |-> FALSE]

TypeOK ==
    /\ live \in SUBSET Seat
    /\ active \in Seat \cup {None}
    /\ priority \in Seat
    /\ passes \in SUBSET Seat
    /\ zone \in [Card -> Zones]
    /\ tapped \in SUBSET Lands
    /\ mana \in [Seat -> [Colours -> Nat]]
    /\ stack \in SUBSET StackInstance
    /\ frame \in Frames
    /\ cast \in Casting
    /\ resolving \in Resolving \cup {NoResolving}
    /\ pending \in Input \cup {NoInput}
    /\ concessions \in Seq(Seat)

-----------------------------------------------------------------------------
(* Seating, the stack and who is asked *)

\* How many seats clockwise of a the seat p sits; a itself comes last.
Ahead(a, p) == IF p > a THEN p - a ELSE p - a + N

NextLive(a, L) == CHOOSE p \in L : \A q \in L : Ahead(a, p) <= Ahead(a, q)

TopOf(st) == CHOOSE s \in st : \A t \in st : t.id <= s.id
Top == TopOf(stack)
NextStackId == IF stack = {} THEN 0 ELSE Top.id + 1

Legal(c, z) == c \in Creatures /\ z[c] = "battlefield"
SomeLegal(z) == \E c \in Creatures : Legal(c, z)

Ended == frame \in {"Fault", "Finished"}
Drained == concessions = <<>>

\* The responses a decision frame knows how to apply.
Answers == [Priority |-> {"Pass", "ActivateMana", "Cast"},
            Targets |-> {"Targets"},
            Mana |-> {"ActivateMana", "FinishMana"}]

\* Game::decision_for: whose answer the frame waits for.
Asked == IF frame = "Priority" THEN priority ELSE Owner[Top.card]
AwaitsDecision ==
    /\ pending = NoInput /\ Drained
    /\ frame \in DOMAIN Answers
    /\ Asked \in live

-----------------------------------------------------------------------------
(* Validation, over an explicit state: a departure validates against the   *)
(* state it is about to leave behind.                                      *)

CanActivate(p, l, z, t) ==
    /\ l \in Lands \ t /\ z[l] = "battlefield"
    /\ Controller[l] = p

CanCast(p, c, z, st) ==
    /\ c \in Spells /\ z[c] = "hand" /\ Owner[c] = p
    /\ Cardinality(st) < MaxStack
    /\ SomeLegal(z)

\* Game::validate_response in frame fr with priority pr.
Valid(in, fr, pr, z, t, st) ==
    LET p == in.player IN
    \/ /\ fr = "Priority" /\ p = pr
       /\ \/ in.kind = "Pass"
          \/ in.kind = "ActivateMana" /\ CanActivate(p, in.card, z, t)
          \/ in.kind = "Cast" /\ CanCast(p, in.card, z, st)
    \/ /\ fr = "Targets" /\ p = Owner[TopOf(st).card]
       /\ in.kind = "Targets" /\ Legal(in.card, z)
    \/ /\ fr = "Mana" /\ p = Owner[TopOf(st).card]
       /\ \/ in.kind = "ActivateMana" /\ CanActivate(p, in.card, z, t)
          \/ in.kind = "FinishMana"

-----------------------------------------------------------------------------
(* Inputs *)

Submit ==
    /\ AwaitsDecision
    /\ \E kind \in Answers[frame],
          card \in Card \cup {None}, undo \in BOOLEAN :
         LET in == [player |-> Asked, kind |-> kind, card |-> card, undo |-> undo] IN
         /\ (kind \in {"Pass", "FinishMana"}) <=> (card = None)
         /\ undo => kind = "FinishMana"
         /\ Valid(in, frame, priority, zone, tapped, stack)
         /\ pending' = in
    /\ UNCHANGED <<live, active, priority, passes, table, frame, cast, resolving, concessions>>

\* Mutant: the last player at the table may concede too.
ConcedeOffByOne(p) ==
    /\ ~Ended
    /\ p \in live
    /\ p \notin {concessions[i] : i \in DOMAIN concessions}
    /\ Cardinality(live) - Len(concessions) > 0
    /\ concessions' = Append(concessions, p)
    /\ UNCHANGED <<live, active, priority, passes, table, frame, cast, resolving, pending>>

Concede(p) ==
    /\ ~Ended
    /\ p \in live
    /\ p \notin {concessions[i] : i \in DOMAIN concessions}
    /\ Cardinality(live) - Len(concessions) > 1
    /\ concessions' = Append(concessions, p)
    /\ UNCHANGED <<live, active, priority, passes, table, frame, cast, resolving, pending>>

-----------------------------------------------------------------------------
(* Rule steps with no departure waiting *)

Applies(stage, kind) == Drained /\ frame = stage /\ pending.kind = kind

Tap(l) ==
    /\ tapped' = tapped \cup {l}
    /\ mana' = [mana EXCEPT ![pending.player][Produces[l]] = @ + 1]

\* Mutant: tapping a land does not interrupt the round of passes.
ActivateManaKeepsRound ==
    /\ Applies("Priority", "ActivateMana")
    /\ CanActivate(pending.player, pending.card, zone, tapped)
    /\ Tap(pending.card)
    /\ pending' = NoInput
    /\ UNCHANGED <<live, active, priority, passes, zone, stack, frame, cast, resolving, concessions>>

ActivateMana ==
    /\ Applies("Priority", "ActivateMana")
    /\ CanActivate(pending.player, pending.card, zone, tapped)
    /\ Tap(pending.card)
    /\ passes' = {}
    /\ pending' = NoInput
    /\ UNCHANGED <<live, active, priority, zone, stack, frame, cast, resolving, concessions>>

Cast ==
    /\ Applies("Priority", "Cast")
    /\ zone' = [zone EXCEPT ![pending.card] = "stack"]
    /\ stack' = stack \cup {[id |-> NextStackId, card |-> pending.card,
                             target |-> None, paid |-> FALSE]}
    /\ cast' = [source |-> pending.card, prior |-> passes, activated |-> {}, undo |-> FALSE]
    /\ passes' = {}
    /\ frame' = "Targets"
    /\ pending' = NoInput
    /\ UNCHANGED <<live, active, priority, tapped, mana, resolving, concessions>>

\* Mutant: the oldest instance resolves instead of the top one.
BeginResolutionOldest(st, z) ==
    LET bottom == CHOOSE s \in st : \A t \in st : s.id <= t.id IN
    /\ passes' = {}
    /\ frame' = "Resolve"
    /\ resolving' = [spell |-> bottom, legal |-> Legal(bottom.target, z), cursor |-> 0]

\* Game::begin_resolution: freeze the top instance and the legality of its target.
BeginResolution(st, z) ==
    /\ passes' = {}
    /\ frame' = "Resolve"
    /\ resolving' = [spell |-> TopOf(st), legal |-> Legal(TopOf(st).target, z), cursor |-> 0]

\* Game::all_live_passed
AllPassed(pa, L) == L \subseteq pa

Pass ==
    /\ Applies("Priority", "Pass")
    /\ LET pa == passes \cup {pending.player} IN
       IF AllPassed(pa, live)
       THEN /\ stack # {}
            /\ BeginResolution(stack, zone)
            /\ UNCHANGED priority
       ELSE /\ passes' = pa
            /\ priority' = NextLive(pending.player, live)
            /\ UNCHANGED <<frame, resolving>>
    /\ pending' = NoInput
    /\ UNCHANGED <<live, active, table, cast, concessions>>

ChooseTargets ==
    /\ Applies("Targets", "Targets")
    /\ stack' = (stack \ {Top}) \cup {[Top EXCEPT !.target = pending.card]}
    /\ frame' = "Mana"
    /\ pending' = NoInput
    /\ UNCHANGED <<live, active, priority, passes, zone, tapped, mana, cast, resolving, concessions>>

ActivateWhileCasting ==
    /\ Applies("Mana", "ActivateMana")
    /\ CanActivate(pending.player, pending.card, zone, tapped)
    /\ Tap(pending.card)
    /\ cast' = [cast EXCEPT !.activated = @ \cup {pending.card}]
    /\ pending' = NoInput
    /\ UNCHANGED <<live, active, priority, passes, zone, stack, frame, resolving, concessions>>

FinishMana ==
    /\ Applies("Mana", "FinishMana")
    /\ cast' = [cast EXCEPT !.undo = pending.undo]
    /\ frame' = "Payment"
    /\ pending' = NoInput
    /\ UNCHANGED <<live, active, priority, passes, table, resolving, concessions>>

-----------------------------------------------------------------------------
(* Paying for the spell on top, or taking its casting back *)

\* Mutant: an empty pool pays.
PayableOffByOne == mana[Owner[Top.card]][Cost] >= 0

Payable == mana[Owner[Top.card]][Cost] >= 1

Pay ==
    /\ Drained /\ frame = "Payment" /\ Payable
    /\ mana' = [mana EXCEPT ![Owner[Top.card]][Cost] = @ - 1]
    /\ stack' = (stack \ {Top}) \cup {[Top EXCEPT !.paid = TRUE]}
    /\ priority' = Owner[Top.card]
    /\ frame' = "Priority"
    /\ cast' = NoCast
    /\ UNCHANGED <<live, active, passes, zone, tapped, resolving, pending, concessions>>

ActivatedOf(k) == Cardinality({l \in cast.activated : Produces[l] = k})

\* Game::reverse_cast, from a state whose zones, taps and stack are z, t and st
\* and whose live players are L.
ReversalFails(undo, z, t, st, L) ==
    LET p == Owner[cast.source] IN
    \/ TopOf(st).card # cast.source
    \/ p \notin L
    \/ undo /\ \E l \in cast.activated :
         \/ Owner[l] \in L /\ ~(z[l] = "battlefield" /\ l \in t)
         \/ mana[p][Produces[l]] < ActivatedOf(Produces[l])

\* Mutant: a cast that tapped nothing restarts the round too.
RestoredPassesIfUndone(undo, L) == IF undo THEN cast.prior \cap L ELSE {}

RestoredPasses(undo, L) ==
    IF undo \/ cast.activated = {} THEN cast.prior \cap L ELSE {}

\* Mutant: the lands are untapped, their mana stays.
ReverseCastKeepsMana(undo, z, t, st) ==
    /\ UNCHANGED mana
    /\ tapped' = IF undo THEN t \ cast.activated ELSE t
    /\ stack' = st \ {TopOf(st)}
    /\ zone' = [z EXCEPT ![cast.source] = "hand"]
    /\ cast' = NoCast

ReverseCast(undo, z, t, st) ==
    LET p == Owner[cast.source] IN
    /\ IF undo
       THEN /\ mana' = [mana EXCEPT ![p] = [k \in Colours |-> @[k] - ActivatedOf(k)]]
            /\ tapped' = t \ cast.activated
       ELSE mana' = mana /\ tapped' = t
    /\ stack' = st \ {TopOf(st)}
    /\ zone' = [z EXCEPT ![cast.source] = "hand"]
    /\ cast' = NoCast

CannotPay ==
    /\ Drained /\ frame = "Payment" /\ ~Payable
    /\ ~ReversalFails(cast.undo, zone, tapped, stack, live)
    /\ ReverseCast(cast.undo, zone, tapped, stack)
    /\ passes' = RestoredPasses(cast.undo, live)
    /\ priority' = Owner[cast.source]
    /\ frame' = "Priority"
    /\ pending' = NoInput
    /\ UNCHANGED <<live, active, resolving, concessions>>

-----------------------------------------------------------------------------
(* Resolving the frozen instance; its source may have left with its owner *)

SourcePresent == zone[resolving.spell.card] = "stack"

\* Mutant: a target that left keeps the instruction from being counted.
ReturnTargetWaits ==
    /\ Drained /\ frame = "Resolve" /\ resolving.legal /\ resolving.cursor = 0
    /\ IF Legal(resolving.spell.target, zone)
       THEN /\ zone' = [zone EXCEPT ![resolving.spell.target] = "hand"]
            /\ resolving' = [resolving EXCEPT !.cursor = 1]
       ELSE UNCHANGED <<zone, resolving>>
    /\ UNCHANGED <<live, active, priority, passes, tapped, mana, stack, frame, cast,
                   pending, concessions>>

ReturnTarget ==
    /\ Drained /\ frame = "Resolve" /\ resolving.legal /\ resolving.cursor = 0
    /\ zone' = IF Legal(resolving.spell.target, zone)
               THEN [zone EXCEPT ![resolving.spell.target] = "hand"]
               ELSE zone
    /\ resolving' = [resolving EXCEPT !.cursor = 1]
    /\ UNCHANGED <<live, active, priority, passes, tapped, mana, stack, frame, cast,
                   pending, concessions>>

\* Mutant: a departed owner's spell must still be on top to complete.
CompletionFailsAlways == IF stack = {} THEN TRUE ELSE Top # resolving.spell

CompletionFails ==
    LET s == resolving.spell IN
    IF SourcePresent THEN Top # s
    ELSE Owner[s.card] \in live \/ \E t \in stack : t.id = s.id

FinishSpell ==
    /\ Drained /\ frame = "Resolve"
    /\ resolving.legal => resolving.cursor = 1
    /\ ~CompletionFails
    /\ IF SourcePresent
       THEN /\ zone' = [zone EXCEPT ![resolving.spell.card] = "graveyard"]
            /\ stack' = stack \ {Top}
       ELSE UNCHANGED <<zone, stack>>
    /\ frame' = "Priority"
    /\ resolving' = NoResolving
    /\ priority' = IF active # None THEN active ELSE NextLive(0, live)
    /\ UNCHANGED <<live, active, passes, tapped, mana, cast, pending, concessions>>

-----------------------------------------------------------------------------
(* Game::apply_departure of the first queued player *)

Leaver == Head(concessions)
Staying == live \ {Leaver}

\* Owned cards leave the game; a permanent whose controller is gone is exiled.
ZoneLeft ==
    [c \in Card |->
        IF Owner[c] = Leaver THEN "gone"
        ELSE IF zone[c] = "battlefield" /\ Controller[c] \notin Staying THEN "exile"
        ELSE zone[c]]
TappedLeft == {l \in tapped : ZoneLeft[l] = "battlefield"}
StackLeft == {s \in stack : ZoneLeft[s.card] = "stack"}
\* Mutant: priority restarts from the first seat.
PriorityLeftFirst == IF priority = Leaver THEN NextLive(0, Staying) ELSE priority

PriorityLeft == IF priority = Leaver THEN NextLive(Leaver, Staying) ELSE priority
PendingLeft == IF pending.player = Leaver THEN NoInput ELSE pending

CastLost == frame \in CastFrames /\ ZoneLeft[cast.source] # "stack"

\* Mutant: a cast that has no target left to choose is kept.
CastSpoiledLate ==
    /\ frame \in CastFrames /\ ~CastLost
    /\ \/ TopOf(StackLeft).target # None /\ ~Legal(TopOf(StackLeft).target, ZoneLeft)
       \/ PendingLeft.kind = "Targets" /\ ~Legal(PendingLeft.card, ZoneLeft)

\* The cast survives but its announced, accepted or only possible target does not.
CastSpoiled ==
    /\ frame \in CastFrames /\ ~CastLost
    /\ \/ TopOf(StackLeft).target # None /\ ~Legal(TopOf(StackLeft).target, ZoneLeft)
       \/ PendingLeft.kind = "Targets" /\ ~Legal(PendingLeft.card, ZoneLeft)
       \/ ~SomeLegal(ZoneLeft)

\* Mutant: the frame of a cast whose spell left is not discarded.
FrameLeftUnfinished == IF CastSpoiled THEN "Priority" ELSE frame

\* The frame, input and passes that the departure leaves before the round is settled.
FrameLeft == IF CastLost \/ CastSpoiled THEN "Priority" ELSE frame

\* Mutant: an accepted input survives every departure but its player's.
InputLeftUnchecked == IF CastLost \/ CastSpoiled THEN NoInput ELSE PendingLeft

InputLeft ==
    IF CastLost \/ CastSpoiled THEN NoInput
    ELSE IF /\ FrameLeft \in {"Priority", "Mana"} /\ PendingLeft # NoInput
            /\ ~Valid(PendingLeft, FrameLeft, PriorityLeft, ZoneLeft, TappedLeft, StackLeft)
         THEN NoInput
         ELSE PendingLeft
\* Mutant: the departed's pass still counts.
PassesLeftAll ==
    IF CastLost THEN RestoredPasses(FALSE, Staying)
    ELSE IF CastSpoiled THEN RestoredPasses(TRUE, Staying)
    ELSE passes

PassesLeft ==
    IF CastLost THEN RestoredPasses(FALSE, Staying)
    ELSE IF CastSpoiled THEN RestoredPasses(TRUE, Staying)
    ELSE passes \cap Staying

LastOneStanding == Cardinality(Staying) = 1

\* What is left of the stack once a spoiled cast is off it.
StackSettled == IF CastSpoiled THEN StackLeft \ {TopOf(StackLeft)} ELSE StackLeft

RoundEnds ==
    /\ FrameLeft = "Priority" /\ InputLeft = NoInput
    /\ Tail(concessions) = <<>>
    /\ AllPassed(PassesLeft, Staying)

DepartureFails ==
    /\ ~LastOneStanding
    /\ \/ CastSpoiled /\ ReversalFails(TRUE, ZoneLeft, TappedLeft, StackLeft, Staying)
       \/ RoundEnds /\ StackSettled = {}

Departs ==
    /\ ~Ended /\ ~Drained
    /\ ~DepartureFails
    /\ live' = Staying
    /\ active' = IF active = Leaver THEN None ELSE active
    /\ concessions' = Tail(concessions)

LastDeparture ==
    /\ Departs /\ LastOneStanding
    /\ zone' = ZoneLeft /\ tapped' = TappedLeft /\ stack' = StackLeft
    /\ passes' = passes \cap Staying
    /\ priority' \in Staying
    /\ frame' = "Finished"
    /\ pending' = NoInput
    /\ cast' = NoCast /\ resolving' = NoResolving
    /\ UNCHANGED mana

Departure ==
    /\ Departs /\ ~LastOneStanding
    /\ IF CastSpoiled
       THEN ReverseCast(TRUE, ZoneLeft, TappedLeft, StackLeft)
       ELSE /\ zone' = ZoneLeft /\ tapped' = TappedLeft /\ stack' = StackLeft
            /\ cast' = IF CastLost THEN NoCast ELSE cast
            /\ UNCHANGED mana
    /\ priority' = IF CastSpoiled THEN Owner[cast.source] ELSE PriorityLeft
    /\ pending' = InputLeft
    /\ IF RoundEnds
       THEN BeginResolution(StackSettled, ZoneLeft)
       ELSE /\ frame' = FrameLeft
            /\ passes' = PassesLeft
            /\ UNCHANGED resolving

-----------------------------------------------------------------------------
(* A rule step that returns an error: the state it began from stays, faulted *)

StepFails ==
    IF ~Drained THEN DepartureFails
    ELSE CASE frame \in DOMAIN Answers ->
                \/ pending.kind \notin Answers[frame]
                \/ /\ pending.kind = "ActivateMana"
                   /\ ~CanActivate(pending.player, pending.card, zone, tapped)
                \/ /\ pending.kind = "Pass" /\ stack = {}
                   /\ AllPassed(passes \cup {pending.player}, live)
           [] frame = "Payment" ->
                ~Payable /\ ReversalFails(cast.undo, zone, tapped, stack, live)
           [] frame = "Resolve" ->
                (resolving.legal => resolving.cursor = 1) /\ CompletionFails

Fault ==
    /\ ~Ended /\ ~AwaitsDecision
    /\ StepFails
    /\ frame' = "Fault"
    /\ cast' = NoCast /\ resolving' = NoResolving
    /\ UNCHANGED <<live, active, priority, passes, table, pending, concessions>>

Advance ==
    \/ ActivateMana \/ Cast \/ Pass \/ ChooseTargets \/ ActivateWhileCasting \/ FinishMana
    \/ Pay \/ CannotPay \/ ReturnTarget \/ FinishSpell
    \/ Departure \/ LastDeparture
    \/ Fault

Init ==
    /\ live = Seat /\ active = 0
    /\ priority = 0 /\ passes = {}
    /\ zone = [c \in Card |-> IF c \in Spells THEN "hand" ELSE "battlefield"]
    /\ tapped = {}
    /\ mana = [p \in Seat |-> [k \in Colours |-> 0]]
    /\ stack = {}
    /\ frame = "Priority" /\ cast = NoCast /\ resolving = NoResolving
    /\ pending = NoInput /\ concessions = <<>>

Next == Submit \/ (\E p \in Seat : Concede(p)) \/ Advance

Spec == Init /\ [][Next]_vars

\* The host keeps calling Game::advance until it returns; nothing obliges a
\* player to answer or to concede.
FairSpec == Spec /\ WF_vars(Advance)

-----------------------------------------------------------------------------
(* Game::validate_state: what Game::restore demands of a snapshot          *)

ValidSeating ==
    /\ priority \in live
    /\ active \in live \cup {None}
    /\ passes \subseteq live
    /\ Cardinality(stack) <= MaxStack

ValidObjects ==
    /\ \A c \in Card :
         /\ zone[c] = "gone" <=> Owner[c] \notin live
         /\ zone[c] = "battlefield" => Controller[c] \in live
    /\ \A l \in tapped : zone[l] = "battlefield"

ValidStack ==
    /\ \A s, t \in stack : s.id = t.id \/ s.card = t.card => s = t
    /\ \A s \in stack :
         /\ Owner[s.card] \in live /\ zone[s.card] = "stack"
         /\ \/ s = Top /\ frame \in CastFrames
            \/ s = Top /\ frame \in {"Finished", "Fault"} /\ ~s.paid
            \/ s.target # None /\ s.paid
    /\ \A c \in Card : zone[c] = "stack" => \E s \in stack : s.card = c

ValidFrame ==
    /\ frame \in CastFrames =>
         /\ stack # {}
         /\ cast.source = Top.card /\ ~Top.paid
         /\ \A l \in cast.activated : Controller[l] = Owner[Top.card]
         /\ frame = "Targets" => cast.activated = {} /\ ~cast.undo /\ Top.target = None
         /\ frame = "Mana" => ~cast.undo
         /\ frame \in {"Mana", "Payment"} => Top.target # None
    /\ frame = "Resolve" =>
         LET s == resolving.spell IN
         /\ s.target # None /\ s.paid
         /\ IF zone[s.card] = "stack"
            THEN Top = s
            ELSE Owner[s.card] \notin live /\ \A t \in stack : t.id # s.id

ValidPending ==
    pending # NoInput /\ frame # "Fault" =>
        Valid(pending, frame, priority, zone, tapped, stack)

ValidState == ValidSeating /\ ValidObjects /\ ValidStack /\ ValidFrame /\ ValidPending

-----------------------------------------------------------------------------
(* What must hold between any two rule steps                               *)

Queued == {concessions[i] : i \in DOMAIN concessions}

\* A player who has left holds nothing any more: no priority, turn, pass, input
\* or queued departure, no card anywhere and no permanent under their control,
\* whatever the kernel was in the middle of (validate_state, finish_departure).
DepartedHoldNothing ==
    /\ priority \in live
    /\ active \in live \cup {None}
    /\ passes \subseteq live
    /\ Queued \subseteq live
    /\ pending # NoInput => pending.player \in live
    /\ \A c \in Card :
         /\ zone[c] = "gone" <=> Owner[c] \notin live
         /\ zone[c] = "battlefield" => c \notin Spells /\ Controller[c] \in live

\* The stack and the zones agree card by card, StackIds and sources are unique,
\* and nothing but the spell being cast now is on the stack unpaid or untargeted
\* (validate_state: "stack/zone", "stack identity", "lower/top cast").
StackMatchesZones ==
    /\ {s.card : s \in stack} = {c \in Card : zone[c] = "stack"}
    /\ \A s, t \in stack : s.id = t.id \/ s.card = t.card => s = t
    /\ Cardinality(stack) <= MaxStack
    /\ \A s \in stack : \/ s.paid /\ s.target # None
                        \/ s = Top /\ ~s.paid /\ frame \in CastFrames \cup {"Fault", "Finished"}

\* An unfinished cast is the top of the stack and belongs to the player with
\* priority, its announced target is still legal, and every land tapped for it
\* is still there to be untapped unless its owner left.
CastingIsOnTop ==
    IF frame \in CastFrames
    THEN /\ stack # {} /\ Top.card = cast.source /\ ~Top.paid
         /\ Owner[cast.source] = priority
         /\ IF frame = "Targets" THEN Top.target = None /\ cast.activated = {}
                                 ELSE Legal(Top.target, zone)
         /\ \A l \in cast.activated :
              /\ Controller[l] = priority
              /\ Owner[l] \in live => zone[l] = "battlefield" /\ l \in tapped
    ELSE cast = NoCast

\* The instance being resolved is the top of the stack, or its owner left and
\* the stack holds no trace of it: no departure makes the kernel finish another
\* spell than the one it began to resolve.
ResolvingIsFrozenTop ==
    IF frame = "Resolve"
    THEN /\ resolving \in Resolving /\ resolving.spell.paid
         /\ ~CompletionFails
    ELSE resolving = NoResolving

\* The stack survives whatever a departure meets (begin_departure, reverse_cast,
\* finish_spell): no instance without its card, no cast below another, and no
\* other spell finished than the one that began to resolve.
StackIsWhole == StackMatchesZones /\ CastingIsOnTop /\ ResolvingIsFrozenTop

\* An accepted answer that no rule step has applied is still a valid answer to
\* the frame it waits in, although departures may have been applied since it was
\* validated (validate_state's last check; a stale one would fault the game).
PendingStillValid ==
    pending # NoInput /\ frame # "Fault" =>
        /\ frame \in DOMAIN Answers
        /\ Valid(pending, frame, priority, zone, tapped, stack)

\* How far clockwise from a the seat p sits; a itself is at 0.
Turn(a, p) == IF p >= a THEN p - a ELSE p - a + N

\* The players who have passed are the last ones in turn order before a.
PassedInTurn(a, pa) ==
    /\ a \notin pa
    /\ \A p \in pa, q \in live : Turn(a, q) > Turn(a, p) => q \in pa

\* Priority goes round: whoever is asked has not passed yet in this round, and
\* everyone between the first who passed and the asked one has passed, also after
\* a reversed cast restores an earlier round and after any departure.  Only while
\* more departures are queued may a finished round still wait.
PassesGoRound ==
    /\ frame = "Priority" =>
         \/ PassedInTurn(priority, passes)
         \/ ~Drained /\ pending = NoInput /\ live \subseteq passes
    /\ frame \in CastFrames => PassedInTurn(priority, cast.prior \cap live)
    /\ frame \in CastFrames \cup {"Resolve"} => passes = {}

\* Every mana in a pool comes from a land tapped and not untapped again by a
\* reversal, and has not paid for a spell: activation, payment, reversal with
\* and without undo and departures neither mint nor lose mana.
TappedFor(p, k) == {l \in tapped : Controller[l] = p /\ Produces[l] = k}
PaidBy(p) == {c \in Spells : /\ Owner[c] = p
                             /\ \/ zone[c] = "graveyard"
                                \/ \E s \in stack : s.card = c /\ s.paid}
ManaAccounted ==
    \A p \in live, k \in Colours :
        mana[p][k] = Cardinality(TappedFor(p, k)) - (IF k = Cost THEN Cardinality(PaidBy(p)) ELSE 0)

\* The last pass of a round, or the departure of the last who had not passed,
\* with nothing on the stack to resolve.
RoundEndsEmpty ==
    IF Drained
    THEN /\ frame = "Priority" /\ pending.kind = "Pass"
         /\ stack = {} /\ AllPassed(passes \cup {pending.player}, live)
    ELSE /\ RoundEnds /\ StackSettled = {}
         /\ CastSpoiled => ~ReversalFails(TRUE, ZoneLeft, TappedLeft, StackLeft, Staying)

\* Fault is enabled only where the profile ends: at a round of passes that leaves
\* an empty stack to resolve (stack_tests.rs, unsupported_empty_stack_transition).
\* No interleaving of casts, answers and departures makes another rule step fail:
\* no answer went stale, no mana activation is refused, no reversal lacks a land or
\* its mana, and no completion misses its spell.
FaultsOnlyOnEmptyStack == ~Ended /\ ~AwaitsDecision /\ StepFails => RoundEndsEmpty

\* The game never waits for nobody: with nothing accepted and nothing queued the
\* asked player is there and has an answer the kernel accepts.
SomeoneCanAnswer ==
    ~Ended /\ pending = NoInput /\ Drained /\ frame \in DOMAIN Answers =>
        /\ Asked \in live
        /\ \E kind \in Answers[frame], card \in Card \cup {None} :
             Valid([player |-> Asked, kind |-> kind, card |-> card, undo |-> FALSE],
                   frame, priority, zone, tapped, stack)

\* A snapshot taken at any boundary is accepted by Game::restore, also with
\* departures queued, an input accepted, a spell half cast or half resolved, and
\* after a fault (recovery.rs and stack_tests.rs restore at every boundary).
EveryStateRestores == ValidState

\* Game::advance returns: automatic work always comes to a decision or an end.
Returned == Ended \/ AwaitsDecision
AdvanceReturns == ~Returned ~> Returned

\* A queued departure is applied, unless the game faults first.
DeparturesHappen == \A p \in Seat : (p \in Queued) ~> (p \notin live \/ frame = "Fault")
=============================================================================
