----------------------------- MODULE TurnCombat -----------------------------
(***************************************************************************)
(* Turns, combat, state-based losses and commander returns in the kernel's *)
(* combat profiles (packages/game-engine/crates/core/src/engine: turns.rs, *)
(* combat.rs, commander.rs and the departures of multiplayer.rs).          *)
(*                                                                         *)
(* As in PriorityStack three kinds of step interleave: Submit parks the    *)
(* asked player's answer, Concede queues a departure, and the others are   *)
(* the rule steps of Game::advance, queued departures first.  What is new  *)
(* is that most of the frames are automatic, that a departure has to find  *)
(* its way back into whichever frame it met, and that several players may  *)
(* lose in one rule step.                                                  *)
(*                                                                         *)
(* Abstractions.  Nobody casts: spells and mana are PriorityStack's, and   *)
(* the stack stays empty here.  Every card in a hand or a library is a     *)
(* basic land, so hands and libraries are counted; a creature is named by  *)
(* itself.  The turn number is left out.  No control effect exists outside *)
(* the tests, so a permanent keeps its default controller.  Which of       *)
(* several attackers is asked about first follows the order in which the   *)
(* attacking player named them, and is left open.                          *)
(***************************************************************************)
EXTENDS Integers, FiniteSets, FiniteSetsExt, Sequences

CONSTANTS
    N,                        \* seats around the table; the code fixes four
    Creatures, Owner, Controller, Power, Toughness,
    Commander,                \* the designated creature, or None
    Life, Hand, Library,      \* each seat's at the start
    MaxHand,                  \* the hand size cleanup enforces; seven in the code
    None

Seat == 0 .. N - 1

ASSUME SeatAssumption == N \in Nat \ {0, 1}
ASSUME CreatureAssumption ==
    /\ IsFiniteSet(Creatures) /\ Commander \in Creatures \cup {None}
    /\ Owner \in [Creatures -> Seat] /\ Controller \in [Creatures -> Seat]
    /\ Power \in [Creatures -> Nat] /\ Toughness \in [Creatures -> Nat \ {0}]
ASSUME CardAssumption ==
    /\ Life \in [Seat -> Nat \ {0}] /\ Hand \in [Seat -> Nat] /\ Library \in [Seat -> Nat]
    /\ MaxHand \in Nat
ASSUME NoneAssumption == None \notin Seat /\ None \notin Creatures

VARIABLES
    live, active, priority, passes,
    owner,        \* turn_owner: whose turn it is, even after that player left
    step,         \* the TurnStep
    landPlayed,
    life,
    failed,       \* failed_draw: seats that drew from an empty library
    hand, library,
    place, tapped, ready, damage,  \* the creatures
    combat,       \* attacker |-> whom it attacks and what blocks it
    declared,     \* combat_declared: somebody attacked this combat
    choices,      \* damage_choices: attacker |-> how it splits its damage
    repeat,       \* cleanup_repeat
    returns,      \* commander_returns: fresh in a graveyard or in exile
    frame, pending, concessions

seats == <<live, active, priority, passes>>
turn == <<owner, step, landPlayed, repeat>>
cards == <<life, failed, hand, library>>
objects == <<place, tapped, ready, damage, combat, choices, returns>>
vars == <<seats, turn, cards, objects, declared, frame, pending, concessions>>

-----------------------------------------------------------------------------
(* Types *)

Steps == <<"Untap", "Upkeep", "Draw", "PrecombatMain", "BeginningCombat", "DeclareAttackers",
           "DeclareBlockers", "CombatDamage", "EndCombat", "PostcombatMain", "End", "Cleanup">>
Places == {"battlefield", "graveyard", "exile", "command", "gone"}
Attack == [defender : Seat, blocked : BOOLEAN, blockers : SUBSET Creatures]

Bare(k) == [kind |-> k]
Stabilize(resume, cleanup, changed) ==
    [kind |-> "Stabilize", resume |-> resume, cleanup |-> cleanup, changed |-> changed]
Settling == Stabilize("Priority", FALSE, FALSE)
Waves == [kind : {"Stabilize"}, resume : {"Priority", "Transition"},
          cleanup : BOOLEAN, changed : BOOLEAN]
Frames ==
    {Bare(k) : k \in {"Priority", "Attackers", "Damage", "CleanupClear", "Transition",
                      "EnterStep", "Draw"}}
    \cup Waves
    \cup [kind : {"Blockers"}, remaining : (SUBSET Seat) \ {{}}]
    \cup [kind : {"DamageChoice"}, source : Creatures]
    \cup [kind : {"Discard"}, player : Seat, count : Nat \ {0}]
    \cup [kind : {"CommanderReturn"}, object : Creatures, resume : Waves]
    \cup [kind : {"Finished"}, winner : Seat]
    \cup [kind : {"Fault"}, supported : BOOLEAN]

NoInput == [player |-> None, kind |-> "None", data |-> None]

\* Life and marked damage are sums over combatants: only their domains are typed.
TypeOK ==
    /\ live \subseteq Seat /\ passes \subseteq Seat /\ failed \subseteq Seat
    /\ active \in Seat \cup {None} /\ priority \in Seat /\ owner \in Seat
    /\ step \in {Steps[i] : i \in DOMAIN Steps}
    /\ landPlayed \in BOOLEAN /\ repeat \in BOOLEAN /\ declared \in BOOLEAN
    /\ DOMAIN life = Seat /\ DOMAIN damage = Creatures
    /\ hand \in [Seat -> Nat] /\ library \in [Seat -> Nat]
    /\ place \in [Creatures -> Places]
    /\ tapped \subseteq Creatures /\ ready \subseteq Creatures /\ returns \subseteq Creatures
    /\ DOMAIN combat \subseteq Creatures /\ \A x \in DOMAIN combat : combat[x] \in Attack
    /\ DOMAIN choices \subseteq Creatures
    /\ frame \in Frames
    /\ pending = NoInput \/ pending.player \in Seat
    /\ concessions \in Seq(Seat)

-----------------------------------------------------------------------------
(* Who sits where, what may fight, and who is asked *)

Ahead(p, q) == IF q > p THEN q - p ELSE q - p + N
NextLive(p, L) == CHOOSE q \in L : \A r \in L : Ahead(p, q) <= Ahead(p, r)

\* Who receives priority when a step grants it.
Recipient(act, L) == IF act # None THEN act ELSE NextLive(owner, L)

Fielded(pl, p) == {x \in Creatures : pl[x] = "battlefield" /\ Controller[x] = p}
Recipients(cb, x) == IF x \in DOMAIN cb THEN cb[x].blockers ELSE {}

DecisionFrames == {"Priority", "Attackers", "Blockers", "DamageChoice", "Discard", "CommanderReturn"}
Ended == frame.kind \in {"Finished", "Draw", "Fault"}
Drained == concessions = <<>>

\* Game::combat_decision_player and decision_for.
Asked ==
    CASE frame.kind = "Priority" -> priority
      [] frame.kind = "Attackers" -> active
      [] frame.kind = "Blockers" -> NextLive(owner, frame.remaining)
      [] frame.kind = "DamageChoice" -> Controller[frame.source]
      [] frame.kind = "Discard" -> frame.player
      [] frame.kind = "CommanderReturn" -> Owner[frame.object]
      [] OTHER -> None
AwaitsDecision == pending = NoInput /\ Drained /\ Asked \in live

MainPhaseAction(p, act, L) ==
    /\ p \in L /\ act = p /\ priority = p
    /\ step \in {"PrecombatMain", "PostcombatMain"}

\* What the split s deals to R altogether.
Dealt(s, R) == MapThenSumSet(LAMBDA b : s[b], R)

Splits(x, cb) ==
    {s \in [Recipients(cb, x) -> 0 .. Power[x]] : Dealt(s, Recipients(cb, x)) = Power[x]}

\* Every answer player p may give in frame fr, with L playing, creatures at pl
\* and attacks cb: validate_response and validate_combat_response.
Answers(p, fr, L, act, pl, cb) ==
    LET In(kind, data) == [player |-> p, kind |-> kind, data |-> data]
        able == Fielded(pl, p) \ tapped
        mine == {x \in DOMAIN cb : cb[x].defender = p}
    IN CASE fr.kind = "Priority" ->
              {In("Pass", None)}
              \cup (IF MainPhaseAction(p, act, L) /\ ~landPlayed /\ hand[p] > 0
                    THEN {In("PlayLand", None)} ELSE {})
         [] fr.kind = "Attackers" ->
              UNION {{In("Attackers", d) : d \in [A -> L \ {p}]} : A \in SUBSET (able \cap ready)}
         [] fr.kind = "Blockers" ->
              UNION {{In("Blockers", d) : d \in [B -> mine]} : B \in SUBSET able}
         [] fr.kind = "DamageChoice" -> {In("Damage", s) : s \in Splits(fr.source, cb)}
         [] fr.kind = "Discard" -> {In("Discard", None)}
         [] fr.kind = "CommanderReturn" -> {In("CommanderReturn", b) : b \in BOOLEAN}
         [] OTHER -> {}

-----------------------------------------------------------------------------
(* Inputs *)

Submit ==
    /\ AwaitsDecision
    /\ pending' \in Answers(Asked, frame, live, active, place, combat)
    /\ UNCHANGED <<seats, turn, cards, objects, declared, frame, concessions>>

Concede(p) ==
    /\ ~Ended
    /\ p \in live
    /\ p \notin {concessions[i] : i \in DOMAIN concessions}
    /\ Cardinality(live) - Len(concessions) > 1
    /\ concessions' = Append(concessions, p)
    /\ UNCHANGED <<seats, turn, cards, objects, declared, frame, pending>>

-----------------------------------------------------------------------------
(* Objects that move, and players who leave *)

Without(cb, gone) ==
    [x \in DOMAIN cb \ gone |-> [cb[x] EXCEPT !.blockers = @ \ gone]]

\* ProposedEvent::Move and LeaveGame: a creature that moves is a new object,
\* out of combat, and a commander that reaches a graveyard or exile may return.
MoveTo(pl) ==
    LET moved == {x \in Creatures : pl[x] # place[x]} IN
    /\ place' = pl
    /\ tapped' = tapped \ moved
    /\ ready' = ready \ moved
    /\ damage' = [x \in Creatures |-> IF x \in moved THEN 0 ELSE damage[x]]
    /\ combat' = Without(combat, moved)
    /\ choices' = [x \in DOMAIN choices \ moved |-> choices[x]]
    /\ returns' = (returns \ moved) \cup {x \in moved \cap {Commander} : pl[x] \in {"graveyard", "exile"}}

\* Mutant: what a departed player controlled stays on the battlefield.
AfterLeavingKeepsBorrowed(D, pl) ==
    [x \in Creatures |-> IF Owner[x] \in D THEN "gone" ELSE pl[x]]

\* Where the creatures pl are once the players D left: what they own leaves the
\* game, what they control by default is exiled.
AfterLeaving(D, pl) ==
    [x \in Creatures |-> IF Owner[x] \in D THEN "gone"
                         ELSE IF pl[x] = "battlefield" /\ Controller[x] \in D THEN "exile"
                         ELSE pl[x]]

\* begin_departure and the seat half of finish_departure.
Leave(D, L) ==
    /\ live' = L
    /\ hand' = [p \in Seat |-> IF p \in D THEN 0 ELSE hand[p]]
    /\ library' = [p \in Seat |-> IF p \in D THEN 0 ELSE library[p]]
    /\ active' = IF active \in D THEN None ELSE active

\* Game::finish_if_ended
Finish(L) ==
    /\ pending' = NoInput
    /\ IF L = {}
       THEN frame' = Bare("Draw") /\ UNCHANGED priority
       ELSE \E p \in L : frame' = [kind |-> "Finished", winner |-> p] /\ priority' = p

\* Mutant: a departure looks only at a player who may now hold priority.
ResumedUnvisited(L, act, pl, cb) == IF frame.kind = "Priority" THEN Settling ELSE frame

\* Mutant: the departure is not followed by a stabilization.
ResumedAtOnce(L, act, pl, cb) ==
    CASE frame.kind = "CommanderReturn" /\ Owner[frame.object] \notin L -> frame.resume
      [] frame.kind = "Attackers" /\ act = None -> Bare("Priority")
      [] frame.kind = "Blockers" /\ frame.remaining \cap L = {} -> Bare("Priority")
      [] OTHER -> frame

\* Where a departure that leaves L finds its way back to: what remains of the
\* frame once the departed are out of it (revalidate_commander_departure,
\* revalidate_combat_departure and the final stabilize).
Resumed(L, act, pl, cb) ==
    CASE frame.kind = "Priority" -> Settling
      [] frame.kind = "CommanderReturn" /\ Owner[frame.object] \notin L -> frame.resume
      [] frame.kind = "Attackers" /\ act = None -> Settling
      [] frame.kind = "Blockers" ->
           IF frame.remaining \cap L = {} THEN Settling
           ELSE [frame EXCEPT !.remaining = @ \cap L]
      [] frame.kind = "DamageChoice" /\ (pl[frame.source] # "battlefield"
                                         \/ Cardinality(Recipients(cb, frame.source)) < 2) ->
           Bare("Damage")
      [] frame.kind = "Discard" /\ frame.player \notin L -> Bare("CleanupClear")
      [] OTHER -> frame

\* The frame an accepted input is checked against.
Judging(fr) == IF fr.kind = "Stabilize" THEN Bare(fr.resume) ELSE fr

\* One queued departure.  An answer that waited behind the departed commander's
\* return goes with that question, whoever gave it.
Depart ==
    /\ ~Ended /\ ~Drained
    /\ LET p == Head(concessions)
           L == live \ {p}
           pl == AfterLeaving({p}, place)
           act == IF active = p THEN None ELSE active
           heir == IF priority = p THEN NextLive(p, L) ELSE priority
           fr == Resumed(L, act, pl, combat')
           orphaned == frame.kind = "CommanderReturn" /\ Owner[frame.object] \notin L
           kept == IF pending.player # p /\ ~orphaned
                      /\ pending \in Answers(pending.player, Judging(fr), L, act, pl, combat')
                   THEN pending ELSE NoInput
           agreed == frame.kind = "Priority" /\ kept = NoInput /\ Len(concessions) = 1
                     /\ L \subseteq passes
       IN /\ Leave({p}, L)
          /\ MoveTo(pl)
          /\ IF Cardinality(L) = 1
             THEN Finish(L) /\ passes' = passes \cap L
             ELSE /\ frame' = IF agreed THEN Bare("Transition") ELSE fr
                  /\ passes' = IF agreed THEN {} ELSE passes \cap L
                  /\ pending' = kept
                  /\ priority' = IF frame.kind \in {"Attackers", "Blockers"} /\ fr = Settling
                                 THEN Recipient(act, L) ELSE heir
    /\ concessions' = Tail(concessions)
    /\ UNCHANGED <<turn, life, failed, declared>>

-----------------------------------------------------------------------------
(* Stabilization *)

InFrame(k) == Drained /\ frame.kind = k
Doomed == {x \in Creatures : place[x] = "battlefield" /\ damage[x] >= Toughness[x]}
Losers == {p \in live : life[p] <= 0 \/ p \in failed}
Offered == {x \in returns : place[x] \in {"graveyard", "exile"} /\ Owner[x] \in live}

\* One wave: everything doomed dies and every loser leaves at once, and only
\* then does anyone win.
Wave ==
    /\ InFrame("Stabilize") /\ Doomed \cup Losers # {}
    /\ LET L == live \ Losers
           dead == [x \in Creatures |-> IF x \in Doomed THEN "graveyard" ELSE place[x]]
       IN /\ Leave(Losers, L)
          /\ MoveTo(AfterLeaving(Losers, dead))
          /\ passes' = passes \cap L
          /\ IF Losers # {} /\ Cardinality(L) <= 1
             THEN Finish(L)
             ELSE /\ frame' = Stabilize(frame.resume, frame.cleanup, TRUE)
                  /\ priority' = IF priority \in Losers THEN NextLive(priority, L) ELSE priority
                  /\ pending' = IF pending.player \in Losers THEN NoInput ELSE pending
    /\ UNCHANGED <<turn, life, failed, declared, concessions>>

\* offer_commander_sba: the owner of a fresh commander is asked, once.
OfferReturn ==
    /\ InFrame("Stabilize") /\ Doomed \cup Losers = {}
    /\ \E x \in Offered : frame' = [kind |-> "CommanderReturn", object |-> x, resume |-> frame]
    /\ returns' = {}
    /\ UNCHANGED <<seats, turn, cards, place, tapped, ready, damage, combat, choices, declared,
                   pending, concessions>>

\* Nothing is left to do: resume, or give priority in a cleanup that changed something.
Settle ==
    /\ InFrame("Stabilize") /\ Doomed \cup Losers = {} /\ Offered = {}
    /\ LET again == frame.cleanup /\ frame.changed
           resume == IF again THEN "Priority" ELSE frame.resume
           agreed == resume = "Priority" /\ pending = NoInput /\ live \subseteq passes
       IN /\ repeat' = (repeat \/ again)
          /\ priority' = IF again THEN Recipient(active, live) ELSE priority
          /\ frame' = Bare(IF agreed THEN "Transition" ELSE resume)
          /\ passes' = IF agreed THEN {} ELSE passes
    /\ returns' = {}
    /\ UNCHANGED <<live, active, owner, step, landPlayed, cards, place, tapped, ready, damage,
                   combat, choices, declared, pending, concessions>>

AnswerReturn ==
    /\ InFrame("CommanderReturn") /\ pending.kind = "CommanderReturn"
    /\ IF pending.data
       THEN /\ MoveTo([place EXCEPT ![frame.object] = "command"])
            /\ frame' = Stabilize(frame.resume.resume, frame.resume.cleanup, TRUE)
       ELSE frame' = frame.resume /\ UNCHANGED objects
    /\ pending' = NoInput
    /\ UNCHANGED <<seats, turn, cards, declared, concessions>>

-----------------------------------------------------------------------------
(* Priority and steps *)

Applies(k, kind) == InFrame(k) /\ pending.kind = kind

\* grant_turn_priority, for the steps that leave the seats alone.
Grant ==
    /\ priority' = Recipient(active, live)
    /\ frame' = Settling

Pass ==
    /\ Applies("Priority", "Pass")
    /\ LET pa == passes \cup {pending.player} IN
       IF live \subseteq pa
       THEN passes' = {} /\ frame' = Bare("Transition") /\ UNCHANGED priority
       ELSE /\ passes' = pa
            /\ frame' = Settling
            /\ priority' = NextLive(pending.player, live)
    /\ pending' = NoInput
    /\ UNCHANGED <<live, active, turn, cards, objects, declared, concessions>>

PlayLand ==
    /\ Applies("Priority", "PlayLand")
    /\ hand' = [hand EXCEPT ![pending.player] = @ - 1]
    /\ landPlayed' = TRUE
    /\ passes' = {}
    /\ frame' = Settling
    /\ pending' = NoInput
    /\ UNCHANGED <<live, active, priority, owner, step, repeat, life, failed, library, objects,
                   declared, concessions>>

\* Mutant: a repeated cleanup is not forgotten when the next one begins.
TransitionRepeats ==
    /\ InFrame("Transition")
    /\ LET over == step = "Cleanup" /\ ~repeat
           to == IF over THEN NextLive(owner, live) ELSE owner
       IN /\ step' = IF step = "Cleanup" /\ repeat THEN "Cleanup"
                     ELSE Steps[((CHOOSE i \in DOMAIN Steps : Steps[i] = step) % Len(Steps)) + 1]
          /\ owner' = to
          /\ active' = IF to \in live THEN to ELSE None
    /\ passes' = {}
    /\ frame' = Bare("EnterStep")
    /\ UNCHANGED <<live, priority, landPlayed, repeat, cards, objects, declared, pending, concessions>>

\* next_turn_state
NextStep ==
    IF step = "DeclareAttackers" /\ ~declared THEN "EndCombat"
    ELSE IF step = "Cleanup" /\ repeat THEN "Cleanup"
    ELSE Steps[((CHOOSE i \in DOMAIN Steps : Steps[i] = step) % Len(Steps)) + 1]

Transition ==
    /\ InFrame("Transition")
    /\ LET over == step = "Cleanup" /\ ~repeat
           to == IF over THEN NextLive(owner, live) ELSE owner
       IN /\ step' = NextStep
          /\ owner' = to
          /\ active' = IF to \in live THEN to ELSE None
          /\ landPlayed' = (landPlayed /\ ~over)
          /\ ready' = IF over THEN ready \cup Fielded(place, to) ELSE ready
    /\ passes' = {}
    /\ repeat' = FALSE
    /\ frame' = Bare("EnterStep")
    /\ UNCHANGED <<live, priority, cards, place, tapped, damage, combat, choices, returns,
                   declared, pending, concessions>>

Entering(s) == InFrame("EnterStep") /\ step = s

EnterUntap ==
    /\ Entering("Untap")
    /\ tapped' = tapped \ Fielded(place, active)
    /\ frame' = Bare("Transition")
    /\ UNCHANGED <<seats, turn, cards, place, ready, damage, combat, choices, returns, declared,
                   pending, concessions>>

EnterDraw ==
    /\ Entering("Draw")
    /\ IF active = None THEN UNCHANGED <<hand, library, failed>>
       ELSE IF library[active] > 0
       THEN /\ library' = [library EXCEPT ![active] = @ - 1]
            /\ hand' = [hand EXCEPT ![active] = @ + 1]
            /\ UNCHANGED failed
       ELSE failed' = failed \cup {active} /\ UNCHANGED <<hand, library>>
    /\ Grant
    /\ UNCHANGED <<live, active, passes, turn, life, objects, declared, pending, concessions>>

\* The steps around the declarations forget the last combat.
EnterAroundCombat ==
    /\ InFrame("EnterStep") /\ step \in {"BeginningCombat", "PostcombatMain"}
    /\ combat' = <<>> /\ choices' = <<>>
    /\ declared' = (declared /\ step # "BeginningCombat")
    /\ Grant
    /\ UNCHANGED <<live, active, passes, turn, cards, place, tapped, ready, damage, returns,
                   pending, concessions>>

Defenders == {p \in live \ {owner} : \E x \in DOMAIN combat : combat[x].defender = p}

\* A step whose turn-based action somebody must choose, and the other steps.
EnterDeciding ==
    /\ InFrame("EnterStep")
    /\ \/ step = "DeclareAttackers" /\ active # None /\ frame' = Bare("Attackers")
       \/ /\ step = "DeclareBlockers" /\ Defenders # {}
          /\ frame' = [kind |-> "Blockers", remaining |-> Defenders]
       \/ step = "CombatDamage" /\ frame' = Bare("Damage")
       \/ /\ step = "Cleanup"
          /\ frame' = IF active # None /\ hand[active] > MaxHand
                      THEN [kind |-> "Discard", player |-> active, count |-> hand[active] - MaxHand]
                      ELSE Bare("CleanupClear")
    /\ UNCHANGED <<seats, turn, cards, objects, declared, pending, concessions>>

EnterQuietly ==
    /\ InFrame("EnterStep")
    /\ \/ step \in {"Upkeep", "PrecombatMain", "EndCombat", "End"}
       \/ step = "DeclareAttackers" /\ active = None
       \/ step = "DeclareBlockers" /\ Defenders = {}
    /\ Grant
    /\ UNCHANGED <<live, active, passes, turn, cards, objects, declared, pending, concessions>>

-----------------------------------------------------------------------------
(* Combat *)

DeclareAttackers ==
    /\ Applies("Attackers", "Attackers")
    /\ LET d == pending.data IN
       /\ combat' = [x \in DOMAIN d |-> [defender |-> d[x], blocked |-> FALSE, blockers |-> {}]]
       /\ tapped' = tapped \cup DOMAIN d
       /\ declared' = (DOMAIN d # {})
    /\ Grant
    /\ pending' = NoInput
    /\ UNCHANGED <<live, active, passes, turn, cards, place, ready, damage, choices, returns, concessions>>

DeclareBlockers ==
    /\ Applies("Blockers", "Blockers")
    /\ LET d == pending.data
           Blocking(x) == {b \in DOMAIN d : d[b] = x}
           rest == frame.remaining \ {pending.player}
       IN /\ combat' = [x \in DOMAIN combat |->
                          [combat[x] EXCEPT !.blocked = @ \/ Blocking(x) # {},
                                            !.blockers = @ \cup Blocking(x)]]
          /\ IF rest = {} THEN Grant
             ELSE frame' = [frame EXCEPT !.remaining = rest] /\ UNCHANGED priority
    /\ pending' = NoInput
    /\ UNCHANGED <<live, active, passes, turn, cards, place, tapped, ready, damage, choices,
                   returns, declared, concessions>>

\* Attackers that still need a split among several blockers, given the splits ch.
Undivided(ch) ==
    {x \in DOMAIN combat : /\ Power[x] > 0
                           /\ Cardinality(combat[x].blockers) > 1
                           /\ ~(x \in DOMAIN ch /\ ch[x] \in Splits(x, combat))}

\* Attackers whose damage goes to the player they attack.
Reaching == {x \in DOMAIN combat : /\ combat[x].blockers = {} /\ ~combat[x].blocked
                                   /\ combat[x].defender \in live}

\* What attacker x deals to its blocker b.
Share(x, b, ch) == IF Cardinality(combat[x].blockers) > 1 /\ Power[x] > 0 THEN ch[x][b] ELSE Power[x]

\* A commander's combat damage to a player is an unsupported boundary.
Unsupported == \E x \in Reaching : x = Commander /\ Power[x] > 0

\* assign_damage: ask for the next split, or deal all of it at once.
AssignDamage(ch) ==
    IF Undivided(ch) # {}
    THEN /\ \E x \in Undivided(ch) :
              /\ frame' = [kind |-> "DamageChoice", source |-> x]
              /\ choices' = [y \in DOMAIN ch \ {x} |-> ch[y]]
         /\ UNCHANGED <<life, damage, priority>>
    ELSE /\ damage' = [y \in Creatures |->
                         damage[y] + MapThenSumSet(LAMBDA b : Power[b], Recipients(combat, y))
                         + MapThenSumSet(LAMBDA x : Share(x, y, ch),
                                         {x \in DOMAIN combat : y \in combat[x].blockers})]
         /\ life' = [p \in Seat |-> life[p] - MapThenSumSet(LAMBDA x : Power[x],
                                         {x \in Reaching : combat[x].defender = p})]
         /\ choices' = <<>>
         /\ Grant

\* The splits the running step works with.
Chosen == IF frame.kind = "DamageChoice"
          THEN [y \in DOMAIN choices \cup {frame.source} |->
                  IF y = frame.source THEN pending.data ELSE choices[y]]
          ELSE choices

DamageStep == InFrame("Damage") \/ Applies("DamageChoice", "Damage")
DamageFails == DamageStep /\ Undivided(Chosen) = {} /\ Unsupported

CombatDamage ==
    /\ DamageStep /\ ~DamageFails
    /\ AssignDamage(Chosen)
    /\ pending' = NoInput
    /\ UNCHANGED <<live, active, passes, turn, failed, hand, library, place, tapped, ready,
                   combat, returns, declared, concessions>>

Discard ==
    /\ Applies("Discard", "Discard")
    /\ hand' = [hand EXCEPT ![frame.player] = @ - frame.count]
    /\ frame' = Bare("CleanupClear")
    /\ pending' = NoInput
    /\ UNCHANGED <<seats, turn, life, failed, library, objects, declared, concessions>>

ClearDamage ==
    /\ InFrame("CleanupClear")
    /\ damage' = [x \in Creatures |-> 0]
    /\ frame' = Stabilize("Transition", TRUE, FALSE)
    /\ UNCHANGED <<seats, turn, cards, place, tapped, ready, combat, choices, returns, declared,
                   pending, concessions>>

\* A rule step that fails is dropped, and the game stops where it stood: a
\* frame whose player is gone, or that is handed an input made for another.
WrongInput ==
    /\ Drained
    /\ frame.kind \in DecisionFrames
    /\ IF pending = NoInput THEN Asked \notin live
       ELSE pending \notin Answers(Asked, frame, live, active, place, combat)

Fault ==
    /\ DamageFails \/ WrongInput
    /\ frame' = [kind |-> "Fault", supported |-> WrongInput]
    /\ UNCHANGED <<seats, turn, cards, objects, declared, pending, concessions>>

-----------------------------------------------------------------------------
Init ==
    /\ live = Seat /\ active = 0 /\ priority = 0 /\ passes = {}
    /\ owner = 0 /\ step = "PrecombatMain" /\ landPlayed = FALSE /\ repeat = FALSE
    /\ life = Life /\ failed = {} /\ hand = Hand /\ library = Library
    /\ place = [x \in Creatures |-> "battlefield"]
    /\ tapped = {} /\ ready = Creatures /\ damage = [x \in Creatures |-> 0]
    /\ combat = <<>> /\ choices = <<>> /\ returns = {} /\ declared = FALSE
    /\ frame = Bare("Priority") /\ pending = NoInput /\ concessions = <<>>

\* One iteration of Game::advance
RuleStep ==
    \/ Depart \/ Wave \/ OfferReturn \/ Settle \/ AnswerReturn
    \/ Pass \/ PlayLand \/ Transition
    \/ EnterUntap \/ EnterDraw \/ EnterAroundCombat \/ EnterDeciding \/ EnterQuietly
    \/ DeclareAttackers \/ DeclareBlockers \/ CombatDamage \/ Discard \/ ClearDamage
    \/ Fault

Next == Submit \/ RuleStep \/ \E p \in Seat : Concede(p)

\* The host calls advance whenever it can, and the asked player answers.
FairSpec == Init /\ [][Next]_vars /\ WF_vars(Submit) /\ WF_vars(RuleStep)
Spec == Init /\ [][Next]_vars

-----------------------------------------------------------------------------
(* Properties *)

\* The departures reach everything (begin_departure, refresh_controllers,
\* remove_from_combat): whatever frame a departure met, nothing of a player who
\* left, and nothing that player controlled, is still at the table or in combat,
\* and no answer, pass or priority of theirs remains.
DepartedHoldNothing ==
    /\ \A x \in Creatures : (place[x] = "gone") <=> (Owner[x] \notin live)
    /\ \A x \in Creatures : place[x] = "battlefield" => Controller[x] \in live
    /\ \A x \in DOMAIN combat : \A y \in {x} \cup combat[x].blockers : place[y] = "battlefield"
    /\ \A p \in Seat \ live : hand[p] = 0 /\ library[p] = 0
    /\ active \in live \cup {None} /\ passes \subseteq live
    /\ pending = NoInput \/ pending.player \in live
    /\ live = {} \/ priority \in live

\* A suspended frame survives the departures it meets (combat.rs:511,
\* commander.rs:132): when the kernel waits for somebody, that player is still in
\* the game, and a split is asked for only while there is something to split
\* between.
AskedIsThere ==
    /\ frame.kind \in DecisionFrames /\ pending = NoInput /\ Drained => Asked \in live
    /\ frame.kind = "DamageChoice" => Cardinality(Recipients(combat, frame.source)) > 1

\* And whoever is asked has an answer the kernel accepts.
QuestionsCanBeAnswered ==
    /\ AskedIsThere
    /\ frame.kind \in DecisionFrames /\ pending = NoInput /\ Drained =>
         Answers(Asked, frame, live, active, place, combat) # {}

\* Nobody holds priority over an unsettled table (CR 704.3, grant_turn_priority
\* and stabilize): no creature or player is due to be lost, no commander's owner
\* still has to be asked, and nobody is asked to pass a round everyone passed.
PriorityIsStable ==
    frame.kind = "Priority" =>
        /\ Doomed = {} /\ Losers = {} /\ returns = {}
        /\ live \subseteq passes => pending # NoInput \/ ~Drained

\* Whatever is declared, split, returned or conceded, the automatic frames never
\* go round in circles: turn follows turn until somebody has won or the game is
\* stopped.  Libraries are never refilled, so a game that goes on does end.
GameEnds == <>Ended

\* "Queued departures revalidate accepted declarations, splits and discards
\* before consumption [and] preserve still-valid unrelated input": the only step
\* that fails is the explicit boundary of commander damage.
OnlyUnsupportedDamageFaults == frame.kind = "Fault" => ~frame.supported
=============================================================================
