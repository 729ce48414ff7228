---------------------------- MODULE PlaytestTable ----------------------------
(***************************************************************************)
(* The solo table of the deck builder (playtest/model.ts): one frame of the *)
(* game, and what every action makes of it.  Everything is manual: the      *)
(* table moves cards and knows no rules but those of the opening hand.      *)
(*                                                                         *)
(* A card's face, row, counters, power and toughness, the turn number and   *)
(* the life total are values that are set and kept, and nothing depends on  *)
(* them: one of them, life, stands for all.                                *)
(***************************************************************************)
EXTENDS Integers, Sequences, SequencesExt, Positions

CONSTANTS
    Card, Token,    \* the objects of the deck, and ids for those made at the table
    Zone,           \* where an object can be
    Life,           \* what the life total is set to
    OpeningHand,    \* seven
    MaxMulligans,   \* eight
    None

ASSUME ZonesAssumption == {"library", "hand", "battlefield", "exile"} \subseteq Zone
ASSUME TableAssumption ==
    /\ {OpeningHand, MaxMulligans} \subseteq Nat \ {0}
    /\ IsFiniteSet(Card) /\ Life # {}

Object == Card \cup Token
Mode == {"commander", "practice"}
Opening == [stage : {"choosing", "playing"}, mode : Mode, mulligans : Nat, bottom : Seq(Object)]
Frame == [zones : [Zone -> Seq(Object)], tapped : SUBSET Object,
          attached : [Object -> Object \cup {None}], life : Life, opening : Opening]

\* actionSchema: what a request may ask of the table, each object named once.
Ids == {s \in Seq(Object) : IsInjective(s)}
Action ==
    [type : {"undo", "redo", "mulligan", "keep", "shuffle", "untap"}]
    \cup [type : {"mode"}, mode : Mode] \cup [type : {"bottom", "remove"}, ids : Ids]
    \cup [type : {"draw"}, count : Nat] \cup [type : {"life"}, value : Life]
    \cup [type : {"move"}, ids : Ids, zone : Zone, top : BOOLEAN]
    \cup [type : {"tap"}, ids : Ids, tapped : BOOLEAN]
    \cup [type : {"attach"}, id : Object, host : Object \cup {None}]
    \cup [type : {"token"}, copy : Object \cup {None}]

----------------------------------------------------------------------------
On(f, z) == ToSet(f.zones[z])
\* An object in no zone is no longer on the table.
InGame(f) == UNION {On(f, z) : z \in Zone}

\* Mutant: what was attached to a departed object goes on being attached to it.
MoveToForgetsHosts(f, ids, zone, top) ==
    LET moved == ToSet(ids)
        leaving == IF zone = "battlefield" THEN {} ELSE moved \cap On(f, "battlefield")
        rest(z) == Excluding(f.zones[z], moved)
        placed == IF top THEN ids \o rest(zone) ELSE rest(zone) \o ids
    IN [f EXCEPT !.zones = [z \in Zone |-> IF z = zone THEN placed ELSE rest(z)],
                 !.attached = [x \in Object |-> IF x \in leaving THEN None ELSE @[x]]]

\* move(): what leaves the battlefield is attached to nothing and holds nothing any more.
MoveTo(f, ids, zone, top) ==
    LET moved == ToSet(ids)
        leaving == IF zone = "battlefield" THEN {} ELSE moved \cap On(f, "battlefield")
        rest(z) == Excluding(f.zones[z], moved)
        placed == IF top THEN ids \o rest(zone) ELSE rest(zone) \o ids
    IN [f EXCEPT !.zones = [z \in Zone |-> IF z = zone THEN placed ELSE rest(z)],
                 !.attached = [x \in Object |-> IF {x, @[x]} \cap leaving # {} THEN None ELSE @[x]]]

Draw(f, n) ==
    LET library == f.zones["library"]
    IN MoveTo(f, SubSeq(library, 1, IF n < Len(library) THEN n ELSE Len(library)), "hand", FALSE)

Shufflings(f) == {[f EXCEPT !.zones["library"] = s] : s \in SetToSeqs(On(f, "library"))}

----------------------------------------------------------------------------
\* The opening hand.
BottomRequired(o) ==
    IF o.mode = "practice" \/ o.mulligans = 0 THEN 0 ELSE o.mulligans - 1
CanKeep(o) == Len(o.bottom) = BottomRequired(o)
CanMulligan(o) == o.mode = "practice" \/ o.mulligans < MaxMulligans

\* The hand goes back, the library is shuffled and another hand drawn.
Redealt(f, mode, mulligans) ==
    LET opened == [f EXCEPT !.opening = [@ EXCEPT !.mode = mode, !.mulligans = mulligans,
                                                  !.bottom = <<>>]]
    IN {Draw(s, OpeningHand) : s \in Shufflings(MoveTo(opened, f.zones["hand"], "library", FALSE))}

Choosing(f, a) ==
    CASE a.type = "mode" -> Redealt(f, a.mode, 0)
      [] a.type = "mulligan" ->
           IF CanMulligan(f.opening) THEN Redealt(f, f.opening.mode, f.opening.mulligans + 1) ELSE {}
      [] a.type = "bottom" ->
           IF Len(a.ids) <= BottomRequired(f.opening) /\ ToSet(a.ids) \subseteq On(f, "hand")
           THEN {[f EXCEPT !.opening.bottom = a.ids]} ELSE {}
      [] a.type = "keep" ->
           IF CanKeep(f.opening)
           THEN {[MoveTo(f, f.opening.bottom, "library", FALSE)
                    EXCEPT !.opening.bottom = <<>>, !.opening.stage = "playing"]}
           ELSE {}
      \* Until the hand is kept only its order can be changed.
      [] a.type = "move" /\ a.zone = "hand" /\ ToSet(a.ids) \subseteq On(f, "hand") ->
           {MoveTo(f, a.ids, "hand", a.top)}
      [] OTHER -> {}

----------------------------------------------------------------------------
\* What x is attached to, and so on down to what is attached to nothing.
Hosts(f, x) ==
    LET from[k \in 0..Cardinality(Object)] ==
          IF k = 0 THEN {x}
          ELSE {f.attached[y] : y \in from[k - 1]} \ {None}
    IN UNION {from[k] : k \in DOMAIN from}

Playing(f, a, seen) ==
    CASE a.type = "draw" -> {Draw(f, a.count)}
      [] a.type = "shuffle" -> Shufflings(f)
      [] a.type = "untap" -> {[f EXCEPT !.tapped = @ \ On(f, "battlefield")]}
      [] a.type = "life" -> {[f EXCEPT !.life = a.value]}
      [] a.type = "move" ->
           IF ToSet(a.ids) \subseteq InGame(f) THEN {MoveTo(f, a.ids, a.zone, a.top)} ELSE {}
      [] a.type = "tap" ->
           IF ToSet(a.ids) \subseteq On(f, "battlefield")
           THEN {[f EXCEPT !.tapped = IF a.tapped THEN @ \cup ToSet(a.ids) ELSE @ \ ToSet(a.ids)]}
           ELSE {}
      [] a.type = "attach" ->
           IF /\ {a.id, a.host} \ {None} \subseteq On(f, "battlefield")
              /\ a.host # None => a.id \notin Hosts(f, a.host)
           THEN {[f EXCEPT !.attached[a.id] = a.host]} ELSE {}
      \* A token is made from a card of the database, or copies an object as it lies.
      [] a.type = "token" ->
           IF a.copy = None \/ a.copy \in InGame(f)
           THEN {[f EXCEPT !.zones["battlefield"] = Append(@, t),
                           !.tapped = IF a.copy \in @ THEN @ \cup {t} ELSE @] : t \in Token \ seen}
           ELSE {}
      [] a.type = "remove" ->
           IF ToSet(a.ids) \subseteq InGame(f) \cap Token
           THEN LET out == MoveTo(f, a.ids, "exile", FALSE)
                IN {[out EXCEPT !.zones["exile"] = Excluding(@, ToSet(a.ids)),
                                !.tapped = @ \ ToSet(a.ids)]}
           ELSE {}
      [] OTHER -> {}

\* applyAction: the frames an action may lead to, none when it is refused.
Outcomes(f, a, seen) ==
    IF f.opening.stage = "choosing" THEN Choosing(f, a) ELSE Playing(f, a, seen)

----------------------------------------------------------------------------
\* startPlaytest: the deck shuffled, and a hand of seven.
Deals(mode) ==
    LET empty == [z \in Zone |-> <<>>]
        deck(s) == [zones |-> [empty EXCEPT !["library"] = s], tapped |-> {},
                    attached |-> [x \in Object |-> None], life |-> CHOOSE l \in Life : TRUE,
                    opening |-> [stage |-> "choosing", mode |-> mode, mulligans |-> 0, bottom |-> <<>>]]
    IN {Draw(deck(s), OpeningHand) : s \in SetToSeqs(Card)}

\* What read() asks of every frame of a session before it is used.
Readable(f) ==
    /\ f \in Frame
    /\ \A z1, z2 \in Zone : z1 # z2 => On(f, z1) \cap On(f, z2) = {}
    /\ \A z \in Zone : IsInjective(f.zones[z])
    /\ \A x \in InGame(f) : f.attached[x] \in On(f, "battlefield") \cup {None}
=============================================================================
