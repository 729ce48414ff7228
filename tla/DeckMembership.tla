--------------------------- MODULE DeckMembership ---------------------------
(***************************************************************************)
(* One deck of packages/deck-builder: its cards and maybe list, its slots, *)
(* its lifecycle, the log of everything that changed it, and undo.         *)
(*                                                                         *)
(* Every capability runs as one synchronous call on one connection, so     *)
(* requests do not interleave.  What does go wrong is inside a request: a  *)
(* batch of changes is applied row by row in a transaction, any of them    *)
(* may be refused after others were applied, and the process may die.      *)
(* applyChanges is therefore several steps here: a request plans its       *)
(* changes against the rows it reads (Begin), each change is applied or    *)
(* refused in turn, and Land bumps the revision and writes the log entry.  *)
(*                                                                         *)
(* Abstractions.  Tags follow a card exactly as its secondary slots do     *)
(* except that they may not be assigned twice, and are left out, like      *)
(* names, summaries, reasons and prices, as are notes on the maybe list.   *)
(* A deck's colour identity is represented by the set of cards it is the   *)
(* union of.                                                               *)
(***************************************************************************)
EXTENDS Integers, FiniteSets, Sequences

CONSTANTS
    Card, Slot,
    ByName,        \* the cards in the order a deck lists them
    EditRequests,  \* what edit_cards is asked: cards to remove, to add, and
                   \* the whole new command zone or None
    Copies,        \* the quantities the owner types
    MaxLog,        \* bound: how many acts are explored
    None, Keep     \* null, and "leave it as it is" (undefined)

Role == {"card", "commander", "companion"}
Category == {"paper", "theorycrafted", "archived"}
Kind == {"accept", "reject", "edit", "undo"}
Via == {"ui", "agent"}
All == 0           \* a cut's quantity "all"

VARIABLES
    category,
    slots,      \* the state of each slot id: ids are never reused
    rows,       \* deck_cards: the deck and its maybe list
    revision, identity,
    log,        \* log and log_cards, oldest first
    acts,       \* what the running request still has to apply
    logged,     \* the log_cards the running act has gathered
    saved       \* what its outermost savepoint would bring back

deck == <<rows, revision, identity, log>>
running == <<acts, logged, saved>>
vars == <<category, slots, deck, running>>

-----------------------------------------------------------------------------
(* Types *)

Row == [maybe : BOOLEAN, quantity : Nat \ {0}, role : Role,
        slot : {None} \cup Slot, secondary : SUBSET Slot]
Item == [proposal : Nat, index : Nat]
Change ==
    [action : {"add"}, card : Card, quantity : Nat \ {0}, slot : {None, Keep} \cup Slot,
     secondary : SUBSET (Slot \cup {Keep}), role : Role, item : {None} \cup Item]
    \cup [action : {"cut"}, card : Card, quantity : Nat, park : BOOLEAN, item : {None} \cup Item]
    \cup [action : {"role"}, card : Card, role : Role]
\* What was applied, and what was proposed and rejected.
LogCard ==
    [action : {"add"}, card : Card, quantity : Nat \ {0}, item : {None} \cup Item, wasMaybe : BOOLEAN]
    \cup [action : {"cut"}, card : Card, quantity : Nat \ {0}, item : {None} \cup Item,
          slot : {None} \cup Slot, secondary : SUBSET Slot, role : Role, parked : BOOLEAN]
    \cup [action : {"role"}, card : Card, quantity : Nat \ {0}, from : Role]
Rejected == [action : {"add", "cut"}, card : Card, quantity : {1}, item : Item]
Entries(kinds, cards) ==
    [kind : kinds, via : Via, revision : Nat, cards : Seq(cards), proposal : {None} \cup Nat,
     undoOf : {None} \cup Nat, undoneBy : {None} \cup Nat]
Entry == Entries(Kind \ {"reject"}, LogCard) \cup Entries({"reject"}, Rejected)
\* A deck as a savepoint keeps it.
Deck == [rows : [Card -> {None} \cup Row], revision : Nat, identity : SUBSET Card, log : Seq(Entry)]
\* An act holds the changes still to apply, each at its position in the request.
Act == [kind : Kind, via : Via, changes : SUBSET [at : Nat, change : Change], proposal : {None} \cup Nat,
        items : SUBSET Item, consent : BOOLEAN, undoOf : {None} \cup Nat]

Add(c, q, s, ss, r, i) == [action |-> "add", card |-> c, quantity |-> q, slot |-> s,
                           secondary |-> ss, role |-> r, item |-> i]
Cut(c, q, p, i) == [action |-> "cut", card |-> c, quantity |-> q, park |-> p, item |-> i]
At(n, x) == [at |-> n, change |-> x]
Become(c, r) == [action |-> "role", card |-> c, role |-> r]

ASSUME DataAssumption ==
    /\ IsFiniteSet(Card) /\ IsFiniteSet(Slot)
    /\ Copies \subseteq Nat \ {0} /\ MaxLog \in Nat
    /\ ByName \in Seq(Card)
    /\ EditRequests \subseteq [remove : Seq(Change), add : Seq(Change), commanders : {None} \cup Seq(Card)]
    /\ None \notin Card \cup Slot \cup Nat \cup Row \cup Change /\ Keep \notin Slot \cup {None}

-----------------------------------------------------------------------------
(* What the rows say *)

Live == {s \in Slot : slots[s] = "live"}
Present(c) == rows[c] # None
InDeck(c) == Present(c) /\ ~rows[c].maybe
Shortlisted(c) == Present(c) /\ rows[c].maybe
Holding(deckRows, r) ==
    {c \in Card : deckRows[c] # None /\ ~deckRows[c].maybe /\ deckRows[c].role = r}
Zone(r) == Holding(rows, r)
Cap(r) == IF r = "commander" THEN 2 ELSE 1
HasRoom(r) == r = "card" \/ Cardinality(Zone(r)) < Cap(r)

\* validateSlotAssignments
Assignable(primary, secondary) ==
    /\ primary \in Live \cup {None}
    /\ secondary \subseteq Live
    /\ primary \notin secondary

\* Where an added card is filed: as asked, or where its row already is.
PrimaryFor(a) == IF a.slot # Keep THEN a.slot
                 ELSE IF Present(a.card) THEN rows[a.card].slot ELSE None
SecondaryFor(a) == IF Keep \notin a.secondary THEN a.secondary
                   ELSE IF Present(a.card) THEN rows[a.card].secondary \ {PrimaryFor(a)} ELSE {}

Idle == acts = <<>>
Editable == category # "archived"
\* Mutant: an agent edits a Paper deck.
DirectEditOnPaper(via) == Editable

\* requireDirectCardEdit
DirectEdit(via) == Editable /\ (via = "agent" => category # "paper")

-----------------------------------------------------------------------------
(* One change *)

\* Mutant: a card promoted from the maybe list needs no room in its zone.
AddableOnceShortlisted(a) ==
    /\ Assignable(PrimaryFor(a), SecondaryFor(a))
    /\ Present(a.card) \/ HasRoom(a.role)

\* An add's guard: the slots exist, and a card that arrives in the command
\* zone finds room there.  A further copy of a card in the deck needs none.
Addable(a) ==
    /\ Assignable(PrimaryFor(a), SecondaryFor(a))
    /\ InDeck(a.card) \/ HasRoom(a.role)

\* The row of an added card: promoted from the maybe list with the slot it was
\* parked with, one of more copies, or new.
Added(a) ==
    IF Shortlisted(a.card)
    THEN [rows[a.card] EXCEPT !.maybe = FALSE, !.quantity = a.quantity,
                              !.role = IF a.role = "card" THEN @ ELSE a.role,
                              !.slot = PrimaryFor(a), !.secondary = SecondaryFor(a)]
    ELSE IF InDeck(a.card)
    THEN [rows[a.card] EXCEPT !.quantity = @ + a.quantity]
    ELSE [maybe |-> FALSE, quantity |-> a.quantity, role |-> a.role,
          slot |-> PrimaryFor(a), secondary |-> SecondaryFor(a)]

\* Mutant: parking is logged as one copy.
TakenParkingOne(c) == IF c.quantity = All \/ c.quantity > rows[c.card].quantity
                      THEN rows[c.card].quantity ELSE c.quantity

Taken(c) == IF c.quantity = All \/ c.park \/ c.quantity > rows[c.card].quantity
            THEN rows[c.card].quantity ELSE c.quantity

\* The row a cut leaves: parked as one plain card, removed, or some copies fewer.
CutTo(c) ==
    IF c.park
    THEN [rows[c.card] EXCEPT !.maybe = TRUE, !.quantity = 1, !.role = "card"]
    ELSE IF Taken(c) = rows[c.card].quantity THEN None
    ELSE [rows[c.card] EXCEPT !.quantity = @ - Taken(c)]

Applicable(x) ==
    CASE x.action = "add" -> Addable(x)
      [] x.action = "cut" -> InDeck(x.card)
      [] OTHER -> /\ InDeck(x.card)
                  /\ x.role = rows[x.card].role \/ HasRoom(x.role)

-----------------------------------------------------------------------------
(* The running request *)

Plan(kind, via, changes) ==
    [kind |-> kind, via |-> via, changes |-> changes, proposal |-> None, items |-> {},
     consent |-> FALSE, undoOf |-> None]

\* withTransaction: the savepoint keeps what a failure must bring back.
Begin(plan) ==
    /\ Idle /\ plan # <<>>
    /\ Len(log) + Len(plan) <= MaxLog
    /\ acts' = plan
    /\ logged' = <<>>
    /\ saved' = [rows |-> rows, revision |-> revision, identity |-> identity, log |-> log]
    /\ UNCHANGED <<category, slots, deck>>

Done == acts' = <<>> /\ logged' = <<>> /\ saved' = None

\* Mutant: a rollback that forgets the revision.
RestoreButRevision ==
    /\ rows' = saved.rows /\ identity' = saved.identity /\ log' = saved.log
    /\ Done
    /\ UNCHANGED <<category, slots, revision>>

\* Mutant: no savepoint, what was applied before the failure stays.
RestoreNothing == Done /\ UNCHANGED <<category, slots, deck>>

Restore ==
    /\ rows' = saved.rows /\ revision' = saved.revision
    /\ identity' = saved.identity /\ log' = saved.log
    /\ Done
    /\ UNCHANGED <<category, slots>>

\* The next change of the running act, and the act without it.
Applying == ~Idle /\ acts[1].changes # {}
First == CHOOSE x \in acts[1].changes : \A y \in acts[1].changes : x.at <= y.at
Current == First.change
Applied ==
    /\ acts' = [acts EXCEPT ![1].changes = @ \ {First}]
    /\ UNCHANGED <<category, slots, revision, identity, log, saved>>

ApplyAdd ==
    /\ Applying
    /\ LET a == Current IN
       /\ a.action = "add" /\ Addable(a)
       /\ rows' = [rows EXCEPT ![a.card] = Added(a)]
       /\ logged' = Append(logged, [action |-> "add", card |-> a.card, quantity |-> a.quantity,
                                    item |-> a.item, wasMaybe |-> Shortlisted(a.card)])
    /\ Applied

ApplyCut ==
    /\ Applying
    /\ LET c == Current IN
       /\ c.action = "cut" /\ InDeck(c.card)
       /\ rows' = [rows EXCEPT ![c.card] = CutTo(c)]
       /\ logged' = Append(logged,
             [action |-> "cut", card |-> c.card, quantity |-> Taken(c), item |-> c.item,
              slot |-> rows[c.card].slot, secondary |-> rows[c.card].secondary,
              role |-> rows[c.card].role, parked |-> c.park])
    /\ Applied

\* A role the card already has is no change and is not logged.
ApplyRole ==
    /\ Applying
    /\ LET r == Current IN
       /\ r.action = "role" /\ Applicable(r)
       /\ rows' = [rows EXCEPT ![r.card].role = r.role]
       /\ logged' = IF r.role = rows[r.card].role THEN logged
                    ELSE Append(logged, [action |-> "role", card |-> r.card,
                                         quantity |-> rows[r.card].quantity,
                                         from |-> rows[r.card].role])
    /\ Applied

\* A change that cannot be applied takes the whole request back.
Refuse ==
    /\ Applying
    /\ ~Applicable(Current)
    /\ Restore

\* The process dies: the database reopens as it was before the request.
Crash == ~Idle /\ Restore

EntryOf(act) ==
    [kind |-> act.kind, via |-> act.via, revision |-> revision + 1, cards |-> logged,
     proposal |-> act.proposal, undoOf |-> act.undoOf, undoneBy |-> None]

Marked(act) ==
    [i \in DOMAIN log |-> IF i = act.undoOf THEN [log[i] EXCEPT !.undoneBy = Len(log) + 1] ELSE log[i]]

\* The end of applyChanges: one revision, the identity and one log entry.  An
\* edit that changed nothing leaves none; an undo that changed nothing fails.
Land ==
    /\ ~Idle /\ acts[1].changes = {}
    /\ IF logged = <<>> /\ acts[1].kind = "undo" THEN Restore
       ELSE /\ IF logged = <<>> THEN UNCHANGED <<revision, identity, log>>
               ELSE /\ revision' = revision + 1
                    /\ identity' = Zone("commander")
                    /\ log' = Append(Marked(acts[1]), EntryOf(acts[1]))
            /\ acts' = Tail(acts) /\ logged' = <<>>
            /\ saved' = IF Tail(acts) = <<>> THEN None ELSE saved
            /\ UNCHANGED <<category, slots, rows>>

-----------------------------------------------------------------------------
(* Requests that change membership *)

Edit(via, changes) ==
    /\ DirectEdit(via)
    /\ Begin(<<Plan("edit", via, changes)>>)

EditOne(change) == Edit("ui", {At(1, change)})

AddCard(c, q, s, r) == EditOne(Add(c, q, s, {Keep}, r, None))

RemoveCard(c) ==
    /\ ~Shortlisted(c)
    /\ EditOne(Cut(c, All, FALSE, None))

MoveCard(c) ==
    /\ Present(c)
    /\ EditOne(IF InDeck(c) THEN Cut(c, 1, TRUE, None) ELSE Add(c, 1, Keep, {Keep}, "card", None))

SetRole(c, r) == EditOne(Become(c, r))

SetQuantity(c, q) ==
    /\ InDeck(c) /\ q # rows[c].quantity
    /\ EditOne(IF q > rows[c].quantity THEN Add(c, q - rows[c].quantity, Keep, {Keep}, "card", None)
               ELSE Cut(c, rows[c].quantity - q, FALSE, None))

\* edit_cards: demotions, then removals, additions and the new command zone,
\* every one planned against the rows as they are before any is applied.
EditCards(e) ==
    LET chosen == IF e.commanders = None THEN <<>> ELSE e.commanders
        arriving(c) == \E i \in DOMAIN e.add : e.add[i].card = c
        n == Len(ByName)
        demoted == {i \in 1 .. n : /\ e.commanders # None
                                   /\ ByName[i] \in Zone("commander")
                                   /\ \A j \in DOMAIN chosen : chosen[j] # ByName[i]}
        rest == e.remove \o e.add \o
                [i \in DOMAIN chosen |-> IF InDeck(chosen[i]) \/ arriving(chosen[i])
                                         THEN Become(chosen[i], "commander")
                                         ELSE Add(chosen[i], 1, Keep, {Keep}, "commander", None)]
    IN Edit("agent", {At(i, Become(ByName[i], "card")) : i \in demoted}
                     \cup {At(n + i, rest[i]) : i \in DOMAIN rest})

-----------------------------------------------------------------------------
(* Undo *)

\* Mutant: a card that comes back keeps its primary slot only.
InverseOfPrimaryOnly(r) ==
    IF r.action = "add"
    THEN IF ~InDeck(r.card) THEN None
         ELSE IF r.wasMaybe THEN Cut(r.card, 1, TRUE, None)
         ELSE Cut(r.card, r.quantity, FALSE, None)
    ELSE IF r.action = "cut"
    THEN IF InDeck(r.card) /\ r.parked THEN None
         ELSE Add(r.card, r.quantity, IF r.slot \in Live THEN r.slot ELSE None, {}, "card", None)
    ELSE None

\* What reverses one logged row, given the rows as they are now; None where the
\* deck has moved past it.
InverseOf(r) ==
    IF r.action = "add"
    THEN IF ~InDeck(r.card) THEN None
         ELSE IF r.wasMaybe THEN Cut(r.card, 1, TRUE, None)
         ELSE Cut(r.card, r.quantity, FALSE, None)
    ELSE IF r.action = "cut"
    THEN IF InDeck(r.card) /\ r.parked THEN None
         ELSE IF Present(r.card) THEN Add(r.card, r.quantity, Keep, {Keep}, "card", None)
         ELSE Add(r.card, r.quantity, IF r.slot \in Live THEN r.slot ELSE None,
                  (r.secondary \cap Live) \ {r.slot}, "card", None)
    ELSE None

\* The role a logged row took away, to be given back once the rest is done.
RoleBack(r) ==
    IF r.action = "role" /\ InDeck(r.card) THEN Become(r.card, r.from)
    ELSE IF r.action = "cut" /\ ~InDeck(r.card) /\ r.role # "card" THEN Become(r.card, r.role)
    ELSE None

Demotion(r) == IF RoleBack(r) # None /\ RoleBack(r).role = "card" THEN RoleBack(r) ELSE None
Promotion(r) == IF RoleBack(r) # None /\ RoleBack(r).role # "card" THEN RoleBack(r) ELSE None

\* Newest row first; demotions before promotions, so that a swapped commander
\* frees its seat.
ReversalOf(cards) ==
    LET n == Len(cards)
        change(k) == IF k <= n THEN InverseOf(cards[n + 1 - k])
                     ELSE IF k <= 2 * n THEN Demotion(cards[2 * n + 1 - k])
                     ELSE Promotion(cards[3 * n + 1 - k])
    IN {At(k, change(k)) : k \in {j \in 1 .. 3 * n : change(j) # None}}

\* Mutant: an undo can be undone.
UndoableAgain(i) == log[i].kind # "reject" /\ log[i].undoneBy = None

Undoable(i) == log[i].kind \notin {"reject", "undo"} /\ log[i].undoneBy = None

Undo(i) ==
    /\ Editable /\ Undoable(i)
    /\ Begin(<<[Plan("undo", "ui", ReversalOf(log[i].cards)) EXCEPT !.undoOf = i]>>)

-----------------------------------------------------------------------------
(* Organisation: no revision, no log *)

Organising == Idle /\ Editable /\ UNCHANGED <<category, revision, identity, log, running>>

CreateSlot(s) ==
    /\ Organising /\ slots[s] = "unmade"
    /\ slots' = [slots EXCEPT ![s] = "live"]
    /\ UNCHANGED rows

\* Mutant: only the primary assignment is cleared.
DeleteSlotPrimary(s) ==
    /\ Organising /\ s \in Live
    /\ slots' = [slots EXCEPT ![s] = "deleted"]
    /\ rows' = [c \in Card |-> IF ~Present(c) THEN None
                ELSE [rows[c] EXCEPT !.slot = IF @ = s THEN None ELSE @]]

\* Foreign keys clear the slot wherever a card is filed in it.
DeleteSlot(s) ==
    /\ Organising /\ s \in Live
    /\ slots' = [slots EXCEPT ![s] = "deleted"]
    /\ rows' = [c \in Card |-> IF ~Present(c) THEN None
                ELSE [rows[c] EXCEPT !.slot = IF @ = s THEN None ELSE @, !.secondary = @ \ {s}]]

OrganizeCard(c, primary, secondary) ==
    /\ Organising /\ Present(c)
    /\ Assignable(primary, secondary)
    /\ rows' = [rows EXCEPT ![c].slot = primary, ![c].secondary = secondary]
    /\ UNCHANGED slots

\* Shortlisting a card that already is only touches its note.
ShortlistCard(c) ==
    /\ Organising /\ ~Present(c)
    /\ rows' = [rows EXCEPT ![c] = [maybe |-> TRUE, quantity |-> 1, role |-> "card",
                                    slot |-> None, secondary |-> {}]]
    /\ UNCHANGED slots

\* Mutant: no guard on the deck's category.
UnshortlistArchived(c) ==
    /\ Idle /\ Shortlisted(c)
    /\ rows' = [rows EXCEPT ![c] = None]
    /\ UNCHANGED <<category, slots, revision, identity, log, running>>

UnshortlistCard(c) ==
    /\ Organising /\ Shortlisted(c)
    /\ rows' = [rows EXCEPT ![c] = None]
    /\ UNCHANGED slots

SetDeckCategory(new) ==
    /\ Idle
    /\ category' = new
    /\ UNCHANGED <<slots, deck, running>>

-----------------------------------------------------------------------------
\* createDeck: an agent's deck is theorycrafted, the owner may classify it.
Init ==
    /\ category \in Category
    /\ slots = [s \in Slot |-> "unmade"]
    /\ rows = [c \in Card |-> None]
    /\ revision = 0 /\ identity = {}
    /\ log = <<>>
    /\ acts = <<>> /\ logged = <<>> /\ saved = None

Request ==
    \/ \E c \in Card, q \in Copies, s \in Live \cup {Keep}, r \in Role : AddCard(c, q, s, r)
    \/ \E c \in Card : RemoveCard(c) \/ MoveCard(c)
    \/ \E c \in Card, r \in Role : SetRole(c, r)
    \/ \E c \in Card, q \in Copies : SetQuantity(c, q)
    \/ \E e \in EditRequests : EditCards(e)
    \/ \E i \in DOMAIN log : Undo(i)

Organisation ==
    \/ \E s \in Slot : CreateSlot(s) \/ DeleteSlot(s)
    \/ \E c \in Card, p \in Live \cup {None}, ss \in SUBSET Live : OrganizeCard(c, p, ss)
    \/ \E c \in Card : ShortlistCard(c) \/ UnshortlistCard(c)
    \/ \E new \in Category : SetDeckCategory(new)

Working == ApplyAdd \/ ApplyCut \/ ApplyRole \/ Refuse \/ Land \/ Crash

Next == Request \/ Organisation \/ Working
Spec == Init /\ [][Next]_vars

-----------------------------------------------------------------------------
(* Properties *)

\* Every variable keeps its type, in the middle of a request too: a row that
\* exists has at least one copy and is filed in slots that exist.
TypeOK ==
    /\ category \in Category
    /\ slots \in [Slot -> {"unmade", "live", "deleted"}]
    /\ rows \in [Card -> {None} \cup Row]
    /\ \A c \in Card : Present(c) => Assignable(rows[c].slot, rows[c].secondary)
    /\ revision \in Nat /\ identity \subseteq Card
    /\ log \in Seq(Entry)
    /\ acts \in Seq(Act)
    /\ logged \in Seq(LogCard)
    /\ saved \in IF Idle THEN {None} ELSE Deck

\* assertRoleCapacity and recomputeIdentity: at every moment at most two
\* commanders and one companion, however many changes, promotions and undos it
\* took; the maybe list holds one plain copy of a card; and between requests
\* the deck's identity is that of its commanders.
Fits(deckRows) ==
    /\ Cardinality(Holding(deckRows, "commander")) <= 2
    /\ Cardinality(Holding(deckRows, "companion")) <= 1
    /\ \A c \in Card : deckRows[c] # None /\ deckRows[c].maybe =>
          deckRows[c].quantity = 1 /\ deckRows[c].role = "card"
CommandZoneFits == Fits(rows) /\ (Idle => identity = Zone("commander"))

\* "Applied together, bump the revision once, and leave one log entry"
\* (membership.ts): every entry but a rejection stands for exactly one
\* revision, and the deck's revision is the last one logged.
Changing(l) == {i \in DOMAIN l : l[i].kind # "reject"}
Counted(n, l) ==
    /\ \A i \in DOMAIN l : l[i].revision = Cardinality({j \in Changing(l) : j <= i})
    /\ n = Cardinality(Changing(l))
RevisionCountsTheLog == Counted(revision, log)

\* undo_of and undone_by: an entry is reversed by at most one later undo, the
\* two name each other, and an undo or a rejection is never reversed.
Linked(l) ==
    \A i \in DOMAIN l :
        /\ l[i].undoneBy # None =>
              /\ l[i].undoneBy \in i + 1 .. Len(l)
              /\ l[l[i].undoneBy].undoOf = i
              /\ l[i].kind \notin {"undo", "reject"}
        /\ l[i].undoOf # None =>
              /\ l[i].kind = "undo"
              /\ l[i].undoOf \in 1 .. i - 1
              /\ l[l[i].undoOf].undoneBy = i
UndoneOnce == Linked(log)

\* The deck as a reader sees it: what the running request would bring back.
Committed == IF Idle THEN [rows |-> rows, revision |-> revision, identity |-> identity, log |-> log]
             ELSE saved

\* The deck as DeckLedger has it.
Ledger == INSTANCE DeckLedger WITH rows <- Committed.rows, revision <- Committed.revision,
                                   identity <- Committed.identity, log <- Committed.log

\* To its readers every request is one act or none (withTransaction,
\* applyChanges): however it works, fails or dies, the deck implements DeckLedger.
RequestsAreAtomic == Ledger!Spec

Cards(r) == [c \in Card |-> IF r[c] # None /\ ~r[c].maybe THEN [n |-> r[c].quantity, as |-> r[c].role]
                            ELSE None]

\* The permission rule of applyChanges, over whole requests: the cards of the
\* deck change only together with its revision and log, never while it is
\* archived, and on a Paper deck only by entries of the owner.
CardsChangeByTheRules ==
    [][Cards(Committed.rows)' # Cards(Committed.rows) =>
         /\ Committed'.revision > Committed.revision
         /\ Len(Committed'.log) > Len(Committed.log)
         /\ category # "archived"
         /\ category = "paper" => \A i \in Len(Committed.log) + 1 .. Len(Committed'.log) :
                                      Committed'.log[i].via = "ui"]_vars

\* requireEditableDeck: an archived deck, its organisation included, is
\* read-only; only its lifecycle may change.
ArchivedIsFrozen ==
    [][category = "archived" => UNCHANGED <<slots, deck, running>>]_vars
=============================================================================
