--------------------------- MODULE DeckProposals ---------------------------
(***************************************************************************)
(* Proposals and decisions (packages/deck-builder/src/deck/proposals.ts)   *)
(* over one deck: an agent proposes adds and cuts against the revision it  *)
(* read, may amend or withdraw what is still pending, and the owner rules  *)
(* on items, on groups as units, or accepts several proposals at once.  An *)
(* acceptance is one act of DeckMembership for each proposal; the acts of  *)
(* one batch share its transaction, and the marks on the items with them.  *)
(*                                                                         *)
(* Whoever may amend a proposal (its author, or the owner) can, so authors *)
(* are left out, with summaries, reasons and timestamps.                   *)
(***************************************************************************)
EXTENDS DeckMembership, Positions

CONSTANTS
    Proposable,    \* the item lists agents propose
    CopyLimit,     \* how many copies of each card a deck may hold
    MaxProposals   \* bound

VARIABLES
    proposals,     \* proposals and proposal_items, oldest first
    savedProposals \* what the running request's savepoint would bring back

pvars == <<vars, proposals, savedProposals>>

Input == [action : {"add", "cut"}, card : Card, slot : {None} \cup Slot,
          secondary : SUBSET (Slot \cup {Keep}), park : BOOLEAN, group : Nat]
NoGroup == 0
Proposal ==
    [base : Nat, status : {"open", "resolved"},
     disposition : {"current", "withdrawn", "superseded"}, successor : {None} \cup Nat,
     items : Seq(Input), ruling : Seq({"pending", "accepted", "rejected"})]

ASSUME ProposalAssumption ==
    /\ Proposable \subseteq Seq(Input) /\ MaxProposals \in Nat
    /\ CopyLimit \in [Card -> Nat \ {0}]
    /\ None \notin Seq(Proposal)

IsCurrent(p) == proposals[p].status = "open" /\ proposals[p].disposition = "current"
PendingIn(ps, p) == {i \in DOMAIN ps[p].items : ps[p].ruling[i] = "pending"}
Pending(p) == PendingIn(proposals, p)
\* Mutant: one change since is close enough.
StaleByTwo(p) == revision > proposals[p].base + 1

Stale(p) == proposals[p].base # revision
Quiet == UNCHANGED <<vars, savedProposals>>

-----------------------------------------------------------------------------
(* Proposing *)

\* Which purposes an add will have, as far as the proposal can tell.
ProposedPrimary(x) == IF x.slot # None THEN x.slot
                      ELSE IF Shortlisted(x.card) THEN rows[x.card].slot ELSE None
ProposedSecondary(x) == IF Keep \notin x.secondary THEN x.secondary
                        ELSE IF Shortlisted(x.card) THEN rows[x.card].secondary \ {ProposedPrimary(x)}
                        ELSE {}

AddProposable(x) ==
    /\ InDeck(x.card) => rows[x.card].quantity < CopyLimit[x.card]
    /\ Assignable(ProposedPrimary(x), ProposedSecondary(x))
    /\ ~x.park

CutProposable(x) ==
    /\ InDeck(x.card)
    /\ x.park => rows[x.card].quantity = 1
    /\ x.slot = None /\ x.secondary = {Keep}

\* Mutant: what is already pending is not looked at.
ValidByItself(items, open) ==
    /\ items # <<>>
    /\ \A i, j \in DOMAIN items :
          items[i].card = items[j].card /\ items[i].action = items[j].action => i = j
    /\ \A i \in DOMAIN items :
          IF items[i].action = "add" THEN AddProposable(items[i]) ELSE CutProposable(items[i])

\* createProposal's checks, given the proposals that are still open.
Valid(items, open) ==
    /\ items # <<>>
    /\ \A i, j \in DOMAIN items :
          items[i].card = items[j].card /\ items[i].action = items[j].action => i = j
    /\ \A i \in DOMAIN items :
          /\ IF items[i].action = "add" THEN AddProposable(items[i]) ELSE CutProposable(items[i])
          /\ \A p \in open : \A k \in Pending(p) :
                proposals[p].items[k].card = items[i].card => proposals[p].items[k].action # items[i].action

Open == {p \in DOMAIN proposals : proposals[p].status = "open"}

Fresh(items) ==
    [base |-> revision, status |-> "open", disposition |-> "current", successor |-> None,
     items |-> items, ruling |-> [i \in DOMAIN items |-> "pending"]]

Propose(items) ==
    /\ Idle /\ Editable /\ Len(proposals) < MaxProposals
    /\ Valid(items, Open)
    /\ proposals' = Append(proposals, Fresh(items))
    /\ Quiet

\* requireOwnPending: only current work that still waits can be revised.
Revisable(p) == Idle /\ Editable /\ IsCurrent(p) /\ Pending(p) # {}

Withdraw(p) ==
    /\ Revisable(p)
    /\ proposals' = [proposals EXCEPT ![p].status = "resolved", ![p].disposition = "withdrawn"]
    /\ Quiet

\* The replaced proposal is closed before the new one is validated, so the new
\* one may ask for the same changes.
Amend(p, items) ==
    /\ Revisable(p) /\ Len(proposals) < MaxProposals
    /\ Valid(items, Open \ {p})
    /\ proposals' = Append([proposals EXCEPT ![p].status = "resolved",
                                             ![p].disposition = "superseded",
                                             ![p].successor = Len(proposals) + 1], Fresh(items))
    /\ Quiet

-----------------------------------------------------------------------------
(* Deciding *)

\* Mutant: only the items that were named.
WidenedByName(p, named) == named

\* itemsToRule: the items named, widened to their groups; none may be ruled on.
Widened(p, named) ==
    {i \in DOMAIN proposals[p].items :
        \E j \in named : \/ i = j
                         \/ /\ proposals[p].items[j].group # NoGroup
                            /\ proposals[p].items[j].group = proposals[p].items[i].group}

\* Mutant: an item may be decided again while its proposal is open.
DecidableAgain(p, named) == Idle /\ Editable /\ named # {} /\ IsCurrent(p)

Decidable(p, named) ==
    /\ Idle /\ Editable
    /\ named # {} /\ IsCurrent(p)
    /\ Widened(p, named) \subseteq Pending(p)

\* A slot deleted since the proposal was made is left out of the add.
ChangeOf(p, i) ==
    LET x == proposals[p].items[i]
        id == [proposal |-> p, index |-> i]
    IN IF x.action = "cut" THEN Cut(x.card, 1, x.park, id)
       ELSE Add(x.card, 1, IF x.slot \in Live THEN x.slot ELSE Keep,
                IF Keep \in x.secondary THEN {Keep} ELSE (x.secondary \cap Live) \ {x.slot},
                "card", id)

\* Cuts first: a swap that replaces a commander needs the seat free.
Acceptance(p, items, acknowledged) ==
    LET n == Len(proposals[p].items)
        at(i) == IF proposals[p].items[i].action = "cut" THEN i ELSE n + i
    IN [kind |-> "accept", via |-> "ui", changes |-> {At(at(i), ChangeOf(p, i)) : i \in items},
        proposal |-> p, items |-> {[proposal |-> p, index |-> i] : i \in items},
        consent |-> acknowledged, undoOf |-> None]

Start(plan) == Begin(plan) /\ savedProposals' = proposals /\ UNCHANGED proposals

AcceptItems(p, named, acknowledged) ==
    /\ Decidable(p, named)
    /\ Stale(p) => acknowledged
    /\ Start(<<Acceptance(p, Widened(p, named), acknowledged)>>)

\* acceptProposals: every base is checked before any change is made.
AcceptProposals(approved, acknowledged) ==
    /\ approved # <<>>
    /\ \A i, j \in DOMAIN approved : approved[i] = approved[j] => i = j
    /\ \A i \in DOMAIN approved :
          /\ Decidable(approved[i], Pending(approved[i]))
          /\ Stale(approved[i]) => approved[i] \in acknowledged
    /\ Start([i \in DOMAIN approved |->
                 Acceptance(approved[i], Pending(approved[i]), approved[i] \in acknowledged)])

\* Mutant: a proposal is resolved only when a ruling covers all of it.
RuledAtOnce(p, items, outcome) ==
    [proposals EXCEPT ![p].ruling = [i \in DOMAIN @ |-> IF i \in items THEN outcome ELSE @[i]],
                      ![p].status = IF items = DOMAIN proposals[p].items THEN "resolved" ELSE @]

\* The items of p ruled, and p resolved once none is left.
Ruled(p, items, outcome) ==
    LET ruling == [i \in DOMAIN proposals[p].items |->
                      IF i \in items THEN outcome ELSE proposals[p].ruling[i]]
    IN [proposals EXCEPT ![p].ruling = ruling,
           ![p].status = IF \E i \in DOMAIN ruling : ruling[i] = "pending" THEN @ ELSE "resolved"]

\* Nothing changes; the decision is logged at the deck's present revision.
RejectItems(p, named) ==
    /\ Decidable(p, named) /\ Len(log) < MaxLog
    /\ LET items == Widened(p, named)
           listed == InOrder(items)
       IN /\ log' = Append(log,
                [kind |-> "reject", via |-> "ui", revision |-> revision, proposal |-> p,
                 undoOf |-> None, undoneBy |-> None,
                 cards |-> [k \in DOMAIN listed |->
                    [action |-> proposals[p].items[listed[k]].action,
                     card |-> proposals[p].items[listed[k]].card, quantity |-> 1,
                     item |-> [proposal |-> p, index |-> listed[k]]]]])
          /\ proposals' = Ruled(p, items, "rejected")
    /\ UNCHANGED <<category, slots, rows, revision, identity, running, savedProposals>>

-----------------------------------------------------------------------------
(* Running requests *)

\* A change of the deck's own: its savepoint covers the proposals as well.
OwnRequest == Request /\ savedProposals' = proposals /\ UNCHANGED proposals

WhileIdle == Organisation /\ UNCHANGED <<proposals, savedProposals>>

Apply == (ApplyAdd \/ ApplyCut \/ ApplyRole) /\ UNCHANGED <<proposals, savedProposals>>

\* Mutant: marks made before the failure stay.
AbandonMarked == (Refuse \/ Crash) /\ savedProposals' = None /\ UNCHANGED proposals

Abandon == (Refuse \/ Crash) /\ proposals' = savedProposals /\ savedProposals' = None

\* acceptItems after applyChanges: the items are marked in the same transaction.
Finish ==
    /\ Land
    /\ proposals' = IF acts[1].kind # "accept" THEN proposals
                    ELSE Ruled(acts[1].proposal, {x.index : x \in acts[1].items}, "accepted")
    /\ savedProposals' = IF acts' = <<>> THEN None ELSE savedProposals

PInit == Init /\ proposals = <<>> /\ savedProposals = None

Decide ==
    \E p \in DOMAIN proposals :
        \/ \E named \in SUBSET DOMAIN proposals[p].items :
              \/ \E acknowledged \in BOOLEAN : AcceptItems(p, named, acknowledged)
              \/ RejectItems(p, named)
        \/ \E approved \in [1 .. p -> DOMAIN proposals], acknowledged \in SUBSET DOMAIN proposals :
              AcceptProposals(approved, acknowledged)

PNext ==
    \/ OwnRequest \/ WhileIdle \/ Apply \/ Abandon \/ Finish
    \/ \E items \in Proposable :
          \/ Propose(items)
          \/ \E p \in DOMAIN proposals : Amend(p, items)
    \/ \E p \in DOMAIN proposals : Withdraw(p)
    \/ Decide

PSpec == PInit /\ [][PNext]_pvars

-----------------------------------------------------------------------------
(* Properties *)

\* Every variable of the proposals keeps its type, and an open proposal is one
\* that still has something to decide: withdrawn, superseded and fully ruled
\* proposals are closed, and a superseded one names the later one in its place.
WellFormed(ps) ==
    /\ ps \in Seq(Proposal)
    /\ \A p \in DOMAIN ps :
          LET it == ps[p] IN
          /\ Len(it.ruling) = Len(it.items)
          /\ it.status = "open" <=> it.disposition = "current" /\ PendingIn(ps, p) # {}
          /\ it.disposition = "superseded" <=> it.successor # None
          /\ it.successor # None => it.successor \in p + 1 .. Len(ps)
ProposalsOK ==
    /\ WellFormed(proposals)
    /\ savedProposals \in {None} \cup Seq(Proposal)
    /\ Idle <=> savedProposals = None

\* "A group is ruled on as a unit, so a swap justified by one argument cannot be
\* half-accepted" (spec 8.1), whatever items the owner names and whatever fails.
Grouped(ps) ==
    \A p \in DOMAIN ps : \A i, j \in DOMAIN ps[p].items :
        ps[p].items[i].group = ps[p].items[j].group /\ ps[p].items[i].group # NoGroup
            => ps[p].ruling[i] = ps[p].ruling[j]
GroupsAreUnits == Grouped(proposals)

\* createProposal: the owner never has two open items asking for the same
\* change of the same card, amendments included.
Unrepeated(ps) ==
    \A p, q \in DOMAIN ps : ps[p].status = "open" /\ ps[q].status = "open" =>
        \A i \in PendingIn(ps, p), j \in PendingIn(ps, q) :
            /\ ps[p].items[i].card = ps[q].items[j].card
            /\ ps[p].items[i].action = ps[q].items[j].action
            => p = q /\ i = j
OnePendingPerCard == Unrepeated(proposals)

\* Rows of a log that record an outcome of one item.
Records(l, p, i, kind) ==
    {e \in DOMAIN l : /\ l[e].kind = kind /\ l[e].proposal = p
                      /\ \E k \in DOMAIN l[e].cards :
                            /\ l[e].cards[k].action # "role"
                            /\ l[e].cards[k].item = [proposal |-> p, index |-> i]}

\* "Every decision is a row in the decisions log" (spec 8.2): between requests
\* an item is accepted exactly when one acceptance logged it, rejected exactly
\* when one rejection did, and it is never both: decisions land whole.
Explained(ps, l) ==
    \A p \in DOMAIN ps : \A i \in DOMAIN ps[p].items :
        /\ Cardinality(Records(l, p, i, "accept")) = (IF ps[p].ruling[i] = "accepted" THEN 1 ELSE 0)
        /\ Cardinality(Records(l, p, i, "reject")) = (IF ps[p].ruling[i] = "rejected" THEN 1 ELSE 0)
DecisionsAreLogged == Idle => Explained(proposals, log)

\* "Items already ruled on remain immutable" (requireOwnPending): no later
\* request, failure or crash changes a decision that was committed.
Rulings == IF Idle THEN proposals ELSE savedProposals
RulingsStand ==
    [][\A p \in DOMAIN Rulings : \A i \in DOMAIN Rulings[p].ruling :
         Rulings[p].ruling[i] # "pending" => Rulings'[p].ruling[i] = Rulings[p].ruling[i]]_pvars
=============================================================================
