------------------------- MODULE ProposalInvariant -------------------------
(***************************************************************************)
(* The inductive invariant behind the theorems of ProposalReview_proofs:   *)
(* the proposals and the log explain each other at every moment, and what  *)
(* a failing request would bring back explain each other as well.          *)
(***************************************************************************)
EXTENDS ProposalReview, DeckInvariant

\* What is kept of proposals together with the log that explains them.
Book(ps, l) ==
    /\ WellFormed(ps) /\ Grouped(ps) /\ Unrepeated(ps) /\ Explained(ps, l)
    /\ \A e \in DOMAIN l : l[e].kind \in {"accept", "reject"} => l[e].proposal \in DOMAIN ps

\* The item of the proposal p at the position i, as changes and log rows name it.
Id(p, i) == [proposal |-> p, index |-> i]

\* An acceptance rules on pending items of one current proposal, on whole
\* groups, and carries a change for each of them that is not logged yet.
Accepts(act, done) ==
    LET p == act.proposal
    IN /\ p \in DOMAIN proposals /\ IsCurrent(p)
       /\ act.items # {}
       /\ \A x \in act.items : x.proposal = p /\ x.index \in Pending(p)
       /\ \A x \in act.items, j \in DOMAIN proposals[p].items :
             /\ proposals[p].items[x.index].group = proposals[p].items[j].group
             /\ proposals[p].items[x.index].group # NoGroup
             => Id(p, j) \in act.items
       /\ \A x \in act.changes : x.change.action # "role" /\ x.change.item \in act.items
       /\ \A k \in DOMAIN done : done[k].action # "role" /\ done[k].item \in act.items
       /\ \A x \in act.items : \/ \E y \in act.changes : y.change.item = x
                               \/ \E k \in DOMAIN done : done[k].item = x

\* The acceptances of a batch are of different proposals, and nothing else runs
\* with them.
BatchIsSound ==
    /\ \A k \in DOMAIN acts : acts[k].kind = "accept" =>
          Accepts(acts[k], IF k = 1 THEN logged ELSE <<>>)
    /\ \A j, k \in DOMAIN acts : acts[j].kind = "accept" =>
          acts[k].kind = "accept" /\ (acts[j].proposal = acts[k].proposal => j = k)

\* While a request runs, it only adds rulings to those its savepoint has; a
\* request of the deck's own adds none.
SavedBookIsOpen ==
    ~Idle => /\ Book(savedProposals, saved.log)
             /\ Len(savedProposals) = Len(proposals)
             /\ \A p \in DOMAIN proposals :
                   /\ savedProposals[p].items = proposals[p].items
                   /\ savedProposals[p].base = proposals[p].base
                   /\ \A i \in DOMAIN proposals[p].items :
                         savedProposals[p].ruling[i] # "pending" =>
                            proposals[p].ruling[i] = savedProposals[p].ruling[i]
             /\ acts[1].kind # "accept" => savedProposals = proposals

PInv == IInv /\ ProposalsOK /\ Book(proposals, log) /\ BatchIsSound /\ SavedBookIsOpen

\* A proposal written against the deck's present revision was written against
\* its present cards, and an acceptance that needed no acknowledgement is of
\* such a proposal.
ReviewedIsCurrent ==
    /\ seen \in Seq([Card -> {None} \cup [n : Nat \ {0}, as : Role]])
    /\ Len(seen) = Len(proposals)
    /\ \A p \in DOMAIN proposals :
          /\ proposals[p].base <= Committed.revision
          /\ proposals[p].base = Committed.revision => seen[p] = Cards(Committed.rows)
    /\ \A k \in DOMAIN acts : acts[k].kind = "accept" /\ ~acts[k].consent =>
          proposals[acts[k].proposal].base = saved.revision

RInv == PInv /\ ReviewedIsCurrent
=============================================================================
