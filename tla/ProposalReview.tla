--------------------------- MODULE ProposalReview ---------------------------
(***************************************************************************)
(* DeckProposals with the cards each proposal was written against, to ask  *)
(* whether an acceptance applies to the deck that was reviewed.            *)
(***************************************************************************)
EXTENDS DeckProposals

VARIABLE seen   \* for each proposal, the deck's cards when it was made

rvars == <<pvars, seen>>

RInit == PInit /\ seen = <<>>
RNext ==
    /\ PNext
    /\ seen' = IF Len(proposals') > Len(proposals) THEN Append(seen, Cards(rows)) ELSE seen
RSpec == RInit /\ [][RNext]_rvars

-----------------------------------------------------------------------------

\* The stale guard of acceptItems and acceptProposals: an acceptance the owner
\* did not acknowledge as stale changes the very deck its proposal was written
\* against, the changes of its own batch excepted: copies, roles and cards.
AcceptedAsReviewed ==
    [][Len(log') > Len(log) /\ log'[Len(log')].kind = "accept" /\ ~acts[1].consent
         => Cards(saved.rows) = seen[acts[1].proposal]]_rvars

\* "A slot deleted since the proposal was made must not fail the accept"
\* (proposals.ts:343).
DeletedSlotsNeverFailAccepts ==
    (~Idle /\ acts[1].kind = "accept" /\ Applying /\ Current.action = "add") =>
        LET x == proposals[Current.item.proposal].items[Current.item.index]
        IN x.slot # None /\ x.slot \notin Live => Addable(Current)

\* "A card with several copies cannot be parked this way, because the maybe
\* list holds a card once" (spec 8.1): an acceptance nobody acknowledged as
\* stale parks a single copy.
ParkingTakesOneCopy ==
    (~Idle /\ acts[1].kind = "accept" /\ ~acts[1].consent /\ Applying) =>
        LET c == Current
        IN c.action = "cut" /\ c.park /\ InDeck(c.card) => rows[c.card].quantity = 1
=============================================================================
