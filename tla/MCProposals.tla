---------------------------- MODULE MCProposals ----------------------------
\* Proposals over two cards, of which a deck may hold two copies each.
EXTENDS ProposalInvariant

CONSTANTS c1, c2, s1, s2

TwoCards == <<c1, c2>>
OneCard == <<c1>>
Limits == [x \in Card |-> 2]
Both == {[remove |-> <<>>, add |-> <<Add(c1, 1, Keep, {Keep}, "card", None), Add(c2, 1, Keep, {Keep}, "card", None)>>,
          commanders |-> None]}

Ask(action, card, slot, secondary, park, group) ==
    [action |-> action, card |-> card, slot |-> slot, secondary |-> secondary, park |-> park, group |-> group]
PlainAdd(x, g) == Ask("add", x, None, {Keep}, FALSE, g)
PlainCut(x, park, g) == Ask("cut", x, None, {Keep}, park, g)

\* A swap of two cards as a unit; and two items to be ruled on one by one.
Items == {<<PlainAdd(c2, 1), PlainCut(c1, FALSE, 1)>>,
          <<PlainAdd(c1, NoGroup), PlainCut(c2, TRUE, NoGroup)>>}

\* An add with a primary and a secondary slot.
Filed == {<<Ask("add", c1, s1, {s2}, FALSE, NoGroup)>>}
=============================================================================
