------------------------------- MODULE MCDeck -------------------------------
\* Cards, and what edit_cards is asked to do with them, for the deck's runs.
EXTENDS DeckHistoryInvariant

CONSTANTS c1, c2, c3

\* Nothing in the deck's runs names a slot.
AlikeSlots == Permutations(Slot)

OneCard == <<c1>>
ThreeCards == <<c1, c2, c3>>

TakeOut(x, park) == Cut(x, IF park THEN 1 ELSE All, park, None)
Give(x) == Add(x, 1, Keep, {Keep}, "card", None)
Ask(remove, add, commanders) == [remove |-> remove, add |-> add, commanders |-> commanders]

\* One card parked, taken out and put back at once, or made the commander.
Edits == {Ask(<<TakeOut(c1, TRUE)>>, <<>>, None),
          Ask(<<TakeOut(c1, FALSE)>>, <<Give(c1)>>, None),
          Ask(<<>>, <<>>, <<c1>>)}

\* A pair of partners, a swap of commanders, and one commander too many.
Partners == {Ask(<<>>, <<>>, <<c1, c2>>),
             Ask(<<TakeOut(c1, FALSE)>>, <<>>, <<c2, c3>>),
             Ask(<<>>, <<>>, <<c1, c2, c3>>)}

\* The card named as a commander is also one of the cards to add.
EditsNamingTwice == {Ask(<<>>, <<Give(c1)>>, <<c1>>)}
=============================================================================
