----------------------------- MODULE MCPlaytest -----------------------------
\* What the users of a playtest do, in plans small enough to be followed to the end.
EXTENDS PlaytestInvariant

CONSTANTS card1, card2, token1, w1, w2, MaxVersion

Zones == {"library", "hand", "battlefield", "exile"}

\* A game played at one table, in a window that never falls behind.
Both(zone) == [type |-> "move", ids |-> <<card1, card2>>, zone |-> zone, top |-> FALSE]
Attach(x, host) == [type |-> "attach", id |-> x, host |-> host]
Game == {[type |-> "mulligan"], [type |-> "bottom", ids |-> <<card1>>], [type |-> "keep"],
         [type |-> "mode", mode |-> "commander"],
         Both("battlefield"), Attach(card1, card2), Attach(card2, card1), [type |-> "token", copy |-> card1],
         Attach(token1, card1), [type |-> "move", ids |-> <<card1>>, zone |-> "hand", top |-> TRUE],
         [type |-> "remove", ids |-> <<token1>>],
         [type |-> "undo"], [type |-> "redo"]}
\* The actions that only change what is there.
Upkeep == {[type |-> "keep"], [type |-> "draw", count |-> 1], [type |-> "shuffle"],
           Both("battlefield"), [type |-> "tap", ids |-> <<card1>>, tapped |-> TRUE],
           [type |-> "untap"], [type |-> "life", value |-> 20], [type |-> "undo"]}

Nothing == [windows |-> {}, saved |-> TRUE, elsewhere |-> 0, texts |-> 0, acts |-> 0, starts |-> 0,
            saves |-> 0, failures |-> 0, actions |-> {[type |-> "keep"]}]
One == [Nothing EXCEPT !.windows = {w1}]
Two == [Nothing EXCEPT !.windows = {w1, w2}]

AllPlans ==
    {[Nothing EXCEPT !.actions = Game, !.elsewhere = 7],
     [Nothing EXCEPT !.actions = Upkeep, !.elsewhere = 5],
     \* One window on a bad network, and one whose table changes elsewhere.
     [One EXCEPT !.texts = 1, !.saves = 2, !.failures = 2],
     [One EXCEPT !.acts = 2, !.failures = 2, !.elsewhere = 1],
     [One EXCEPT !.texts = 1, !.saves = 1, !.failures = 1, !.elsewhere = 1],
     \* A new game while something is being written, the first or another.
     [One EXCEPT !.texts = 1, !.starts = 1, !.failures = 1],
     [One EXCEPT !.texts = 1, !.starts = 2, !.saved = FALSE],
     \* Two windows on one table.
     [Two EXCEPT !.texts = 2],
     [Two EXCEPT !.texts = 1, !.saves = 1],
     [Two EXCEPT !.acts = 2]}

Bounded == session = None \/ session.version <= MaxVersion \/ plan.windows = {}
=============================================================================
