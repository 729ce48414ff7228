------------------------- MODULE DeckHistoryInvariant -------------------------
(***************************************************************************)
(* The inductive invariant of DeckHistory: what a log entry says of the    *)
(* rows before and after it, and how far an undo of the newest entry has   *)
(* brought each card back.                                                 *)
(***************************************************************************)
EXTENDS DeckHistory, DeckInvariant

\* What the logged row r says of a card that had row x and now has row y.
Did(r, x, y) ==
    \/ /\ r.action = "add" /\ y # None /\ ~y.maybe
       /\ \/ r.wasMaybe /\ x # None /\ x.maybe /\ y.quantity = r.quantity
          \/ ~r.wasMaybe /\ x = None /\ y.quantity = r.quantity
          \/ ~r.wasMaybe /\ x # None /\ ~x.maybe /\ y = [x EXCEPT !.quantity = @ + r.quantity]
    \/ /\ r.action = "cut" /\ x # None /\ ~x.maybe
       /\ r.slot = x.slot /\ r.secondary = x.secondary /\ r.role = x.role
       /\ \/ r.parked /\ r.quantity = x.quantity
             /\ y = [x EXCEPT !.maybe = TRUE, !.quantity = 1, !.role = "card"]
          \/ ~r.parked /\ r.quantity = x.quantity /\ y = None
          \/ ~r.parked /\ r.quantity < x.quantity /\ y = [x EXCEPT !.quantity = @ - r.quantity]
    \/ /\ r.action = "role" /\ x # None /\ ~x.maybe /\ y # None /\ r.from = x.role
       /\ y = [x EXCEPT !.role = y.role] /\ y.role # x.role

\* The rows b became the rows a by the logged rows of cards, each of another card.
Explains(cards, b, a) ==
    OnceEach(cards) =>
        \A c \in Card :
            \/ a[c] = b[c] /\ \A i \in DOMAIN cards : cards[i].card # c
            \/ \E i \in DOMAIN cards : cards[i].card = c /\ Did(cards[i], b[c], a[c])

Newest == log[Len(log)].cards

\* Rows as they are between requests.
Plain(r) ==
    /\ r \in [Card -> {None} \cup Row]
    /\ \A c \in Card : r[c] # None =>
          /\ r[c].slot \notin r[c].secondary
          /\ r[c].maybe => r[c].quantity = 1 /\ r[c].role = "card"

LastIsExplained ==
    /\ log # <<>> => /\ last \in [{"before", "after"} -> [Card -> {None} \cup Row]]
                     /\ Plain(last.before) /\ Explains(Newest, last.before, last.after)
    /\ ~Idle => Explains(logged, saved.rows, rows)

\* The part of the running act that is about c, and all of it that row i of the
\* newest entry asks for, given the rows as they are.
Todo(c) == {x \in acts[1].changes : x.change.card = c}
WholeReversal(i) ==
    LET n == Len(Newest)
        r == Newest[i]
    IN {x \in {At(n + 1 - i, InverseOf(r)), At(2 * n + 1 - i, Demotion(r)),
               At(3 * n + 1 - i, Promotion(r))} : x.change # None}

\* While the newest entry is undone, a card is as the entry left it and has all
\* of its reversal before it, or it is back but for its role, or it is back.
GoesBack(c) ==
    \/ Todo(c) = {} /\ Kept(rows[c]) = Kept(last.before[c])
    \/ \E i \in DOMAIN Newest :
          /\ Newest[i].card = c
          /\ \/ rows[c] = last.after[c] /\ Todo(c) = WholeReversal(i)
             \/ /\ rows[c] # None /\ ~rows[c].maybe
                /\ last.before[c] # None /\ ~last.before[c].maybe
                /\ Kept(rows[c]) = [Kept(last.before[c]) EXCEPT !.role = "card"]
                /\ Todo(c) = {At(3 * Len(Newest) + 1 - i, Become(c, last.before[c].role))}
UndoGoesBack == Reversing /\ OnceEach(Newest) => \A c \in Card : GoesBack(c)

\* The copies of c among the rows r.
Held(r, c) == IF r[c] # None /\ ~r[c].maybe THEN r[c].quantity ELSE 0

\* In the middle of a request, too, the deck holds what its log and the rows the
\* running act has gathered add up to, and so does what the savepoint keeps.
CopiesAreLogged ==
    \A c \in Card :
        /\ Recorded(c, log) + Net(c, logged) = Held(rows, c)
        /\ ~Idle => Recorded(c, saved.log) = Held(saved.rows, c)

HInv == IInv /\ OneAct /\ LastIsExplained /\ UndoGoesBack /\ CopiesAreLogged
=============================================================================
