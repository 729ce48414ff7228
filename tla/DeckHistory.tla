---------------------------- MODULE DeckHistory ----------------------------
(***************************************************************************)
(* DeckMembership with what the newest log entry found and left, for the   *)
(* questions its own state cannot answer: does the log account for the     *)
(* deck, and does undo bring back what was there.                          *)
(***************************************************************************)
EXTENDS DeckMembership, SequencesExt

VARIABLE last    \* the rows before and after the newest entry, None at first

hvars == <<vars, last>>

HInit == Init /\ last = None
HNext ==
    /\ Next
    /\ last' = IF Len(log') > Len(log) THEN [before |-> saved.rows, after |-> rows] ELSE last
HSpec == HInit /\ [][HNext]_hvars

-----------------------------------------------------------------------------

\* Copies of c that one logged row put into the deck.
Moved(c, r) == IF r.card # c THEN 0
               ELSE IF r.action = "add" THEN r.quantity
               ELSE IF r.action = "cut" THEN -r.quantity ELSE 0
Total(amounts) == FoldLeft(LAMBDA n, x : n + x, 0, amounts)
Net(c, cards) == Total([i \in DOMAIN cards |-> Moved(c, cards[i])])
Recorded(c, entries) ==
    Total([i \in DOMAIN entries |-> IF entries[i].kind = "reject" THEN 0 ELSE Net(c, entries[i].cards)])

\* "This log is the version history" (spec 8.2): between requests, what its
\* entries put in and took out is what the deck holds, card by card.
LogExplainsDeck ==
    Idle => \A c \in Card : Recorded(c, log) = IF InDeck(c) THEN rows[c].quantity ELSE 0

-----------------------------------------------------------------------------
(* Undo of the newest entry, nothing having changed since *)

Reversing == /\ ~Idle /\ acts[1].kind = "undo"
             /\ acts[1].undoOf = Len(log) /\ saved.rows = last.after

\* A row as undo is to leave it: filed as far as the slots still exist, and a
\* card on the maybe list filed anywhere.
Kept(row) == IF row = None THEN None
             ELSE IF row.maybe THEN [row EXCEPT !.slot = None, !.secondary = {}]
             ELSE [row EXCEPT !.slot = IF @ \in Live THEN @ ELSE None, !.secondary = @ \cap Live]

OnceEach(cards) == \A i, j \in DOMAIN cards : cards[i].card = cards[j].card => i = j

\* "Undo is the reversal of a log entry" (spec 8.2): when the newest entry
\* touched each of its cards once, its undo restores every row: copies, role,
\* whether it is in the deck, and where it was filed there.
RowsComeBack ==
    Reversing /\ Len(log') > Len(log) /\ OnceEach(log[Len(log)].cards) =>
        \A c \in Card : Kept(rows[c]) = Kept(last.before[c])
UndoRestores == [][RowsComeBack]_hvars

\* The newest entry can always be undone: no change of its reversal is refused.
NewestCanBeUndone == Reversing /\ Applying => Applicable(Current)
=============================================================================
