----------------------------- MODULE DeckLedger -----------------------------
(***************************************************************************)
(* What a reader of one deck may rely on, whatever requests, failures and  *)
(* crashes lie in between: the deck moves from one act to the next in a    *)
(* single step, and each act leaves its revision, the identity that goes   *)
(* with the cards and one log entry.  DeckMembership implements this, with *)
(* an act's changes applied one at a time under a savepoint.               *)
(***************************************************************************)
EXTENDS Integers, FiniteSets, Sequences

CONSTANTS Card, Slot, None

VARIABLES category, slots, rows, revision, identity, log

lvars == <<category, slots, rows, revision, identity, log>>

InDeck(r) == {c \in Card : r[c] # None /\ ~r[c].maybe}
Holding(r, role) == {c \in InDeck(r) : r[c].role = role}
SameDeck(r, q) ==
    /\ InDeck(r) = InDeck(q)
    /\ \A c \in InDeck(r) : r[c].quantity = q[c].quantity /\ r[c].role = q[c].role

Init ==
    /\ category \in {"paper", "theorycrafted", "archived"}
    /\ slots = [s \in Slot |-> "unmade"] /\ rows = [c \in Card |-> None]
    /\ revision = 0 /\ identity = {} /\ log = <<>>

\* One act, possibly the undo of an earlier one: any cards that fit the command
\* zone, one revision, one entry.
Act(undone) ==
    /\ category # "archived"
    /\ undone # None => log[undone].undoneBy = None /\ log[undone].kind # "undo"
    /\ Len(log') = Len(log) + 1 /\ revision' = revision + 1
    /\ \A i \in DOMAIN log :
          log'[i] = IF i = undone THEN [log[i] EXCEPT !.undoneBy = Len(log')] ELSE log[i]
    /\ LET new == log'[Len(log')] IN
       /\ new.undoOf = undone /\ new.revision = revision'
       /\ category = "paper" => new.via = "ui"
    /\ Cardinality(Holding(rows', "commander")) <= 2
    /\ Cardinality(Holding(rows', "companion")) <= 1
    /\ identity' = Holding(rows', "commander")
    /\ UNCHANGED <<category, slots>>

\* Filing, slots and the maybe list: the deck itself stays as it is, and a slot
\* that is deleted stays so.
Organise ==
    /\ category # "archived"
    /\ SameDeck(rows, rows')
    /\ \A s \in Slot : slots[s] = "deleted" => slots'[s] = "deleted"
    /\ UNCHANGED <<category, revision, identity, log>>

Classify ==
    /\ category' \in {"paper", "theorycrafted", "archived"}
    /\ UNCHANGED <<slots, rows, revision, identity, log>>

Next == (\E undone \in {None} \cup DOMAIN log : Act(undone)) \/ Organise \/ Classify
Spec == Init /\ [][Next]_lvars
=============================================================================
