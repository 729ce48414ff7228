--------------------------- MODULE DeckInvariant ---------------------------
(***************************************************************************)
(* The inductive invariant behind the theorems of DeckMembership_proofs:   *)
(* what the deck keeps while a request runs, and what its savepoint would  *)
(* bring back keeps as well.                                               *)
(***************************************************************************)
EXTENDS DeckMembership

\* What the savepoint holds is a deck as it was between requests.
SavedIsSound ==
    ~Idle => /\ \A c \in Card : saved.rows[c] # None =>
                   Assignable(saved.rows[c].slot, saved.rows[c].secondary)
             /\ Fits(saved.rows) /\ saved.identity = Holding(saved.rows, "commander")
             /\ Counted(saved.revision, saved.log) /\ Linked(saved.log)

\* The identity lags behind the command zone only while changes await their
\* log entry.
IdentityFollows ==
    /\ Idle => logged = <<>>
    /\ logged = <<>> => identity = Zone("commander")

\* An undo runs alone, against an entry nothing else has undone; no other act
\* names one; a rejection changes no cards and is no act.
ActsAreSound ==
    \A k \in DOMAIN acts :
        /\ acts[k].kind # "reject"
        /\ acts[k].kind # "undo" => acts[k].undoOf = None
        /\ acts[k].kind = "undo" =>
              /\ Len(acts) = 1
              /\ acts[k].undoOf \in DOMAIN log
              /\ log[acts[k].undoOf].undoneBy = None
              /\ log[acts[k].undoOf].kind \notin {"undo", "reject"}

\* Requests run on editable decks, on a Paper deck for the owner only, and what
\* they have changed so far is logged or about to be.
RequestIsLawful ==
    ~Idle => /\ Editable
             /\ category = "paper" => \A k \in DOMAIN acts : acts[k].via = "ui"
             /\ category = "paper" => \A i \in Len(saved.log) + 1 .. Len(log) : log[i].via = "ui"
             /\ saved.revision <= revision /\ Len(saved.log) <= Len(log)
             /\ saved.revision < revision => Len(saved.log) < Len(log)
             /\ Cards(rows) # Cards(saved.rows) => saved.revision < revision \/ logged # <<>>

IInv ==
    /\ TypeOK /\ CommandZoneFits /\ RevisionCountsTheLog /\ UndoneOnce
    /\ SavedIsSound /\ IdentityFollows /\ ActsAreSound /\ RequestIsLawful

\* A request of this module is a single act: until it lands, nothing but the rows
\* has moved, and they only if something is to be logged.
OneAct ==
    ~Idle => /\ Len(acts) = 1
             /\ saved.revision = revision /\ saved.identity = identity /\ saved.log = log
             /\ logged = <<>> => saved.rows = rows
=============================================================================
