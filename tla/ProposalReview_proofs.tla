----------------------- MODULE ProposalReview_proofs -----------------------
(***************************************************************************)
(* Theorems about proposals and decisions.  The deck under them keeps the  *)
(* inductive invariant of DeckMembership_proofs, whose step lemmas are     *)
(* cited for the changes a request makes to it; what is new here is the    *)
(* book of proposals, and how a batch of acceptances moves it and the log  *)
(* together.                                                               *)
(***************************************************************************)
EXTENDS ProposalInvariant, DeckMembership_proofs

-----------------------------------------------------------------------------
(* Operators *)

\* A proposal of a well formed book.
LEMMA ProposalFacts ==
    ASSUME NEW ps, WellFormed(ps), NEW p \in DOMAIN ps
    PROVE  /\ ps \in Seq(Proposal) /\ DOMAIN ps = 1 .. Len(ps) /\ Len(ps) \in Nat /\ p \in Nat
           /\ ps[p] \in Proposal /\ ps[p].items \in Seq(Input)
           /\ ps[p].base \in Nat /\ ps[p].status \in {"open", "resolved"}
           /\ ps[p].disposition \in {"current", "withdrawn", "superseded"}
           /\ ps[p].ruling \in Seq({"pending", "accepted", "rejected"})
           /\ DOMAIN ps[p].items = 1 .. Len(ps[p].items) /\ Len(ps[p].items) \in Nat
           /\ DOMAIN ps[p].ruling = DOMAIN ps[p].items
           /\ \A i \in DOMAIN ps[p].items :
                 ps[p].items[i] \in Input /\ ps[p].ruling[i] \in {"pending", "accepted", "rejected"}
<1>1. /\ ps \in Seq(Proposal) /\ DOMAIN ps = 1 .. Len(ps) /\ Len(ps) \in Nat /\ p \in Nat
      /\ ps[p] \in Proposal /\ Len(ps[p].ruling) = Len(ps[p].items)
  BY DEF WellFormed
<1>2. /\ ps[p].items \in Seq(Input) /\ ps[p].ruling \in Seq({"pending", "accepted", "rejected"})
      /\ ps[p].base \in Nat /\ ps[p].status \in {"open", "resolved"}
      /\ ps[p].disposition \in {"current", "withdrawn", "superseded"}
  BY <1>1 DEF Proposal
<1>3. QED  BY <1>1, <1>2

\* Rows that record an outcome, counted.
LEMMA NoneOrOne ==
    ASSUME NEW S, IsFiniteSet(S)
    PROVE  /\ Cardinality(S) = 0 <=> S = {}
           /\ \A x : S = {x} => Cardinality(S) = 1
  BY FS_EmptySet, FS_Singleton

LEMMA RecordsFinite ==
    ASSUME NEW l \in Seq(Entry), NEW p, NEW i, NEW kind
    PROVE  IsFiniteSet(Records(l, p, i, kind))
<1>1. IsFiniteSet(1 .. Len(l))
  BY FS_Interval
<1>2. Records(l, p, i, kind) \subseteq 1 .. Len(l)
  BY DEF Records
<1>3. QED  BY <1>1, <1>2, FS_Subset

-----------------------------------------------------------------------------
(* What the operations do to the book *)

\* The log m goes on from l with one more row.
LogsOne(l, m) ==
    /\ m \in Seq(Entry) /\ Len(m) = Len(l) + 1
    /\ \A e \in 1 .. Len(l) : m[e].kind = l[e].kind /\ m[e].proposal = l[e].proposal
                                                   /\ m[e].cards = l[e].cards

\* The last row of a log records an outcome of the item.
LastRecords(m, p, i, kind) ==
    /\ m[Len(m)].kind = kind /\ m[Len(m)].proposal = p
    /\ \E k \in DOMAIN m[Len(m)].cards :
          /\ m[Len(m)].cards[k].action # "role"
          /\ m[Len(m)].cards[k].item = [proposal |-> p, index |-> i]

LEMMA RecordsOfOneMore ==
    ASSUME NEW l \in Seq(Entry), NEW m, LogsOne(l, m), NEW p, NEW i, NEW kind
    PROVE  Records(m, p, i, kind) = Records(l, p, i, kind)
                                    \cup {e \in {Len(m)} : LastRecords(m, p, i, kind)}
<1>1. /\ DOMAIN l = 1 .. Len(l) /\ DOMAIN m = 1 .. Len(l) + 1 /\ Len(m) = Len(l) + 1
      /\ Len(l) \in Nat
  BY DEF LogsOne
<1>2. \A e : e \in DOMAIN m <=> e \in DOMAIN l \/ e = Len(m)
  BY <1>1
<1>3. \A e \in DOMAIN l : e \in Records(m, p, i, kind) <=> e \in Records(l, p, i, kind)
  BY <1>1, <1>2 DEF Records, LogsOne
<1>4. Len(m) \in Records(m, p, i, kind) <=> LastRecords(m, p, i, kind)
  BY <1>2 DEF Records, LastRecords
<1>5. Records(m, p, i, kind) \subseteq DOMAIN m /\ Records(l, p, i, kind) \subseteq DOMAIN l
  BY DEF Records
<1>6. QED  BY <1>2, <1>3, <1>4, <1>5

LEMMA RecordsKept ==
    ASSUME NEW l \in Seq(Entry), NEW m, LogsOne(l, m), NEW p, NEW i, NEW kind,
           ~LastRecords(m, p, i, kind)
    PROVE  Records(m, p, i, kind) = Records(l, p, i, kind)
<1>1. {e \in {Len(m)} : LastRecords(m, p, i, kind)} = {}
  OBVIOUS
<1>2. Records(m, p, i, kind)
        = Records(l, p, i, kind) \cup {e \in {Len(m)} : LastRecords(m, p, i, kind)}
  BY RecordsOfOneMore
<1>3. QED  BY <1>1, <1>2

\* A row that decides nothing leaves the book explained.
LEMMA UndecidedBook ==
    ASSUME NEW ps, NEW l \in Seq(Entry), NEW m, Book(ps, l), LogsOne(l, m),
           m[Len(m)].kind \notin {"accept", "reject"}
    PROVE  Book(ps, m)
<1>1. \A p, i : /\ Records(m, p, i, "accept") = Records(l, p, i, "accept")
                /\ Records(m, p, i, "reject") = Records(l, p, i, "reject")
  <2>1. \A p, i : ~LastRecords(m, p, i, "accept") /\ ~LastRecords(m, p, i, "reject")
    BY DEF LastRecords
  <2>2. QED  BY <2>1, RecordsKept
<1>2. Explained(ps, m)
  BY <1>1 DEF Book, Explained
<1>3. \A e \in DOMAIN m : e \in DOMAIN l \/ e = Len(m)
  BY DEF LogsOne
<1>4. \A e \in DOMAIN m : m[e].kind \in {"accept", "reject"} => m[e].proposal \in DOMAIN ps
  <2> SUFFICES ASSUME NEW e \in DOMAIN m, m[e].kind \in {"accept", "reject"}
               PROVE  m[e].proposal \in DOMAIN ps
    OBVIOUS
  <2>1. e \in DOMAIN l
    BY <1>3
  <2>2. e \in 1 .. Len(l) /\ m[e].kind = l[e].kind /\ m[e].proposal = l[e].proposal
    BY <2>1 DEF LogsOne
  <2>3. QED  BY <2>1, <2>2 DEF Book
<1>5. QED  BY <1>2, <1>4 DEF Book

\* From ps to qs proposals were closed, and perhaps a fresh one was made that
\* repeats nothing pending in those that stay open.
Revises(ps, qs) ==
    /\ Len(qs) \in Len(ps) .. Len(ps) + 1
    /\ \A p \in DOMAIN ps :
          /\ qs[p].items = ps[p].items /\ qs[p].ruling = ps[p].ruling
          /\ qs[p].status = "open" => ps[p].status = "open"
    /\ \A n \in DOMAIN qs \ DOMAIN ps :
          /\ \A i \in DOMAIN qs[n].items : qs[n].ruling[i] = "pending"
          /\ \A i, j \in DOMAIN qs[n].items :
                qs[n].items[i].card = qs[n].items[j].card
                /\ qs[n].items[i].action = qs[n].items[j].action => i = j
          /\ \A i \in DOMAIN qs[n].items, p \in DOMAIN ps : qs[p].status = "open" =>
                \A k \in PendingIn(ps, p) :
                    ps[p].items[k].card = qs[n].items[i].card
                       => ps[p].items[k].action # qs[n].items[i].action

LEMMA RevisedBook ==
    ASSUME NEW ps, NEW qs, NEW l \in Seq(Entry), Book(ps, l), WellFormed(qs), Revises(ps, qs)
    PROVE  Book(qs, l)
<1>1. /\ WellFormed(ps) /\ DOMAIN ps = 1 .. Len(ps) /\ DOMAIN qs = 1 .. Len(qs)
      /\ Len(ps) \in Nat /\ Len(qs) \in Nat
      /\ DOMAIN ps \subseteq DOMAIN qs
      /\ \A m, n \in DOMAIN qs \ DOMAIN ps : m = n
  BY DEF Book, WellFormed, Revises
<1>2. /\ \A p \in DOMAIN ps : qs[p].items = ps[p].items /\ qs[p].ruling = ps[p].ruling
      /\ \A p \in DOMAIN ps : PendingIn(qs, p) = PendingIn(ps, p)
      /\ \A p \in DOMAIN ps : qs[p].status = "open" => ps[p].status = "open"
      /\ \A n \in DOMAIN qs \ DOMAIN ps : \A i \in DOMAIN qs[n].items : qs[n].ruling[i] = "pending"
      /\ \A n \in DOMAIN qs : PendingIn(qs, n) \subseteq DOMAIN qs[n].items
  BY DEF Revises, PendingIn
<1>3. Grouped(qs)
  <2> SUFFICES ASSUME NEW p \in DOMAIN qs, NEW i \in DOMAIN qs[p].items, NEW j \in DOMAIN qs[p].items,
                      qs[p].items[i].group = qs[p].items[j].group, qs[p].items[i].group # NoGroup
               PROVE  qs[p].ruling[i] = qs[p].ruling[j]
    BY DEF Grouped
  <2>1. CASE p \in DOMAIN ps
    BY <1>2, <2>1 DEF Book, Grouped
  <2>2. CASE p \notin DOMAIN ps
    BY <1>2, <2>2
  <2>3. QED  BY <2>1, <2>2
<1>4. Unrepeated(qs)
  <2> SUFFICES ASSUME NEW p \in DOMAIN qs, NEW q \in DOMAIN qs, qs[p].status = "open",
                      qs[q].status = "open", NEW i \in PendingIn(qs, p), NEW j \in PendingIn(qs, q),
                      qs[p].items[i].card = qs[q].items[j].card,
                      qs[p].items[i].action = qs[q].items[j].action
               PROVE  p = q /\ i = j
    BY DEF Unrepeated
  <2>1. CASE p \in DOMAIN ps /\ q \in DOMAIN ps
    <3>1. /\ ps[p].status = "open" /\ ps[q].status = "open"
          /\ i \in PendingIn(ps, p) /\ j \in PendingIn(ps, q)
          /\ ps[p].items[i].card = ps[q].items[j].card
          /\ ps[p].items[i].action = ps[q].items[j].action
      BY <1>2, <2>1
    <3>2. QED  BY <2>1, <3>1 DEF Book, Unrepeated
  <2>2. CASE p \notin DOMAIN ps /\ q \notin DOMAIN ps
    <3>1. p = q
      BY <1>1, <2>2
    <3>2. QED  BY <1>2, <2>2, <3>1 DEF Revises
  <2>3. ASSUME NEW n \in DOMAIN qs \ DOMAIN ps, NEW o \in DOMAIN ps, qs[o].status = "open",
               NEW x \in PendingIn(qs, n), NEW y \in PendingIn(qs, o),
               qs[n].items[x].card = qs[o].items[y].card,
               qs[n].items[x].action = qs[o].items[y].action
        PROVE  FALSE
    <3>1. /\ x \in DOMAIN qs[n].items /\ y \in PendingIn(ps, o)
          /\ ps[o].items[y].card = qs[n].items[x].card
          /\ ps[o].items[y].action = qs[n].items[x].action
      BY <1>2, <2>3
    <3>2. QED  BY <2>3, <3>1 DEF Revises
  <2>4. CASE p \notin DOMAIN ps /\ q \in DOMAIN ps
    BY <2>3, <2>4
  <2>5. CASE p \in DOMAIN ps /\ q \notin DOMAIN ps
    BY <2>3, <2>5
  <2>6. QED  BY <2>1, <2>2, <2>4, <2>5
<1>5. Explained(qs, l)
  <2> SUFFICES ASSUME NEW p \in DOMAIN qs, NEW i \in DOMAIN qs[p].items
               PROVE  /\ Cardinality(Records(l, p, i, "accept"))
                            = (IF qs[p].ruling[i] = "accepted" THEN 1 ELSE 0)
                      /\ Cardinality(Records(l, p, i, "reject"))
                            = (IF qs[p].ruling[i] = "rejected" THEN 1 ELSE 0)
    BY DEF Explained
  <2>1. CASE p \in DOMAIN ps
    BY <1>2, <2>1 DEF Book, Explained
  <2>2. CASE p \notin DOMAIN ps
    <3>1. Records(l, p, i, "accept") = {} /\ Records(l, p, i, "reject") = {}
      BY <2>2 DEF Records, Book
    <3>2. Cardinality({}) = 0
      BY FS_EmptySet
    <3>3. QED  BY <1>2, <2>2, <3>1, <3>2
  <2>3. QED  BY <2>1, <2>2
<1>6. \A e \in DOMAIN l : l[e].kind \in {"accept", "reject"} => l[e].proposal \in DOMAIN qs
  BY <1>1 DEF Book
<1>7. QED  BY <1>3, <1>4, <1>5, <1>6 DEF Book

\* From ps to qs the items S of p were ruled, and p was closed if they were the
\* last that waited.
Decides(ps, qs, p, S, outcome) ==
    /\ qs \in Seq(Proposal) /\ Len(qs) = Len(ps)
    /\ \A q \in DOMAIN ps : q # p => qs[q] = ps[q]
    /\ qs[p].items = ps[p].items /\ qs[p].base = ps[p].base
    /\ qs[p].disposition = ps[p].disposition /\ qs[p].successor = ps[p].successor
    /\ Len(qs[p].ruling) = Len(ps[p].ruling)
    /\ \A i \in DOMAIN ps[p].items :
          qs[p].ruling[i] = IF i \in S THEN outcome ELSE ps[p].ruling[i]
    /\ qs[p].status = IF PendingIn(qs, p) # {} THEN ps[p].status ELSE "resolved"

\* S is a part of the pending items of the open proposal p that splits no group.
Whole(ps, p, S) ==
    /\ p \in DOMAIN ps /\ ps[p].status = "open" /\ ps[p].disposition = "current"
    /\ S # {} /\ S \subseteq PendingIn(ps, p)
    /\ \A i \in S, j \in DOMAIN ps[p].items :
          ps[p].items[i].group = ps[p].items[j].group /\ ps[p].items[i].group # NoGroup => j \in S

LEMMA DecidedBook ==
    ASSUME NEW ps, NEW qs, NEW l \in Seq(Entry), NEW m, Book(ps, l), NEW p, NEW S, Whole(ps, p, S),
           NEW outcome \in {"accepted", "rejected"}, NEW kind \in {"accept", "reject"},
           kind = IF outcome = "accepted" THEN "accept" ELSE "reject",
           Decides(ps, qs, p, S, outcome), LogsOne(l, m),
           m[Len(m)].kind = kind, m[Len(m)].proposal = p,
           \A i \in DOMAIN ps[p].items : i \in S <=> LastRecords(m, p, i, kind)
    PROVE  Book(qs, m)
<1>1. /\ WellFormed(ps) /\ p \in DOMAIN ps /\ DOMAIN qs = DOMAIN ps
      /\ \A q \in DOMAIN ps : q # p => qs[q] = ps[q]
      /\ \A q \in DOMAIN ps : qs[q].items = ps[q].items
      /\ ps[p].status = "open" /\ ps[p].disposition = "current"
  BY DEF Book, WellFormed, Decides, Whole
<1>2. \A i \in S : i \in DOMAIN ps[p].items /\ ps[p].ruling[i] = "pending"
  BY DEF Whole, PendingIn
<1>3. /\ \A i \in DOMAIN ps[p].items :
            qs[p].ruling[i] = IF i \in S THEN outcome ELSE ps[p].ruling[i]
      /\ PendingIn(qs, p) = PendingIn(ps, p) \ S
      /\ \A q \in DOMAIN ps : q # p => PendingIn(qs, q) = PendingIn(ps, q)
  BY <1>1 DEF Decides, PendingIn
<1>4. WellFormed(qs)
  <2>1. ASSUME NEW q \in DOMAIN qs
        PROVE  /\ Len(qs[q].ruling) = Len(qs[q].items)
               /\ qs[q].status = "open" <=> qs[q].disposition = "current" /\ PendingIn(qs, q) # {}
               /\ qs[q].disposition = "superseded" <=> qs[q].successor # None
               /\ qs[q].successor # None => qs[q].successor \in q + 1 .. Len(qs)
    <3>1. /\ Len(ps[q].ruling) = Len(ps[q].items)
          /\ ps[q].status = "open" <=> ps[q].disposition = "current" /\ PendingIn(ps, q) # {}
          /\ ps[q].disposition = "superseded" <=> ps[q].successor # None
          /\ ps[q].successor # None => ps[q].successor \in q + 1 .. Len(ps)
      BY <1>1 DEF WellFormed
    <3>2. CASE q # p
      BY <1>1, <1>3, <3>1, <3>2 DEF Decides
    <3>3. CASE q = p
      BY <1>1, <3>1, <3>3 DEF Decides
    <3>4. QED  BY <3>2, <3>3
  <2>2. QED  BY <2>1 DEF WellFormed, Decides
<1>5. Grouped(qs)
  <2> SUFFICES ASSUME NEW q \in DOMAIN qs, NEW i \in DOMAIN qs[q].items, NEW j \in DOMAIN qs[q].items,
                      qs[q].items[i].group = qs[q].items[j].group, qs[q].items[i].group # NoGroup
               PROVE  qs[q].ruling[i] = qs[q].ruling[j]
    BY DEF Grouped
  <2>1. ps[q].ruling[i] = ps[q].ruling[j]
    BY <1>1 DEF Book, Grouped
  <2>2. CASE q # p
    BY <1>1, <2>1, <2>2
  <2>3. CASE q = p
    <3>1. i \in S <=> j \in S
      BY <1>1, <1>2, <2>3 DEF Whole
    <3>2. QED  BY <1>1, <1>3, <2>1, <2>3, <3>1
  <2>4. QED  BY <2>2, <2>3
<1>6. Unrepeated(qs)
  <2> SUFFICES ASSUME NEW q \in DOMAIN qs, NEW r \in DOMAIN qs, qs[q].status = "open",
                      qs[r].status = "open", NEW i \in PendingIn(qs, q), NEW j \in PendingIn(qs, r),
                      qs[q].items[i].card = qs[r].items[j].card,
                      qs[q].items[i].action = qs[r].items[j].action
               PROVE  q = r /\ i = j
    BY DEF Unrepeated
  <2>1. \A n \in DOMAIN ps : qs[n].status = "open" => ps[n].status = "open"
    BY <1>1
  <2>2. \A n \in DOMAIN ps : PendingIn(qs, n) \subseteq PendingIn(ps, n)
    BY <1>3
  <2>3. /\ ps[q].status = "open" /\ ps[r].status = "open"
        /\ i \in PendingIn(ps, q) /\ j \in PendingIn(ps, r)
        /\ ps[q].items[i].card = ps[r].items[j].card
        /\ ps[q].items[i].action = ps[r].items[j].action
    BY <1>1, <2>1, <2>2
  <2>4. QED  BY <1>1, <2>3 DEF Book, Unrepeated
<1>7. Explained(qs, m)
  <2> SUFFICES ASSUME NEW q \in DOMAIN qs, NEW i \in DOMAIN qs[q].items
               PROVE  /\ Cardinality(Records(m, q, i, "accept"))
                            = (IF qs[q].ruling[i] = "accepted" THEN 1 ELSE 0)
                      /\ Cardinality(Records(m, q, i, "reject"))
                            = (IF qs[q].ruling[i] = "rejected" THEN 1 ELSE 0)
    BY DEF Explained
  <2>1. /\ Cardinality(Records(l, q, i, "accept")) = (IF ps[q].ruling[i] = "accepted" THEN 1 ELSE 0)
        /\ Cardinality(Records(l, q, i, "reject")) = (IF ps[q].ruling[i] = "rejected" THEN 1 ELSE 0)
    BY <1>1 DEF Book, Explained
  <2>2. ASSUME ~(q = p /\ i \in S), NEW k \in {"accept", "reject"}
        PROVE  Records(m, q, i, k) = Records(l, q, i, k)
    <3>1. ~LastRecords(m, q, i, k)
      BY <1>1, <2>2 DEF LastRecords
    <3>2. QED  BY <3>1, RecordsKept
  <2>3. CASE ~(q = p /\ i \in S)
    <3>1. qs[q].ruling[i] = ps[q].ruling[i]
      BY <1>1, <1>3, <2>3
    <3>2. QED  BY <2>1, <2>2, <2>3, <3>1
  <2>4. CASE q = p /\ i \in S
    <3>1. qs[q].ruling[i] = outcome /\ ps[q].ruling[i] = "pending"
      BY <1>1, <1>2, <1>3, <2>4
    <3>2. Records(l, q, i, "accept") = {} /\ Records(l, q, i, "reject") = {}
      BY <2>1, <3>1, NoneOrOne, RecordsFinite
    <3>3. LastRecords(m, q, i, kind)
      BY <1>1, <2>4
    <3>4. \A k : k # kind => ~LastRecords(m, q, i, k)
      BY DEF LastRecords
    <3>5. Records(m, q, i, kind) = {Len(m)}
      BY <3>2, <3>3, RecordsOfOneMore
    <3>6. \A k \in {"accept", "reject"} : k # kind => Records(m, q, i, k) = {}
      BY <3>2, <3>4, RecordsOfOneMore
    <3>7. Cardinality({Len(m)}) = 1 /\ Cardinality({}) = 0
      BY FS_EmptySet, FS_Singleton
    <3>8. QED  BY <3>1, <3>5, <3>6, <3>7
  <2>5. QED  BY <2>3, <2>4
<1>8. \A e \in DOMAIN m : m[e].kind \in {"accept", "reject"} => m[e].proposal \in DOMAIN qs
  <2> SUFFICES ASSUME NEW e \in DOMAIN m, m[e].kind \in {"accept", "reject"}
               PROVE  m[e].proposal \in DOMAIN qs
    OBVIOUS
  <2>1. e = Len(m) \/ e \in DOMAIN l
    BY DEF LogsOne
  <2>2. CASE e = Len(m)
    BY <1>1, <2>2
  <2>3. CASE e \in DOMAIN l
    <3>1. m[e].kind = l[e].kind /\ m[e].proposal = l[e].proposal
      BY <2>3 DEF LogsOne
    <3>2. QED  BY <1>1, <2>3, <3>1 DEF Book
  <2>4. QED  BY <2>1, <2>2, <2>3
<1>9. QED  BY <1>4, <1>5, <1>6, <1>7, <1>8 DEF Book

-----------------------------------------------------------------------------
(* Requests that begin *)

\* Between requests nothing is running, so only the book matters.
LEMMA IdleKeeps ==
    ASSUME IInv', acts' = <<>>, savedProposals' = None, Book(proposals', log')
    PROVE  PInv'
<1>1. Idle' /\ DOMAIN acts' = {}
  BY DEF Idle
<1>2. ProposalsOK'
  BY <1>1 DEF ProposalsOK, Book
<1>3. BatchIsSound' /\ SavedBookIsOpen'
  BY <1>1 DEF BatchIsSound, SavedBookIsOpen
<1>4. Book(proposals, log)'
  OBVIOUS
<1>5. QED  BY <1>2, <1>3, <1>4 DEF PInv

\* A request's savepoint keeps the book as it is.
LEMMA StartKeeps ==
    ASSUME PInv, IInv', NEW plan, Begin(plan), savedProposals' = proposals, proposals' = proposals,
           BatchIsSound'
    PROVE  PInv'
<1>1. /\ plan # <<>> /\ acts' = plan /\ log' = log
      /\ saved' = [rows |-> rows, revision |-> revision, identity |-> identity, log |-> log]
  BY DEF Begin, deck
<1>2. ~Idle' /\ saved'.log = log
  BY <1>1 DEF Idle
<1>3. Book(proposals', log') /\ Book(savedProposals', saved'.log)
  BY <1>1, <1>2 DEF PInv
<1>4. proposals \in Seq(Proposal) /\ proposals # None
  BY ProposalAssumption DEF PInv, ProposalsOK, WellFormed
<1>5. ProposalsOK'
  BY <1>2, <1>3, <1>4 DEF PInv, ProposalsOK
<1>6. SavedBookIsOpen'
  BY <1>3 DEF SavedBookIsOpen
<1>7. QED  BY <1>3, <1>5, <1>6 DEF PInv

\* A request of the deck's own is one act, and no acceptance.
LEMMA RequestBegins ==
    ASSUME Request
    PROVE  \E act : Begin(<<act>>) /\ act.kind # "accept"
<1>1. \A via, changes : Plan("edit", via, changes).kind # "accept"
  BY DEF Plan
<1>2. ASSUME NEW via, NEW changes, Edit(via, changes)
      PROVE  \E act : Begin(<<act>>) /\ act.kind # "accept"
  BY <1>1, <1>2 DEF Edit
<1>3. ASSUME NEW i, Undo(i) PROVE \E act : Begin(<<act>>) /\ act.kind # "accept"
  <2> DEFINE act == [Plan("undo", "ui", ReversalOf(log[i].cards)) EXCEPT !.undoOf = i]
  <2>1. act.kind # "accept"
    BY DEF Plan
  <2>2. Begin(<<act>>)
    BY <1>3 DEF Undo
  <2>3. QED  BY <2>1, <2>2
<1>4. ASSUME NEW x, EditOne(x) PROVE \E act : Begin(<<act>>) /\ act.kind # "accept"
  BY <1>2, <1>4 DEF EditOne
<1>5. ASSUME NEW e \in EditRequests, EditCards(e)
      PROVE \E act : Begin(<<act>>) /\ act.kind # "accept"
  BY <1>2, <1>5 DEF EditCards
<1>6. QED
  BY <1>3, <1>4, <1>5 DEF Request, AddCard, RemoveCard, MoveCard, SetRole, SetQuantity

LEMMA OwnRequestKeeps == ASSUME PInv, OwnRequest PROVE PInv'
<1>1. IInv'
  BY RequestKeeps DEF PInv, OwnRequest
<1>2. PICK act : Begin(<<act>>) /\ act.kind # "accept"
  BY RequestBegins DEF OwnRequest
<1>3. acts' = <<act>>
  BY <1>2 DEF Begin
<1>4. DOMAIN acts' = {1} /\ acts'[1] = act
  BY <1>3
<1>5. BatchIsSound'
  BY <1>2, <1>4 DEF BatchIsSound
<1>6. QED  BY <1>1, <1>2, <1>5, StartKeeps DEF OwnRequest

LEMMA WhileIdleKeeps == ASSUME PInv, WhileIdle PROVE PInv'
<1>1. IInv'
  BY OrganisationKeeps DEF PInv, WhileIdle
<1>2. acts = <<>> /\ acts' = acts /\ log' = log
  BY DEF WhileIdle, Organisation, CreateSlot, DeleteSlot, OrganizeCard, ShortlistCard,
         UnshortlistCard, SetDeckCategory, Organising, running, deck, Idle
<1>3. savedProposals' = None /\ Book(proposals', log')
  BY <1>2 DEF WhileIdle, PInv, ProposalsOK, Idle
<1>4. QED  BY <1>1, <1>2, <1>3, IdleKeeps

-----------------------------------------------------------------------------
(* Requests that run *)

\* Applying a change takes it off the first act, and leaves the rest of the act
\* and the other acts alone.
LEMMA AppliedActs ==
    ASSUME TypeOK, Applying, Applied
    PROVE  /\ DOMAIN acts' = DOMAIN acts /\ 1 \in DOMAIN acts
           /\ \A k \in DOMAIN acts : k # 1 => acts'[k] = acts[k]
           /\ \A k \in DOMAIN acts : /\ acts'[k].kind = acts[k].kind
                                     /\ acts'[k].proposal = acts[k].proposal
                                     /\ acts'[k].items = acts[k].items
                                     /\ acts'[k].consent = acts[k].consent
           /\ acts'[1].changes = acts[1].changes \ {First}
<1>1. acts \in Seq(Act) /\ 1 \in DOMAIN acts /\ acts[1] \in Act
  BY FirstFacts
<1> DEFINE act == [acts[1] EXCEPT !.changes = @ \ {First}]
<1>2. /\ act.kind = acts[1].kind /\ act.proposal = acts[1].proposal
      /\ act.items = acts[1].items /\ act.changes = acts[1].changes \ {First}
      /\ act.consent = acts[1].consent
  BY <1>1 DEF Act
<1>3. acts' = [acts EXCEPT ![1] = act]
  BY DEF Applied
<1> HIDE DEF act
<1>4. DOMAIN acts' = DOMAIN acts /\ acts'[1] = act /\ \A k \in DOMAIN acts : k # 1 => acts'[k] = acts[k]
  BY <1>1, <1>3
<1>5. QED  BY <1>1, <1>2, <1>4

\* What is applied for an acceptance is logged under its item.
LEMMA ApplyLogs ==
    ASSUME IInv, Apply
    PROVE  /\ Applying /\ Applied
           /\ Current.action # "role" =>
                 \E r : /\ logged' = Append(logged, r)
                       /\ r.action # "role" /\ r.item = Current.item
<1>1. CASE ApplyAdd
  BY <1>1 DEF ApplyAdd
<1>2. CASE ApplyCut
  BY <1>2 DEF ApplyCut
<1>3. CASE ApplyRole
  BY <1>3 DEF ApplyRole
<1>4. QED  BY <1>1, <1>2, <1>3 DEF Apply

LEMMA ApplyKeeps == ASSUME PInv, Apply PROVE PInv'
<1>1. IInv'
  BY ApplyAddKeeps, ApplyCutKeeps, ApplyRoleKeeps DEF PInv, Apply
<1>2. /\ TypeOK /\ Applying /\ Applied /\ ~Idle /\ logged \in Seq(LogCard)
      /\ proposals' = proposals /\ savedProposals' = savedProposals
      /\ saved' = saved /\ log' = log /\ First \in acts[1].changes
  BY ApplyLogs, FirstFacts DEF PInv, IInv, TypeOK, Apply, Applied, Applying
<1>3. /\ ~Idle' /\ DOMAIN acts' = DOMAIN acts /\ 1 \in DOMAIN acts
      /\ \A k \in DOMAIN acts : k # 1 => acts'[k] = acts[k]
      /\ \A k \in DOMAIN acts : /\ acts'[k].kind = acts[k].kind
                                /\ acts'[k].proposal = acts[k].proposal
                                /\ acts'[k].items = acts[k].items
      /\ acts'[1].changes = acts[1].changes \ {First}
  BY <1>2, AppliedFacts, AppliedActs
<1>4. ASSUME acts[1].kind = "accept" PROVE Accepts(acts'[1], logged')
  <2>1. Accepts(acts[1], logged)
    BY <1>3, <1>4 DEF PInv, BatchIsSound
  <2>2. Current.action # "role" /\ Current = First.change
    BY <1>2, <2>1 DEF Accepts, Current
  <2>3. PICK r : logged' = Append(logged, r) /\ r.action # "role" /\ r.item = Current.item
    BY <2>2, ApplyLogs DEF PInv
  <2>4. /\ DOMAIN logged' = 1 .. Len(logged) + 1 /\ DOMAIN logged = 1 .. Len(logged)
        /\ Len(logged) \in Nat
        /\ logged'[Len(logged) + 1] = r
        /\ \A k \in DOMAIN logged : k \in DOMAIN logged' /\ logged'[k] = logged[k]
    BY <1>2, <2>3
  <2>5. \A k \in DOMAIN logged' : k \in DOMAIN logged \/ k = Len(logged) + 1
    BY <2>4
  <2>6. \A k \in DOMAIN logged' :
           logged'[k].action # "role" /\ logged'[k].item \in acts[1].items
    BY <1>2, <2>1, <2>2, <2>3, <2>4, <2>5 DEF Accepts
  <2>7. \A x \in acts[1].items : \/ \E y \in acts'[1].changes : y.change.item = x
                                 \/ \E k \in DOMAIN logged' : logged'[k].item = x
    <3> SUFFICES ASSUME NEW x \in acts[1].items
                 PROVE  \/ \E y \in acts'[1].changes : y.change.item = x
                        \/ \E k \in DOMAIN logged' : logged'[k].item = x
      OBVIOUS
    <3>1. CASE \E k \in DOMAIN logged : logged[k].item = x
      BY <2>4, <3>1
    <3>2. CASE x = Current.item
      <4>1. Len(logged) + 1 \in DOMAIN logged'
        BY <2>4
      <4>2. QED  BY <2>3, <2>4, <3>2, <4>1
    <3>3. ASSUME NEW y \in acts[1].changes, y.change.item = x, x # Current.item
          PROVE  \E z \in acts'[1].changes : z.change.item = x
      BY <1>3, <2>2, <3>3
    <3>4. QED  BY <2>1, <3>1, <3>2, <3>3 DEF Accepts
  <2>8. \A x \in acts'[1].changes : x.change.action # "role" /\ x.change.item \in acts[1].items
    BY <1>3, <2>1 DEF Accepts
  <2>9. QED  BY <1>3, <2>1, <2>6, <2>7, <2>8 DEF Accepts
<1>5. BatchIsSound'
  <2>1. ASSUME NEW k \in DOMAIN acts', acts'[k].kind = "accept"
        PROVE  Accepts(acts[k], IF k = 1 THEN logged ELSE <<>>)'
    <3>1. Accepts(acts'[k], IF k = 1 THEN logged' ELSE <<>>)
      BY <1>3, <1>4, <2>1 DEF PInv, BatchIsSound
    <3>2. QED  BY <1>2, <3>1 DEF Accepts, IsCurrent, Pending
  <2>2. QED  BY <1>3, <2>1 DEF PInv, BatchIsSound
<1>6. ProposalsOK' /\ SavedBookIsOpen' /\ Book(proposals', log')
  BY <1>2, <1>3 DEF PInv, ProposalsOK, SavedBookIsOpen
<1>7. QED  BY <1>1, <1>5, <1>6 DEF PInv

\* A failure brings back the book the savepoint kept.
LEMMA AbandonKeeps == ASSUME PInv, Abandon PROVE PInv'
<1>1. IInv'
  BY RefuseKeeps, CrashKeeps DEF PInv, Abandon
<1>2. ~Idle /\ Restore
  BY DEF Abandon, Refuse, Crash, Applying
<1>3. acts' = <<>> /\ log' = saved.log /\ savedProposals' = None /\ proposals' = savedProposals
  BY <1>2 DEF Restore, Done, Abandon
<1>4. Book(proposals', log')
  BY <1>2, <1>3 DEF PInv, SavedBookIsOpen
<1>5. QED  BY <1>1, <1>3, <1>4, IdleKeeps

-----------------------------------------------------------------------------
(* Acceptances *)

\* The change that carries out an item is one, and is marked with the item.
LEMMA ChangeOfFacts ==
    ASSUME PInv, NEW p \in DOMAIN proposals, NEW i \in DOMAIN proposals[p].items
    PROVE  /\ ChangeOf(p, i) \in Change /\ ChangeOf(p, i).item = Id(p, i)
           /\ ChangeOf(p, i).action \in {"add", "cut"} /\ Id(p, i) \in Item
<1> DEFINE x == proposals[p].items[i]
           id == [proposal |-> p, index |-> i]
<1>1. x \in Input /\ p \in Nat /\ i \in Nat
  <2>1. WellFormed(proposals)
    BY DEF PInv, ProposalsOK
  <2>2. QED  BY <2>1, ProposalFacts
<1>2. id \in Item /\ id = Id(p, i)
  BY <1>1 DEF Item, Id
<1>3. /\ x.action \in {"add", "cut"} /\ x.card \in Card /\ x.slot \in {None} \cup Slot
      /\ x.secondary \in SUBSET (Slot \cup {Keep}) /\ x.park \in BOOLEAN
  BY <1>1 DEF Input
<1>4. CASE x.action = "cut"
  <2>1. ChangeOf(p, i) = Cut(x.card, 1, x.park, id)
    BY <1>4 DEF ChangeOf
  <2> HIDE DEF x, id
  <2>2. Cut(x.card, 1, x.park, id) \in Change
    BY <1>2, <1>3 DEF Cut, Change
  <2>3. Cut(x.card, 1, x.park, id).item = id /\ Cut(x.card, 1, x.park, id).action = "cut"
    BY DEF Cut
  <2>4. QED  BY <1>2, <2>1, <2>2, <2>3
<1>5. CASE x.action # "cut"
  <2> DEFINE s == IF x.slot \in Live THEN x.slot ELSE Keep
             ss == IF Keep \in x.secondary THEN {Keep} ELSE (x.secondary \cap Live) \ {x.slot}
  <2>1. ChangeOf(p, i) = Add(x.card, 1, s, ss, "card", id)
    BY <1>5 DEF ChangeOf
  <2>2. s \in {None, Keep} \cup Slot /\ ss \in SUBSET (Slot \cup {Keep})
    BY <1>3 DEF Live
  <2> HIDE DEF x, id, s, ss
  <2>3. Add(x.card, 1, s, ss, "card", id) \in Change
    BY <1>2, <1>3, <2>2 DEF Add, Change, Role
  <2>4. /\ Add(x.card, 1, s, ss, "card", id).item = id
        /\ Add(x.card, 1, s, ss, "card", id).action = "add"
    BY DEF Add
  <2>5. QED  BY <1>2, <2>1, <2>3, <2>4
<1>6. QED  BY <1>4, <1>5

\* An acceptance of whole groups of pending items is a sound act.
LEMMA AcceptanceFacts ==
    ASSUME PInv, NEW p, NEW S, Whole(proposals, p, S), NEW acknowledged \in BOOLEAN
    PROVE  /\ Acceptance(p, S, acknowledged) \in Act
           /\ Acceptance(p, S, acknowledged).kind = "accept"
           /\ Acceptance(p, S, acknowledged).via = "ui"
           /\ Acceptance(p, S, acknowledged).undoOf = None
           /\ Acceptance(p, S, acknowledged).proposal = p
           /\ Acceptance(p, S, acknowledged).consent = acknowledged
           /\ Accepts(Acceptance(p, S, acknowledged), <<>>)
<1> DEFINE n == Len(proposals[p].items)
           at(i) == IF proposals[p].items[i].action = "cut" THEN i ELSE n + i
           changes == {At(at(i), ChangeOf(p, i)) : i \in S}
           items == {[proposal |-> p, index |-> i] : i \in S}
           act == Acceptance(p, S, acknowledged)
<1>1. /\ p \in DOMAIN proposals /\ S # {} /\ S \subseteq Pending(p) /\ IsCurrent(p)
      /\ \A i \in S : i \in DOMAIN proposals[p].items
      /\ p \in Nat /\ n \in Nat /\ \A i \in S : i \in Nat
  <2>1. WellFormed(proposals)
    BY DEF PInv, ProposalsOK
  <2>2. p \in DOMAIN proposals /\ S # {} /\ S \subseteq Pending(p) /\ IsCurrent(p)
    BY DEF Whole, IsCurrent, Pending
  <2>3. \A i \in S : i \in DOMAIN proposals[p].items
    BY <2>2 DEF Pending, PendingIn
  <2>4. p \in Nat /\ n \in Nat /\ DOMAIN proposals[p].items = 1 .. n
    BY <2>1, <2>2, ProposalFacts
  <2>5. QED  BY <2>2, <2>3, <2>4
<1>2. \A i \in S : /\ ChangeOf(p, i) \in Change /\ ChangeOf(p, i).item = Id(p, i)
                   /\ ChangeOf(p, i).action # "role" /\ Id(p, i) \in Item
  BY <1>1, ChangeOfFacts
<1>3. act = [kind |-> "accept", via |-> "ui", changes |-> changes, proposal |-> p,
             items |-> items, consent |-> acknowledged, undoOf |-> None]
  BY DEF Acceptance
<1>4. items \in SUBSET Item
  BY <1>2 DEF Id
<1>5. changes \in SUBSET [at : Nat, change : Change]
  <2> SUFFICES ASSUME NEW i \in S PROVE At(at(i), ChangeOf(p, i)) \in [at : Nat, change : Change]
    OBVIOUS
  <2>1. at(i) \in Nat
    BY <1>1
  <2>2. QED  BY <1>2, <2>1 DEF At
<1>6. \A x \in items : x.proposal = p /\ x.index \in S /\ x = Id(p, x.index)
  BY DEF Id
<1>7. \A i \in S : Id(p, i) \in items
  BY DEF Id
<1>8. \A x \in changes : x.change.action # "role" /\ x.change.item \in items
  BY <1>2, <1>7 DEF At
<1>9. \A x \in items : \E y \in changes : y.change.item = x
  <2> SUFFICES ASSUME NEW x \in items PROVE \E y \in changes : y.change.item = x
    OBVIOUS
  <2>1. x.index \in S /\ x = Id(p, x.index)
    BY <1>6
  <2> DEFINE y == At(at(x.index), ChangeOf(p, x.index))
  <2>2. y \in changes
    BY <2>1
  <2>3. y.change = ChangeOf(p, x.index)
    BY DEF At
  <2>4. QED  BY <1>2, <2>1, <2>2, <2>3
<1>10. items # {}
  BY <1>1
<1> HIDE DEF changes, items, act
<1>11. /\ act.kind = "accept" /\ act.via = "ui" /\ act.undoOf = None /\ act.proposal = p
       /\ act.consent = acknowledged /\ act.items = items /\ act.changes = changes
  BY <1>3
<1>12. act \in Act
  BY <1>1, <1>3, <1>4, <1>5 DEF Act, Kind, Via
<1>13. \A x \in items, j \in DOMAIN proposals[p].items :
          /\ proposals[p].items[x.index].group = proposals[p].items[j].group
          /\ proposals[p].items[x.index].group # NoGroup
          => Id(p, j) \in items
  BY <1>6, <1>7 DEF Whole
<1>14. Accepts(act, <<>>)
  BY <1>1, <1>6, <1>8, <1>9, <1>10, <1>11, <1>13 DEF Accepts
<1>15. QED  BY <1>11, <1>12, <1>14 DEF act

\* itemsToRule: what is ruled on are whole groups of what is pending, and all
\* that is pending can be ruled on at once.
LEMMA WidenedWhole ==
    ASSUME NEW p \in DOMAIN proposals, NEW named \in SUBSET DOMAIN proposals[p].items,
           Decidable(p, named)
    PROVE  Whole(proposals, p, Widened(p, named))
<1>1. /\ IsCurrent(p) /\ named # {} /\ Widened(p, named) \subseteq PendingIn(proposals, p)
  BY DEF Decidable, Pending
<1>2. named \subseteq Widened(p, named)
  BY DEF Widened
<1>3. \A i \in Widened(p, named), j \in DOMAIN proposals[p].items :
         proposals[p].items[i].group = proposals[p].items[j].group
            /\ proposals[p].items[i].group # NoGroup
         => j \in Widened(p, named)
  BY DEF Widened
<1>4. QED  BY <1>1, <1>2, <1>3 DEF Whole, IsCurrent

LEMMA PendingWhole ==
    ASSUME NEW p \in DOMAIN proposals, Decidable(p, Pending(p))
    PROVE  Whole(proposals, p, Pending(p))
<1>1. Pending(p) \in SUBSET DOMAIN proposals[p].items
  BY DEF Pending, PendingIn
<1>2. Widened(p, Pending(p)) \subseteq Pending(p) /\ Pending(p) \subseteq Widened(p, Pending(p))
  BY <1>1 DEF Decidable, Widened
<1>3. Widened(p, Pending(p)) = Pending(p)
  BY <1>2
<1>4. QED  BY <1>1, <1>3, WidenedWhole

\* A batch of sound acceptances, of a proposal each, can begin.
LEMMA BatchBegins ==
    ASSUME PInv, NEW plan \in Seq(Act), Start(plan), Editable,
           \A k \in DOMAIN plan : /\ plan[k].kind = "accept" /\ plan[k].via = "ui"
                                  /\ plan[k].undoOf = None /\ Accepts(plan[k], <<>>),
           \A j, k \in DOMAIN plan : plan[j].proposal = plan[k].proposal => j = k
    PROVE  PInv'
<1>1. /\ Begin(plan) /\ Idle /\ plan # <<>> /\ acts' = plan /\ logged' = <<>>
      /\ saved' = [rows |-> rows, revision |-> revision, identity |-> identity, log |-> log]
      /\ category' = category /\ slots' = slots /\ rows' = rows
      /\ revision' = revision /\ identity' = identity /\ log' = log
      /\ proposals' = proposals /\ savedProposals' = proposals
  BY DEF Start, Begin, deck
<1>2. ~Idle' /\ acts' \in Seq(Act) /\ IInv
  BY <1>1 DEF Idle, PInv
<1>3. /\ saved'.rows = rows /\ saved'.revision = revision
      /\ saved'.identity = identity /\ saved'.log = log /\ logged = <<>>
  BY <1>1, <1>2 DEF IInv, IdentityFollows
<1>4. TypeOK'
  <2>1. saved' \in Deck
    BY <1>1, <1>2 DEF IInv, TypeOK, Deck
  <2>2. (\A c \in Card : Present(c) => Assignable(rows[c].slot, rows[c].secondary))'
    BY <1>1, <1>2 DEF IInv, TypeOK, Present, Assignable, Live
  <2>3. logged' \in Seq(LogCard)
    BY <1>1
  <2>4. QED  BY <1>1, <1>2, <2>1, <2>2, <2>3 DEF IInv, TypeOK
<1>5. CommandZoneFits' /\ IdentityFollows' /\ RevisionCountsTheLog' /\ UndoneOnce'
  BY <1>1, <1>2 DEF IInv, CommandZoneFits, IdentityFollows, Zone, RevisionCountsTheLog, UndoneOnce
<1>6. SavedIsSound'
  BY <1>1, <1>2, <1>3 DEF IInv, TypeOK, CommandZoneFits, RevisionCountsTheLog, UndoneOnce,
     SavedIsSound, Present, Assignable, Live, Zone
<1>7. ActsAreSound'
  BY <1>1 DEF ActsAreSound
<1>8. RequestIsLawful'
  BY <1>1, <1>2, <1>3 DEF IInv, TypeOK, RequestIsLawful, Editable
<1>9. IInv'
  BY <1>4, <1>5, <1>6, <1>7, <1>8 DEF IInv
<1>10. BatchIsSound'
  <2>1. ASSUME NEW k \in DOMAIN acts'
        PROVE  Accepts(acts[k], IF k = 1 THEN logged ELSE <<>>)'
    <3>1. Accepts(acts'[k], IF k = 1 THEN logged' ELSE <<>>)
      BY <1>1, <2>1
    <3>2. QED  BY <1>1, <3>1 DEF Accepts, IsCurrent, Pending
  <2>2. QED  BY <1>1, <2>1 DEF BatchIsSound
<1>11. QED  BY <1>1, <1>9, <1>10, StartKeeps

LEMMA AcceptItemsKeeps ==
    ASSUME PInv, NEW p \in DOMAIN proposals, NEW named \in SUBSET DOMAIN proposals[p].items,
           NEW acknowledged \in BOOLEAN, AcceptItems(p, named, acknowledged)
    PROVE  PInv'
<1> DEFINE act == Acceptance(p, Widened(p, named), acknowledged)
<1>1. Decidable(p, named) /\ Start(<<act>>) /\ Editable
  BY DEF AcceptItems, Decidable
<1>2. Whole(proposals, p, Widened(p, named))
  BY <1>1, WidenedWhole
<1>3. /\ act \in Act /\ act.kind = "accept" /\ act.via = "ui" /\ act.undoOf = None
      /\ Accepts(act, <<>>)
  BY <1>2, AcceptanceFacts
<1> HIDE DEF act
<1>4. <<act>> \in Seq(Act) /\ DOMAIN <<act>> = {1} /\ <<act>>[1] = act
  BY <1>3
<1>5. QED  BY <1>1, <1>3, <1>4, BatchBegins

LEMMA AcceptProposalsKeeps ==
    ASSUME PInv, NEW n \in DOMAIN proposals, NEW approved \in [1 .. n -> DOMAIN proposals],
           NEW acknowledged \in SUBSET DOMAIN proposals, AcceptProposals(approved, acknowledged)
    PROVE  PInv'
<1> DEFINE plan == [i \in DOMAIN approved |->
                      Acceptance(approved[i], Pending(approved[i]), approved[i] \in acknowledged)]
<1>1. /\ \A i, j \in DOMAIN approved : approved[i] = approved[j] => i = j
      /\ \A i \in DOMAIN approved : Decidable(approved[i], Pending(approved[i]))
      /\ Start(plan) /\ DOMAIN approved = 1 .. n
  BY DEF AcceptProposals
<1>2. ASSUME NEW i \in DOMAIN approved
      PROVE  /\ plan[i] \in Act /\ plan[i].kind = "accept" /\ plan[i].via = "ui"
             /\ plan[i].undoOf = None /\ plan[i].proposal = approved[i] /\ Accepts(plan[i], <<>>)
  <2>1. approved[i] \in DOMAIN proposals
    BY <1>1
  <2>2. Whole(proposals, approved[i], Pending(approved[i]))
    BY <1>1, <2>1, PendingWhole
  <2> DEFINE agreed == approved[i] \in acknowledged
  <2>3. plan[i] = Acceptance(approved[i], Pending(approved[i]), agreed) /\ agreed \in BOOLEAN
    OBVIOUS
  <2> HIDE DEF agreed, plan
  <2>4. /\ Acceptance(approved[i], Pending(approved[i]), agreed) \in Act
        /\ Acceptance(approved[i], Pending(approved[i]), agreed).kind = "accept"
        /\ Acceptance(approved[i], Pending(approved[i]), agreed).via = "ui"
        /\ Acceptance(approved[i], Pending(approved[i]), agreed).undoOf = None
        /\ Acceptance(approved[i], Pending(approved[i]), agreed).proposal = approved[i]
        /\ Accepts(Acceptance(approved[i], Pending(approved[i]), agreed), <<>>)
    BY <2>2, <2>3, AcceptanceFacts
  <2>5. QED  BY <2>3, <2>4
<1>3. n \in Nat
  <2>1. WellFormed(proposals)
    BY DEF PInv, ProposalsOK
  <2>2. QED  BY <2>1, ProposalFacts
<1>4. DOMAIN plan = 1 .. n
  BY <1>1
<1> HIDE DEF plan
<1>5. plan \in Seq(Act)
  <2>1. plan \in [1 .. n -> Act]
    <3>1. \A i \in 1 .. n : plan[i] \in Act
      BY <1>1, <1>2
    <3>2. plan = [i \in 1 .. n |-> plan[i]]
      BY <1>4 DEF plan
    <3>3. QED  BY <3>1, <3>2
  <2>2. QED  BY <1>3, <2>1
<1>6. n # 0
  <2>1. WellFormed(proposals)
    BY DEF PInv, ProposalsOK
  <2>2. QED  BY <2>1, ProposalFacts
<1>7. Editable
  <2>1. 1 \in DOMAIN approved
    BY <1>1, <1>3, <1>6
  <2>2. QED  BY <1>1, <2>1 DEF Decidable
<1>8. \A j, k \in DOMAIN plan : plan[j].proposal = plan[k].proposal => j = k
  BY <1>1, <1>2, <1>4
<1>9. QED  BY <1>1, <1>2, <1>4, <1>5, <1>7, <1>8, BatchBegins

-----------------------------------------------------------------------------
(* Decisions *)

\* Ruled is what it says: the items of S get the outcome, and the proposal is
\* resolved exactly when no other was waiting.
LEMMA RuledFacts ==
    ASSUME WellFormed(proposals), NEW p \in DOMAIN proposals, NEW S,
           NEW outcome \in {"accepted", "rejected"}
    PROVE  Decides(proposals, Ruled(p, S, outcome), p, S, outcome)
<1> DEFINE old == proposals[p]
           ruling == [i \in DOMAIN old.items |-> IF i \in S THEN outcome ELSE old.ruling[i]]
           status == IF \E i \in DOMAIN ruling : ruling[i] = "pending" THEN old.status ELSE "resolved"
           new == [old EXCEPT !.ruling = ruling, !.status = status]
           qs == Ruled(p, S, outcome)
<1>1. /\ proposals \in Seq(Proposal) /\ DOMAIN proposals = 1 .. Len(proposals)
      /\ Len(proposals) \in Nat /\ old \in Proposal /\ Len(old.items) \in Nat
      /\ old.status \in {"open", "resolved"}
      /\ DOMAIN old.items = 1 .. Len(old.items) /\ Len(old.ruling) = Len(old.items)
      /\ \A i \in DOMAIN old.items : old.ruling[i] \in {"pending", "accepted", "rejected"}
  BY ProposalFacts DEF WellFormed
<1>2. ruling \in Seq({"pending", "accepted", "rejected"}) /\ Len(ruling) = Len(old.items)
      /\ DOMAIN ruling = DOMAIN old.items
      /\ \A i \in DOMAIN old.items : ruling[i] = IF i \in S THEN outcome ELSE old.ruling[i]
  <2>1. ruling \in [1 .. Len(old.items) -> {"pending", "accepted", "rejected"}]
    BY <1>1
  <2>2. DOMAIN ruling = 1 .. Len(old.items)
    BY <1>1
  <2>3. \A i \in DOMAIN old.items : ruling[i] = IF i \in S THEN outcome ELSE old.ruling[i]
    OBVIOUS
  <2> HIDE DEF ruling
  <2>4. QED  BY <1>1, <2>1, <2>2, <2>3
<1>3. status \in {"open", "resolved"}
  BY <1>1
<1>4. qs = [proposals EXCEPT ![p] = new]
  BY <1>1 DEF Ruled
<1> HIDE DEF ruling
<1>5. /\ new \in Proposal /\ new.items = old.items /\ new.base = old.base
      /\ new.disposition = old.disposition /\ new.successor = old.successor
      /\ new.ruling = ruling /\ new.status = status
  <2> HIDE DEF status
  <2>1. QED  BY <1>1, <1>2, <1>3 DEF Proposal
<1> HIDE DEF new
<1>6. /\ qs \in Seq(Proposal) /\ Len(qs) = Len(proposals)
      /\ \A q \in DOMAIN proposals : qs[q] = IF q = p THEN new ELSE proposals[q]
  BY <1>1, <1>4, <1>5, ExceptSeq
<1>7. PendingIn(qs, p) = {i \in DOMAIN ruling : ruling[i] = "pending"}
  BY <1>2, <1>5, <1>6 DEF PendingIn
<1>8. qs[p].status = IF PendingIn(qs, p) # {} THEN old.status ELSE "resolved"
  BY <1>5, <1>6, <1>7
<1>9. QED  BY <1>1, <1>2, <1>5, <1>6, <1>8 DEF Decides

\* A rejection is logged at the deck's present revision, which it leaves.
LEMMA CountedOnReject ==
    ASSUME NEW l \in Seq(Entry), NEW m \in Seq(Entry), NEW n \in Nat, Counted(n, l), Linked(l),
           Len(m) = Len(l) + 1, \A i \in 1 .. Len(l) : m[i] = l[i],
           m[Len(l) + 1].kind = "reject", m[Len(l) + 1].revision = n,
           m[Len(l) + 1].undoOf = None, m[Len(l) + 1].undoneBy = None
    PROVE  Counted(n, m) /\ Linked(m)
<1>1. DOMAIN l = 1 .. Len(l) /\ DOMAIN m = 1 .. Len(l) + 1 /\ Len(l) \in Nat
  OBVIOUS
<1>2. \A i \in DOMAIN m : i \in DOMAIN l \/ i = Len(l) + 1
  BY <1>1
<1>3. Changing(m) = Changing(l)
  BY <1>1, <1>2 DEF Changing
<1>4. \A j \in Changing(m) : j <= Len(l) + 1
  BY <1>1, <1>3 DEF Changing
<1>5. {j \in Changing(m) : j <= Len(l) + 1} = Changing(l)
  BY <1>3, <1>4
<1>6. Counted(n, m)
  <2> SUFFICES ASSUME NEW i \in DOMAIN m
               PROVE  m[i].revision = Cardinality({j \in Changing(m) : j <= i})
    BY <1>3 DEF Counted
  <2>1. CASE i \in DOMAIN l
    BY <1>1, <1>3, <2>1 DEF Counted
  <2>2. CASE i = Len(l) + 1
    BY <1>5, <2>2 DEF Counted
  <2>3. QED  BY <1>2, <2>1, <2>2
<1>7. Linked(m)
  <2> SUFFICES ASSUME NEW i \in DOMAIN m
               PROVE  /\ m[i].undoneBy # None =>
                            /\ m[i].undoneBy \in i + 1 .. Len(m)
                            /\ m[m[i].undoneBy].undoOf = i
                            /\ m[i].kind \notin {"undo", "reject"}
                      /\ m[i].undoOf # None =>
                            /\ m[i].kind = "undo"
                            /\ m[i].undoOf \in 1 .. i - 1
                            /\ m[m[i].undoOf].undoneBy = i
    BY DEF Linked
  <2>1. CASE i = Len(l) + 1
    BY <2>1
  <2>2. CASE i \in DOMAIN l
    <3>1. m[i] = l[i]
      BY <1>1, <2>2
    <3>2. CASE l[i].undoneBy # None
      <4>1. /\ l[i].undoneBy \in i + 1 .. Len(l) /\ l[l[i].undoneBy].undoOf = i
            /\ l[i].kind \notin {"undo", "reject"}
        BY <2>2, <3>2 DEF Linked
      <4>2. l[i].undoneBy \in 1 .. Len(l) /\ l[i].undoneBy \in i + 1 .. Len(m)
        BY <1>1, <2>2, <4>1
      <4>3. m[m[i].undoneBy].undoOf = i
        BY <3>1, <4>1, <4>2
      <4>4. l[i].undoOf # None =>
               /\ l[i].kind = "undo" /\ l[i].undoOf \in 1 .. i - 1
               /\ l[l[i].undoOf].undoneBy = i
        BY <2>2 DEF Linked
      <4>5. QED  BY <3>1, <4>1, <4>2, <4>3, <4>4
    <3>3. CASE l[i].undoneBy = None
      <4>1. l[i].undoOf # None =>
               /\ l[i].kind = "undo" /\ l[i].undoOf \in 1 .. i - 1
               /\ l[l[i].undoOf].undoneBy = i
        BY <2>2 DEF Linked
      <4>2. l[i].undoOf # None => l[i].undoOf \in 1 .. Len(l)
        BY <1>1, <2>2, <4>1
      <4>3. QED  BY <3>1, <3>3, <4>1, <4>2
    <3>4. QED  BY <3>2, <3>3
  <2>3. QED  BY <1>2, <2>1, <2>2
<1>8. QED  BY <1>6, <1>7

LEMMA RejectItemsKeeps ==
    ASSUME PInv, NEW p \in DOMAIN proposals, NEW named \in SUBSET DOMAIN proposals[p].items,
           RejectItems(p, named)
    PROVE  PInv'
<1> DEFINE items == Widened(p, named)
           listed == InOrder(items)
           n == Len(proposals[p].items)
           cards == [k \in DOMAIN listed |->
                       [action |-> proposals[p].items[listed[k]].action,
                        card |-> proposals[p].items[listed[k]].card, quantity |-> 1,
                        item |-> [proposal |-> p, index |-> listed[k]]]]
           row == [kind |-> "reject", via |-> "ui", revision |-> revision, proposal |-> p,
                   undoOf |-> None, undoneBy |-> None, cards |-> cards]
<1>1. /\ Decidable(p, named) /\ Idle /\ acts = <<>> /\ log' = Append(log, row)
      /\ proposals' = Ruled(p, items, "rejected")
      /\ category' = category /\ slots' = slots /\ rows' = rows /\ revision' = revision
      /\ identity' = identity /\ acts' = acts /\ logged' = logged /\ saved' = saved
      /\ savedProposals' = savedProposals
  BY DEF RejectItems, Decidable, running, Idle
<1>2. /\ IInv /\ WellFormed(proposals) /\ log \in Seq(Entry) /\ Len(log) \in Nat
      /\ revision \in Nat /\ p \in Nat /\ n \in Nat /\ DOMAIN proposals[p].items = 1 .. n
      /\ \A i \in 1 .. n : proposals[p].items[i] \in Input
  <2>1. IInv /\ WellFormed(proposals)
    BY DEF PInv, ProposalsOK
  <2>2. log \in Seq(Entry) /\ Len(log) \in Nat /\ revision \in Nat
    BY <2>1 DEF IInv, TypeOK
  <2>3. QED  BY <2>1, <2>2, ProposalFacts
<1>3. Whole(proposals, p, items)
  BY <1>1, WidenedWhole
<1>4. items \in SUBSET (1 .. n)
  BY <1>2 DEF Widened
<1>5. /\ listed \in Seq(items) /\ DOMAIN listed = 1 .. Len(listed) /\ Len(listed) \in Nat
      /\ \A k \in DOMAIN listed : listed[k] \in items
      /\ \A i \in items : \E k \in DOMAIN listed : listed[k] = i
  <2>1. listed \in Seq(items) /\ \A i \in items : \E k \in DOMAIN listed : listed[k] = i
    BY <1>2, <1>4, InOrderFacts
  <2> HIDE DEF items, listed
  <2>2. QED  BY <2>1
<1>6. /\ DOMAIN cards = DOMAIN listed
      /\ \A k \in DOMAIN cards : /\ cards[k].action # "role"
                                 /\ cards[k].item = [proposal |-> p, index |-> listed[k]]
                                 /\ cards[k] \in Rejected
  <2> HIDE DEF items, listed
  <2>1. DOMAIN cards = DOMAIN listed
    OBVIOUS
  <2> SUFFICES ASSUME NEW k \in DOMAIN listed
               PROVE  /\ cards[k].action # "role"
                      /\ cards[k].item = [proposal |-> p, index |-> listed[k]]
                      /\ cards[k] \in Rejected
    BY <2>1
  <2>2. listed[k] \in 1 .. n
    BY <1>4, <1>5
  <2>3. proposals[p].items[listed[k]] \in Input /\ listed[k] \in Nat
    BY <1>2, <2>2
  <2>4. QED  BY <1>2, <2>3 DEF Input, Rejected, Item
<1>7. row.cards = cards /\ cards \in Seq(Rejected)
  <2>1. row.cards = cards
    OBVIOUS
  <2> HIDE DEF cards, listed
  <2>2. cards \in [1 .. Len(listed) -> Rejected]
    <3>1. \A k \in 1 .. Len(listed) : cards[k] \in Rejected
      BY <1>5, <1>6
    <3>2. cards = [k \in 1 .. Len(listed) |-> cards[k]]
      BY <1>5, <1>6 DEF cards
    <3>3. QED  BY <3>1, <3>2
  <2>3. QED  BY <1>5, <2>1, <2>2
<1> HIDE DEF cards
<1>8. /\ row.kind = "reject" /\ row.revision = revision /\ row.undoOf = None /\ row.via = "ui"
      /\ row.undoneBy = None /\ row.proposal = p /\ row \in Entry
  BY <1>2, <1>7 DEF Entry, Entries, Via
<1> HIDE DEF row, items, listed
<1>9. /\ log' \in Seq(Entry) /\ Len(log') = Len(log) + 1 /\ log'[Len(log) + 1] = row
      /\ \A i \in 1 .. Len(log) : log'[i] = log[i]
  BY <1>1, <1>2, <1>8
<1>10. LogsOne(log, log')
  BY <1>9 DEF LogsOne
<1>11. Decides(proposals, proposals', p, items, "rejected")
  BY <1>1, <1>2, RuledFacts
<1>12. \A i \in DOMAIN proposals[p].items : i \in items <=> LastRecords(log', p, i, "reject")
  <2> SUFFICES ASSUME NEW i \in DOMAIN proposals[p].items
               PROVE  i \in items <=> LastRecords(log', p, i, "reject")
    OBVIOUS
  <2>1. log'[Len(log')] = row
    BY <1>9
  <2>2. LastRecords(log', p, i, "reject") <=>
           \E k \in DOMAIN cards : cards[k].item = [proposal |-> p, index |-> i]
    BY <1>6, <1>7, <1>8, <2>1 DEF LastRecords
  <2>3. \A k \in DOMAIN cards : cards[k].item = [proposal |-> p, index |-> i] <=> listed[k] = i
    <3>1. \A j : [proposal |-> p, index |-> j].index = j
      OBVIOUS
    <3>2. \A j : [proposal |-> p, index |-> j] = [proposal |-> p, index |-> i] <=> j = i
      BY <3>1
    <3>3. QED  BY <1>6, <3>2
  <2>4. QED  BY <1>5, <1>6, <2>2, <2>3
<1>13. Book(proposals', log')
  <2>1. log'[Len(log')].kind = "reject" /\ log'[Len(log')].proposal = p
    BY <1>8, <1>9
  <2>2. Book(proposals, log)
    BY DEF PInv
  <2>3. QED  BY <1>2, <1>3, <1>10, <1>11, <1>12, <2>1, <2>2, DecidedBook
<1>14. Counted(revision, log') /\ Linked(log')
  <2>1. Counted(revision, log) /\ Linked(log)
    BY <1>2 DEF IInv, RevisionCountsTheLog, UndoneOnce
  <2>2. QED  BY <1>2, <1>8, <1>9, <2>1, CountedOnReject
<1>15. IInv'
  <2>1. Idle' /\ DOMAIN acts' = {}
    BY <1>1 DEF Idle
  <2>2. TypeOK'
    BY <1>1, <1>2, <1>9, <2>1 DEF IInv, TypeOK, Present, Assignable, Live
  <2>3. CommandZoneFits' /\ IdentityFollows'
    BY <1>1, <1>2, <2>1 DEF IInv, CommandZoneFits, IdentityFollows, Zone
  <2>4. RevisionCountsTheLog' /\ UndoneOnce'
    BY <1>1, <1>14 DEF RevisionCountsTheLog, UndoneOnce
  <2>5. SavedIsSound' /\ ActsAreSound' /\ RequestIsLawful'
    BY <2>1 DEF SavedIsSound, ActsAreSound, RequestIsLawful
  <2>6. QED  BY <2>2, <2>3, <2>4, <2>5 DEF IInv
<1>16. savedProposals' = None
  BY <1>1 DEF PInv, ProposalsOK
<1>17. QED  BY <1>1, <1>13, <1>15, <1>16, IdleKeeps

-----------------------------------------------------------------------------
(* Requests that end *)

\* The log after a landed act: one more row, its own.
LEMMA LandLogs ==
    ASSUME IInv, ~Idle, log' = Append(Marked(acts[1]), EntryOf(acts[1]))
    PROVE  /\ LogsOne(log, log') /\ log'[Len(log')].kind = acts[1].kind
           /\ log'[Len(log')].proposal = acts[1].proposal /\ log'[Len(log')].cards = logged
<1>1. /\ log' \in Seq(Entry) /\ Len(log') = Len(log) + 1
      /\ \A i \in 1 .. Len(log) :
            log'[i] = IF i = acts[1].undoOf THEN [log[i] EXCEPT !.undoneBy = Len(log) + 1] ELSE log[i]
      /\ log'[Len(log) + 1] = EntryOf(acts[1])
  BY LandedLog
<1>2. log \in Seq(Entry)
  BY DEF IInv, TypeOK
<1>3. ASSUME NEW i \in 1 .. Len(log)
      PROVE  /\ log'[i].kind = log[i].kind /\ log'[i].proposal = log[i].proposal
             /\ log'[i].cards = log[i].cards
  <2>1. log[i] \in Entry
    BY <1>2, <1>3
  <2>2. \A u : /\ [log[i] EXCEPT !.undoneBy = u].kind = log[i].kind
               /\ [log[i] EXCEPT !.undoneBy = u].proposal = log[i].proposal
               /\ [log[i] EXCEPT !.undoneBy = u].cards = log[i].cards
    BY <2>1 DEF Entry, Entries
  <2>3. log'[i] = log[i] \/ log'[i] = [log[i] EXCEPT !.undoneBy = Len(log) + 1]
    BY <1>1, <1>3
  <2>4. CASE log'[i] = log[i]
    BY <2>4
  <2>5. CASE log'[i] = [log[i] EXCEPT !.undoneBy = Len(log) + 1]
    BY <2>2, <2>5
  <2>6. QED  BY <2>3, <2>4, <2>5
<1>4. QED  BY <1>1, <1>3 DEF LogsOne, EntryOf

\* An acceptance that lands has logged each of its items, and no other.
LEMMA AcceptanceLands ==
    ASSUME PInv, Finish, acts[1].kind = "accept"
    PROVE  LET p == acts[1].proposal
               S == {x.index : x \in acts[1].items}
           IN /\ logged # <<>> /\ Whole(proposals, p, S)
              /\ LogsOne(log, log') /\ log'[Len(log')].kind = "accept"
              /\ log'[Len(log')].proposal = p
              /\ Decides(proposals, proposals', p, S, "accepted")
              /\ Book(proposals', log')
<1> DEFINE act == acts[1]
           p == acts[1].proposal
           S == {x.index : x \in acts[1].items}
<1>1. /\ IInv /\ ~Idle /\ Land /\ act.changes = {} /\ act \in Act /\ acts \in Seq(Act)
      /\ 1 \in DOMAIN acts /\ logged \in Seq(LogCard)
  BY DEF PInv, IInv, TypeOK, Finish, Land, Idle
<1>2. Accepts(act, logged)
  BY <1>1 DEF PInv, BatchIsSound
<1>3. /\ p \in DOMAIN proposals /\ IsCurrent(p) /\ act.items # {}
      /\ \A x \in act.items : /\ x.proposal = p /\ x.index \in Pending(p)
                              /\ \E k \in DOMAIN logged : logged[k].item = x
      /\ \A k \in DOMAIN logged : logged[k].action # "role" /\ logged[k].item \in act.items
  BY <1>1, <1>2 DEF Accepts
<1>4. logged # <<>>
  BY <1>3
<1>5. act.items \in SUBSET Item /\ \A x \in act.items : x = Id(p, x.index)
  <2>1. act.items \in SUBSET Item
    BY <1>1 DEF Act
  <2>2. QED  BY <1>3, <2>1 DEF Item, Id
<1>6. \A i : i \in S <=> Id(p, i) \in act.items
  <2>1. \A i : Id(p, i).index = i
    BY DEF Id
  <2>2. QED  BY <1>5, <2>1
<1>7. Whole(proposals, p, S)
  <2>1. S # {} /\ S \subseteq PendingIn(proposals, p)
    BY <1>3 DEF Pending
  <2>2. ASSUME NEW i \in S, NEW j \in DOMAIN proposals[p].items,
               proposals[p].items[i].group = proposals[p].items[j].group,
               proposals[p].items[i].group # NoGroup
        PROVE  j \in S
    <3>1. PICK x \in act.items : x.index = i
      OBVIOUS
    <3>2. Id(p, j) \in act.items
      BY <1>2, <2>2, <3>1 DEF Accepts
    <3>3. QED  BY <1>6, <3>2
  <2>3. QED  BY <1>3, <2>1, <2>2 DEF Whole, IsCurrent
<1>8. log' = Append(Marked(act), EntryOf(act)) /\ proposals' = Ruled(p, S, "accepted")
  BY <1>1, <1>4 DEF Land, Finish
<1> HIDE DEF S, p, act
<1>9. /\ LogsOne(log, log') /\ log'[Len(log')].kind = "accept"
      /\ log'[Len(log')].proposal = p /\ log'[Len(log')].cards = logged
  BY <1>1, <1>8, LandLogs DEF act, p
<1>10. /\ WellFormed(proposals) /\ log \in Seq(Entry)
  BY DEF PInv, ProposalsOK, IInv, TypeOK
<1>11. Decides(proposals, proposals', p, S, "accepted")
  BY <1>3, <1>8, <1>10, RuledFacts
<1>12. \A i \in DOMAIN proposals[p].items : i \in S <=> LastRecords(log', p, i, "accept")
  <2> SUFFICES ASSUME NEW i PROVE i \in S <=> LastRecords(log', p, i, "accept")
    OBVIOUS
  <2>1. LastRecords(log', p, i, "accept") <=> \E k \in DOMAIN logged : logged[k].item = Id(p, i)
    BY <1>3, <1>9 DEF LastRecords, Id
  <2>2. QED  BY <1>3, <1>6, <2>1
<1>13. Book(proposals', log')
  <2>1. Book(proposals, log)
    BY DEF PInv
  <2>2. QED  BY <1>7, <1>9, <1>10, <1>11, <1>12, <2>1, DecidedBook
<1>14. QED  BY <1>4, <1>7, <1>9, <1>11, <1>13 DEF S, p

\* What is true of the book after any landed act: rulings that were made stay.
LEMMA FinishRules ==
    ASSUME PInv, Finish, ~(logged = <<>> /\ acts[1].kind = "undo")
    PROVE  /\ Book(proposals', log') /\ Len(proposals') = Len(proposals)
           /\ \A q \in DOMAIN proposals :
                 /\ proposals'[q].items = proposals[q].items /\ proposals'[q].base = proposals[q].base
                 /\ q # acts[1].proposal => proposals'[q] = proposals[q]
                 /\ \A i \in DOMAIN proposals[q].items :
                       proposals[q].ruling[i] # "pending" =>
                          proposals'[q].ruling[i] = proposals[q].ruling[i]
           /\ acts[1].kind # "accept" => proposals' = proposals
<1>1. /\ IInv /\ Land /\ ~Idle /\ log \in Seq(Entry) /\ Book(proposals, log)
      /\ WellFormed(proposals) /\ 1 \in DOMAIN acts
  <2>1. Land /\ ~Idle
    BY DEF Finish, Land
  <2>2. IInv /\ Book(proposals, log) /\ WellFormed(proposals)
    BY DEF PInv, ProposalsOK
  <2>3. log \in Seq(Entry) /\ acts \in Seq(Act)
    BY <2>2 DEF IInv, TypeOK
  <2>4. 1 \in DOMAIN acts
    BY <2>1, <2>3 DEF Idle
  <2>5. QED  BY <2>1, <2>2, <2>3, <2>4
<1>2. /\ logged # <<>> => log' = Append(Marked(acts[1]), EntryOf(acts[1]))
      /\ logged = <<>> => log' = log
  BY <1>1 DEF Land
<1>3. CASE acts[1].kind = "accept"
  <2> DEFINE p == acts[1].proposal
             S == {x.index : x \in acts[1].items}
  <2>1. /\ Whole(proposals, p, S) /\ Decides(proposals, proposals', p, S, "accepted")
        /\ Book(proposals', log')
    BY <1>3, AcceptanceLands
  <2> HIDE DEF p, S
  <2>2. p \in DOMAIN proposals /\ \A i \in S : proposals[p].ruling[i] = "pending"
    BY <2>1 DEF Whole, PendingIn
  <2>3. QED  BY <1>3, <2>1, <2>2 DEF Decides, p
<1>4. CASE acts[1].kind # "accept"
  <2>1. proposals' = proposals
    BY <1>4 DEF Finish
  <2>2. CASE logged = <<>>
    BY <1>1, <1>2, <1>4, <2>1, <2>2
  <2>3. CASE logged # <<>>
    <3>1. LogsOne(log, log') /\ log'[Len(log')].kind \notin {"accept", "reject"}
      BY <1>1, <1>2, <1>4, <2>3, LandLogs DEF IInv, ActsAreSound
    <3>2. Book(proposals, log')
      BY <1>1, <3>1, UndecidedBook
    <3>3. QED  BY <1>4, <2>1, <3>2
  <2>4. QED  BY <2>2, <2>3
<1>5. QED  BY <1>3, <1>4

LEMMA FinishKeeps == ASSUME PInv, Finish PROVE PInv'
<1>1. /\ IInv' /\ IInv /\ Land /\ ~Idle /\ acts \in Seq(Act) /\ 1 \in DOMAIN acts
      /\ log \in Seq(Entry) /\ Book(proposals, log) /\ WellFormed(proposals)
  <2>1. IInv /\ Land /\ ~Idle /\ Book(proposals, log) /\ WellFormed(proposals)
    BY DEF PInv, ProposalsOK, Finish, Land
  <2>2. IInv'
    BY <2>1, LandKeeps
  <2>3. acts \in Seq(Act) /\ 1 \in DOMAIN acts /\ log \in Seq(Entry)
    BY <2>1 DEF IInv, TypeOK, Idle
  <2>4. QED  BY <2>1, <2>2, <2>3
<1>2. CASE logged = <<>> /\ acts[1].kind = "undo"
  <2>1. acts' = <<>> /\ log' = saved.log /\ proposals' = proposals /\ savedProposals' = None
    BY <1>1, <1>2 DEF Finish, Land, Restore, Done
  <2>2. Book(proposals', log')
    BY <1>1, <1>2, <2>1 DEF PInv, SavedBookIsOpen
  <2>3. QED  BY <1>1, <2>1, <2>2, IdleKeeps
<1>3. CASE ~(logged = <<>> /\ acts[1].kind = "undo")
  <2>1. /\ acts' = Tail(acts) /\ logged' = <<>> /\ saved' = IF Idle' THEN None ELSE saved
        /\ savedProposals' = IF Idle' THEN None ELSE savedProposals
        /\ logged # <<>> => log' = Append(Marked(acts[1]), EntryOf(acts[1]))
        /\ logged = <<>> => log' = log
    BY <1>1, <1>3 DEF Land, Finish, Idle
  <2>2. /\ DOMAIN acts' = 1 .. Len(acts) - 1
        /\ \A k \in DOMAIN acts' : k + 1 \in DOMAIN acts /\ acts'[k] = acts[k + 1] /\ k + 1 # 1
    <3>1. /\ acts' \in Seq(Act) /\ Len(acts') = Len(acts) - 1
          /\ \A k \in DOMAIN acts' : k + 1 \in DOMAIN acts /\ acts'[k] = acts[k + 1]
      BY <1>1, <2>1, RestFacts DEF IInv
    <3>2. QED  BY <3>1
  <2>3. /\ Book(proposals', log') /\ Len(proposals') = Len(proposals)
        /\ \A q \in DOMAIN proposals :
              /\ proposals'[q].items = proposals[q].items /\ proposals'[q].base = proposals[q].base
              /\ q # acts[1].proposal => proposals'[q] = proposals[q]
              /\ \A i \in DOMAIN proposals[q].items :
                    proposals[q].ruling[i] # "pending" =>
                       proposals'[q].ruling[i] = proposals[q].ruling[i]
        /\ acts[1].kind # "accept" => proposals' = proposals
    BY <1>1, <1>3, FinishRules
  <2>4. CASE Idle'
    BY <1>1, <2>1, <2>3, <2>4, IdleKeeps DEF Idle
  <2>5. CASE ~Idle'
    <3>1. ProposalsOK'
      <4>1. savedProposals' = savedProposals /\ savedProposals # None
            /\ savedProposals \in {None} \cup Seq(Proposal)
        BY <1>1, <2>1, <2>5 DEF PInv, ProposalsOK
      <4>2. QED  BY <2>3, <2>5, <4>1 DEF ProposalsOK, Book
    <3>2. BatchIsSound'
      <4>1. ASSUME NEW k \in DOMAIN acts', acts'[k].kind = "accept"
            PROVE  Accepts(acts[k], IF k = 1 THEN logged ELSE <<>>)'
        <5>1. /\ k + 1 \in DOMAIN acts /\ k + 1 # 1 /\ acts'[k] = acts[k + 1]
              /\ acts[k + 1].kind = "accept"
          BY <2>2, <4>1
        <5>2. Accepts(acts[k + 1], <<>>)
          BY <5>1 DEF PInv, BatchIsSound
        <5>3. acts[k + 1].proposal # acts[1].proposal
          BY <1>1, <5>1 DEF PInv, BatchIsSound
        <5>4. /\ acts[k + 1].proposal \in DOMAIN proposals'
              /\ proposals'[acts[k + 1].proposal] = proposals[acts[k + 1].proposal]
          BY <1>1, <2>3, <5>2, <5>3 DEF Accepts, WellFormed, Book
        <5>5. (IF k = 1 THEN logged' ELSE <<>>) = <<>>
          BY <2>1
        <5>6. QED
          BY <5>1, <5>2, <5>4, <5>5 DEF Accepts, IsCurrent, Pending, PendingIn
      <4>2. ASSUME NEW j \in DOMAIN acts', NEW k \in DOMAIN acts', acts'[j].kind = "accept"
            PROVE  acts'[k].kind = "accept" /\ (acts'[j].proposal = acts'[k].proposal => j = k)
        <5>1. /\ j + 1 \in DOMAIN acts /\ acts'[j] = acts[j + 1]
              /\ k + 1 \in DOMAIN acts /\ acts'[k] = acts[k + 1]
          BY <2>2
        <5>2. /\ acts[k + 1].kind = "accept"
              /\ acts[j + 1].proposal = acts[k + 1].proposal => j + 1 = k + 1
          BY <4>2, <5>1 DEF PInv, BatchIsSound
        <5>3. j \in Nat /\ k \in Nat
          BY <1>1, <2>2
        <5>4. QED  BY <5>1, <5>2, <5>3
      <4>3. QED  BY <4>1, <4>2 DEF BatchIsSound
    <3>3. SavedBookIsOpen'
      <4>1. /\ Book(savedProposals, saved.log) /\ Len(savedProposals) = Len(proposals)
            /\ \A q \in DOMAIN proposals :
                  /\ savedProposals[q].items = proposals[q].items
                  /\ savedProposals[q].base = proposals[q].base
                  /\ \A i \in DOMAIN proposals[q].items :
                        savedProposals[q].ruling[i] # "pending" =>
                           proposals[q].ruling[i] = savedProposals[q].ruling[i]
            /\ acts[1].kind # "accept" => savedProposals = proposals
        BY <1>1 DEF PInv, SavedBookIsOpen
      <4>2. DOMAIN proposals' = DOMAIN proposals
        BY <1>1, <2>3 DEF Book, WellFormed
      <4>3. acts'[1].kind # "accept" => acts[1].kind # "accept"
        <5>1. 1 \in DOMAIN acts'
          BY <1>1, <2>5 DEF IInv, TypeOK, Idle
        <5>2. 2 \in DOMAIN acts /\ acts'[1] = acts[2]
          BY <2>2, <5>1
        <5>3. QED  BY <1>1, <5>2 DEF PInv, BatchIsSound
      <4>4. savedProposals' = savedProposals /\ saved' = saved
        BY <2>1, <2>5
      <4>5. \A q \in DOMAIN proposals' :
               /\ savedProposals[q].items = proposals'[q].items
               /\ savedProposals[q].base = proposals'[q].base
               /\ \A i \in DOMAIN proposals'[q].items :
                     savedProposals[q].ruling[i] # "pending" =>
                        proposals'[q].ruling[i] = savedProposals[q].ruling[i]
        BY <2>3, <4>1, <4>2
      <4>6. acts'[1].kind # "accept" => savedProposals = proposals'
        BY <2>3, <4>1, <4>3
      <4>7. QED  BY <2>3, <4>1, <4>4, <4>5, <4>6 DEF SavedBookIsOpen
    <3>4. QED  BY <1>1, <2>3, <3>1, <3>2, <3>3 DEF PInv
  <2>6. QED  BY <2>4, <2>5
<1>4. QED  BY <1>2, <1>3

-----------------------------------------------------------------------------
(* Proposing *)

LEMMA FreshFacts ==
    ASSUME revision \in Nat, NEW items \in Seq(Input), items # <<>>
    PROVE  /\ Fresh(items) \in Proposal /\ Fresh(items).items = items
           /\ Fresh(items).status = "open" /\ Fresh(items).disposition = "current"
           /\ Fresh(items).successor = None /\ Fresh(items).base = revision
           /\ Len(Fresh(items).ruling) = Len(items)
           /\ \A i \in DOMAIN items : Fresh(items).ruling[i] = "pending"
           /\ 1 \in DOMAIN items
<1> DEFINE ruling == [i \in DOMAIN items |-> "pending"]
<1>1. /\ ruling \in Seq({"pending", "accepted", "rejected"}) /\ Len(ruling) = Len(items)
      /\ \A i \in DOMAIN items : ruling[i] = "pending"
      /\ 1 \in DOMAIN items
  OBVIOUS
<1> HIDE DEF ruling
<1>2. Fresh(items) = [base |-> revision, status |-> "open", disposition |-> "current",
                      successor |-> None, items |-> items, ruling |-> ruling]
  BY DEF Fresh, ruling
<1>3. Fresh(items) \in Proposal
  BY <1>1, <1>2 DEF Proposal
<1>4. QED  BY <1>1, <1>2, <1>3

\* Only proposals move, between requests.
LEMMA QuietKeeps ==
    ASSUME PInv, Idle, Quiet, Book(proposals', log)
    PROVE  PInv'
<1>1. UNCHANGED vars /\ savedProposals' = savedProposals
  BY DEF Quiet
<1>2. IInv' /\ acts' = acts /\ log' = log
  BY <1>1, StutterKeeps DEF PInv, vars, running, deck
<1>3. acts = <<>> /\ savedProposals = None
  BY DEF PInv, ProposalsOK, Idle
<1>4. QED  BY <1>1, <1>2, <1>3, IdleKeeps

\* A proposal whose checks passed is added to a book in which others may just
\* have been closed.
LEMMA AddingKeeps ==
    ASSUME PInv, Idle, Quiet, NEW items \in Proposable, NEW open, Valid(items, open),
           NEW qs \in Seq(Proposal), Len(qs) = Len(proposals),
           proposals' = Append(qs, Fresh(items)),
           \A p \in DOMAIN proposals :
               /\ qs[p].items = proposals[p].items /\ qs[p].ruling = proposals[p].ruling
               /\ qs[p].status = "open" => proposals[p].status = "open" /\ p \in open
               /\ qs[p].status = "open" <=> qs[p].disposition = "current" /\ Pending(p) # {}
               /\ qs[p].disposition = "superseded" <=> qs[p].successor # None
               /\ qs[p].successor # None => qs[p].successor \in p + 1 .. Len(proposals) + 1
    PROVE  PInv'
<1> DEFINE n == Len(proposals)
<1>1. /\ WellFormed(proposals) /\ proposals \in Seq(Proposal) /\ n \in Nat
      /\ DOMAIN proposals = 1 .. n /\ revision \in Nat /\ log \in Seq(Entry)
      /\ Book(proposals, log)
  BY DEF PInv, ProposalsOK, WellFormed, IInv, TypeOK
<1>2. /\ items \in Seq(Input) /\ items # <<>>
      /\ \A i, j \in DOMAIN items :
            items[i].card = items[j].card /\ items[i].action = items[j].action => i = j
      /\ \A i \in DOMAIN items : \A p \in open : \A k \in Pending(p) :
            proposals[p].items[k].card = items[i].card =>
               proposals[p].items[k].action # items[i].action
  BY ProposalAssumption DEF Valid
<1>3. /\ Fresh(items) \in Proposal /\ Fresh(items).items = items
      /\ Fresh(items).status = "open" /\ Fresh(items).disposition = "current"
      /\ Fresh(items).successor = None /\ Len(Fresh(items).ruling) = Len(items)
      /\ \A i \in DOMAIN items : Fresh(items).ruling[i] = "pending"
      /\ 1 \in DOMAIN items
  BY <1>1, <1>2, FreshFacts
<1>4. /\ proposals' \in Seq(Proposal) /\ Len(proposals') = n + 1
      /\ DOMAIN proposals' = 1 .. n + 1
      /\ proposals'[n + 1] = Fresh(items)
      /\ \A p \in 1 .. n : proposals'[p] = qs[p]
  BY <1>1, <1>3
<1>5. \A p \in DOMAIN proposals' : p \in DOMAIN proposals \/ p = n + 1
  BY <1>1, <1>4
<1>6. WellFormed(proposals')
  <2>1. ASSUME NEW p \in DOMAIN proposals
        PROVE  /\ Len(proposals'[p].ruling) = Len(proposals'[p].items)
               /\ proposals'[p].status = "open" <=>
                     proposals'[p].disposition = "current" /\ PendingIn(proposals', p) # {}
               /\ proposals'[p].disposition = "superseded" <=> proposals'[p].successor # None
               /\ proposals'[p].successor # None =>
                     proposals'[p].successor \in p + 1 .. Len(proposals')
    <3>1. proposals'[p] = qs[p] /\ Len(proposals[p].ruling) = Len(proposals[p].items)
      BY <1>1, <1>4 DEF WellFormed
    <3>2. PendingIn(proposals', p) = Pending(p)
      BY <3>1 DEF PendingIn, Pending
    <3>3. QED  BY <1>4, <3>1, <3>2
  <2>2. PendingIn(proposals', n + 1) # {}
    BY <1>3, <1>4 DEF PendingIn
  <2>3. QED  BY <1>3, <1>4, <1>5, <2>1, <2>2 DEF WellFormed
<1>7. Revises(proposals, proposals')
  <2>1. Len(proposals') \in n .. n + 1
    BY <1>1, <1>4
  <2>2. \A p \in DOMAIN proposals :
           /\ proposals'[p].items = proposals[p].items /\ proposals'[p].ruling = proposals[p].ruling
           /\ proposals'[p].status = "open" => proposals[p].status = "open" /\ p \in open
    BY <1>1, <1>4
  <2>3. \A m \in DOMAIN proposals' \ DOMAIN proposals : m = n + 1
    BY <1>5
  <2>4. \A i \in DOMAIN items, p \in DOMAIN proposals : proposals'[p].status = "open" =>
           \A k \in PendingIn(proposals, p) :
              proposals[p].items[k].card = items[i].card =>
                 proposals[p].items[k].action # items[i].action
    BY <1>2, <2>2 DEF Pending
  <2>5. ASSUME NEW m \in DOMAIN proposals' \ DOMAIN proposals
        PROVE  /\ \A i \in DOMAIN proposals'[m].items : proposals'[m].ruling[i] = "pending"
               /\ \A i, j \in DOMAIN proposals'[m].items :
                     proposals'[m].items[i].card = proposals'[m].items[j].card
                     /\ proposals'[m].items[i].action = proposals'[m].items[j].action => i = j
               /\ \A i \in DOMAIN proposals'[m].items, p \in DOMAIN proposals :
                     proposals'[p].status = "open" =>
                        \A k \in PendingIn(proposals, p) :
                           proposals[p].items[k].card = proposals'[m].items[i].card =>
                              proposals[p].items[k].action # proposals'[m].items[i].action
    <3>1. proposals'[m] = Fresh(items) /\ proposals'[m].items = items
      BY <1>3, <1>4, <2>3
    <3>2. \A i \in DOMAIN items : proposals'[m].ruling[i] = "pending"
      BY <1>3, <3>1
    <3>3. QED  BY <1>2, <2>4, <3>1, <3>2
  <2>6. QED  BY <2>1, <2>2, <2>5 DEF Revises
<1>8. Book(proposals', log)
  BY <1>1, <1>6, <1>7, RevisedBook
<1>9. QED  BY <1>8, QuietKeeps

LEMMA ProposeKeeps == ASSUME PInv, NEW items \in Proposable, Propose(items) PROVE PInv'
<1>1. /\ Idle /\ Quiet /\ Valid(items, Open) /\ proposals' = Append(proposals, Fresh(items))
  BY DEF Propose
<1>2. WellFormed(proposals) /\ proposals \in Seq(Proposal) /\ Len(proposals) \in Nat
      /\ DOMAIN proposals = 1 .. Len(proposals)
  BY DEF PInv, ProposalsOK, WellFormed
<1>3. ASSUME NEW p \in DOMAIN proposals
      PROVE  /\ proposals[p].status = "open" => p \in Open
             /\ proposals[p].status = "open" <=> proposals[p].disposition = "current" /\ Pending(p) # {}
             /\ proposals[p].disposition = "superseded" <=> proposals[p].successor # None
             /\ proposals[p].successor # None =>
                   proposals[p].successor \in p + 1 .. Len(proposals) + 1
  <2>1. /\ proposals[p].status = "open" <=> proposals[p].disposition = "current" /\ Pending(p) # {}
        /\ proposals[p].disposition = "superseded" <=> proposals[p].successor # None
        /\ proposals[p].successor # None => proposals[p].successor \in p + 1 .. Len(proposals)
    BY <1>2 DEF WellFormed, Pending
  <2>2. p + 1 .. Len(proposals) \subseteq p + 1 .. Len(proposals) + 1
    BY <1>2
  <2>3. QED  BY <2>1, <2>2 DEF Open
<1>4. QED  BY <1>1, <1>2, <1>3, AddingKeeps

\* The proposals with one closed, as withdraw and amend leave them.
ClosedIn(p, disposition, successor) ==
    [proposals EXCEPT ![p] = [proposals[p] EXCEPT !.status = "resolved", !.disposition = disposition,
                                                  !.successor = successor]]

LEMMA ClosedFacts ==
    ASSUME WellFormed(proposals), NEW p \in DOMAIN proposals,
           NEW disposition \in {"withdrawn", "superseded"}, NEW successor \in {None} \cup Nat,
           NEW qs, qs = ClosedIn(p, disposition, successor)
    PROVE  /\ qs \in Seq(Proposal) /\ Len(qs) = Len(proposals) /\ DOMAIN qs = DOMAIN proposals
           /\ \A q \in DOMAIN proposals : q # p => qs[q] = proposals[q]
           /\ qs[p].items = proposals[p].items /\ qs[p].ruling = proposals[p].ruling
           /\ qs[p].base = proposals[p].base
           /\ qs[p].status = "resolved" /\ qs[p].disposition = disposition
           /\ qs[p].successor = successor
<1> DEFINE closed == [proposals[p] EXCEPT !.status = "resolved", !.disposition = disposition,
                                          !.successor = successor]
<1>1. proposals \in Seq(Proposal) /\ proposals[p] \in Proposal
      /\ DOMAIN proposals = 1 .. Len(proposals)
  BY DEF WellFormed
<1>2. /\ closed \in Proposal /\ closed.items = proposals[p].items
      /\ closed.ruling = proposals[p].ruling /\ closed.status = "resolved"
      /\ closed.base = proposals[p].base
      /\ closed.disposition = disposition /\ closed.successor = successor
  BY <1>1 DEF Proposal
<1>3. qs = [proposals EXCEPT ![p] = closed]
  BY DEF ClosedIn
<1> HIDE DEF closed
<1>4. /\ qs \in Seq(Proposal) /\ Len(qs) = Len(proposals)
      /\ \A q \in DOMAIN proposals : qs[q] = IF q = p THEN closed ELSE proposals[q]
  BY <1>1, <1>2, <1>3, ExceptSeq
<1>5. QED  BY <1>1, <1>2, <1>4

\* Withdrawing is such a closing, for a current proposal names no successor.
LEMMA WithdrawnIsClosed ==
    ASSUME WellFormed(proposals), NEW p \in DOMAIN proposals, IsCurrent(p)
    PROVE  /\ proposals[p].successor = None
           /\ [proposals EXCEPT ![p].status = "resolved", ![p].disposition = "withdrawn"]
                = ClosedIn(p, "withdrawn", None)
<1>1. proposals[p] \in Proposal /\ proposals[p].successor = None
  BY DEF WellFormed, IsCurrent
<1>2. [[proposals[p] EXCEPT !.status = "resolved"] EXCEPT !.disposition = "withdrawn"]
        = [[[proposals[p] EXCEPT !.status = "resolved"] EXCEPT !.disposition = "withdrawn"]
             EXCEPT !.successor = None]
  BY <1>1 DEF Proposal
<1>3. QED  BY <1>1, <1>2 DEF ClosedIn

LEMMA WithdrawKeeps == ASSUME PInv, NEW p \in DOMAIN proposals, Withdraw(p) PROVE PInv'
<1>1. /\ Idle /\ Quiet /\ IsCurrent(p) /\ WellFormed(proposals) /\ Book(proposals, log)
      /\ log \in Seq(Entry) /\ DOMAIN proposals = 1 .. Len(proposals) /\ Len(proposals) \in Nat
  BY DEF Withdraw, Revisable, PInv, ProposalsOK, WellFormed, IInv, TypeOK
<1>2. proposals[p].successor = None /\ proposals' = ClosedIn(p, "withdrawn", None)
  BY <1>1, WithdrawnIsClosed DEF Withdraw
<1>3. /\ proposals' \in Seq(Proposal) /\ Len(proposals') = Len(proposals)
      /\ DOMAIN proposals' = DOMAIN proposals
      /\ \A q \in DOMAIN proposals : q # p => proposals'[q] = proposals[q]
      /\ proposals'[p].items = proposals[p].items /\ proposals'[p].ruling = proposals[p].ruling
      /\ proposals'[p].status = "resolved" /\ proposals'[p].disposition = "withdrawn"
      /\ proposals'[p].successor = None
  <2>1. None \in {None} \cup Nat /\ "withdrawn" \in {"withdrawn", "superseded"}
    OBVIOUS
  <2>2. QED  BY <1>1, <1>2, <2>1, ClosedFacts
<1>4. \A q \in DOMAIN proposals : PendingIn(proposals', q) = PendingIn(proposals, q)
  BY <1>3 DEF PendingIn
<1>5. WellFormed(proposals')
  <2>1. ASSUME NEW q \in DOMAIN proposals'
        PROVE  /\ Len(proposals'[q].ruling) = Len(proposals'[q].items)
               /\ proposals'[q].status = "open" <=>
                     proposals'[q].disposition = "current" /\ PendingIn(proposals', q) # {}
               /\ proposals'[q].disposition = "superseded" <=> proposals'[q].successor # None
               /\ proposals'[q].successor # None =>
                     proposals'[q].successor \in q + 1 .. Len(proposals')
    <3>1. CASE q = p
      BY <1>1, <1>3, <3>1 DEF WellFormed
    <3>2. CASE q # p
      BY <1>1, <1>3, <1>4, <3>2 DEF WellFormed
    <3>3. QED  BY <3>1, <3>2
  <2>2. QED  BY <1>3, <2>1 DEF WellFormed
<1>6. Revises(proposals, proposals')
  <2>1. \A q \in DOMAIN proposals :
          /\ proposals'[q].items = proposals[q].items /\ proposals'[q].ruling = proposals[q].ruling
          /\ proposals'[q].status = "open" => proposals[q].status = "open"
    BY <1>3
  <2>2. DOMAIN proposals' \ DOMAIN proposals = {} /\ Len(proposals') \in Len(proposals) .. Len(proposals) + 1
    BY <1>1, <1>3
  <2>3. QED  BY <2>1, <2>2 DEF Revises
<1>7. Book(proposals', log)
  BY <1>1, <1>5, <1>6, RevisedBook
<1>8. QED  BY <1>1, <1>7, QuietKeeps

LEMMA AmendKeeps ==
    ASSUME PInv, NEW p \in DOMAIN proposals, NEW items \in Proposable, Amend(p, items)
    PROVE  PInv'
<1> DEFINE n == Len(proposals)
           qs == [proposals EXCEPT ![p].status = "resolved", ![p].disposition = "superseded",
                                   ![p].successor = n + 1]
<1>1. /\ Idle /\ Quiet /\ IsCurrent(p) /\ WellFormed(proposals) /\ Valid(items, Open \ {p})
      /\ proposals' = Append(qs, Fresh(items))
      /\ DOMAIN proposals = 1 .. n /\ n \in Nat
  BY DEF Amend, Revisable, PInv, ProposalsOK, WellFormed
<1>2. qs = ClosedIn(p, "superseded", n + 1)
  BY <1>1 DEF ClosedIn
<1> HIDE DEF qs
<1>3. /\ qs \in Seq(Proposal) /\ Len(qs) = n
      /\ \A q \in DOMAIN proposals : q # p => qs[q] = proposals[q]
      /\ qs[p].items = proposals[p].items /\ qs[p].ruling = proposals[p].ruling
      /\ qs[p].status = "resolved" /\ qs[p].disposition = "superseded" /\ qs[p].successor = n + 1
  <2>1. n + 1 \in {None} \cup Nat /\ "superseded" \in {"withdrawn", "superseded"}
    BY <1>1
  <2>2. QED  BY <1>1, <1>2, <2>1, ClosedFacts
<1>4. ASSUME NEW q \in DOMAIN proposals
      PROVE  /\ qs[q].items = proposals[q].items /\ qs[q].ruling = proposals[q].ruling
             /\ qs[q].status = "open" => proposals[q].status = "open" /\ q \in Open \ {p}
             /\ qs[q].status = "open" <=> qs[q].disposition = "current" /\ Pending(q) # {}
             /\ qs[q].disposition = "superseded" <=> qs[q].successor # None
             /\ qs[q].successor # None => qs[q].successor \in q + 1 .. n + 1
  <2>1. CASE q = p
    <3>1. n + 1 # None /\ n + 1 \in p + 1 .. n + 1
      BY <1>1, DataAssumption
    <3>2. QED  BY <1>3, <2>1, <3>1
  <2>2. CASE q # p
    <3>1. /\ proposals[q].status = "open" <=> proposals[q].disposition = "current" /\ Pending(q) # {}
          /\ proposals[q].disposition = "superseded" <=> proposals[q].successor # None
          /\ proposals[q].successor # None => proposals[q].successor \in q + 1 .. n
      BY <1>1 DEF WellFormed, Pending
    <3>2. q + 1 .. n \subseteq q + 1 .. n + 1
      BY <1>1
    <3>3. QED  BY <1>3, <2>2, <3>1, <3>2 DEF Open
  <2>3. QED  BY <2>1, <2>2
<1>5. QED  BY <1>1, <1>3, <1>4, AddingKeeps

-----------------------------------------------------------------------------
(* The theorems about proposals *)

LEMMA InitBook == PInit => PInv
<1> SUFFICES ASSUME PInit PROVE PInv
  OBVIOUS
<1>1. IInv /\ proposals = <<>> /\ savedProposals = None /\ acts = <<>> /\ log = <<>>
  BY InitIsSound DEF PInit, Init
<1>2. WellFormed(proposals)
  BY <1>1 DEF WellFormed
<1>3. Book(proposals, log)
  BY <1>1, <1>2 DEF Book, Grouped, Unrepeated, Explained
<1>4. ProposalsOK /\ BatchIsSound /\ SavedBookIsOpen
  BY <1>1, <1>2 DEF ProposalsOK, BatchIsSound, SavedBookIsOpen, Idle
<1>5. QED  BY <1>1, <1>3, <1>4 DEF PInv

LEMMA DecideKeeps == ASSUME PInv, Decide PROVE PInv'
<1>1. PICK p \in DOMAIN proposals :
         \/ \E named \in SUBSET DOMAIN proposals[p].items :
               \/ \E acknowledged \in BOOLEAN : AcceptItems(p, named, acknowledged)
               \/ RejectItems(p, named)
         \/ \E approved \in [1 .. p -> DOMAIN proposals], acknowledged \in SUBSET DOMAIN proposals :
               AcceptProposals(approved, acknowledged)
  BY DEF Decide
<1>2. ASSUME NEW named \in SUBSET DOMAIN proposals[p].items, NEW acknowledged \in BOOLEAN,
             AcceptItems(p, named, acknowledged)
      PROVE  PInv'
  BY <1>2, AcceptItemsKeeps
<1>3. ASSUME NEW named \in SUBSET DOMAIN proposals[p].items, RejectItems(p, named) PROVE PInv'
  BY <1>3, RejectItemsKeeps
<1>4. ASSUME NEW approved \in [1 .. p -> DOMAIN proposals],
             NEW acknowledged \in SUBSET DOMAIN proposals, AcceptProposals(approved, acknowledged)
      PROVE  PInv'
  BY <1>4, AcceptProposalsKeeps
<1>5. QED  BY <1>1, <1>2, <1>3, <1>4

LEMMA StutterKeepsBook == PInv /\ UNCHANGED pvars => PInv'
<1> SUFFICES ASSUME PInv, UNCHANGED pvars PROVE PInv'
  OBVIOUS
<1>1. UNCHANGED vars /\ proposals' = proposals /\ savedProposals' = savedProposals
  BY DEF pvars
<1>2. /\ IInv' /\ acts' = acts /\ logged' = logged /\ log' = log /\ saved' = saved
      /\ (Idle' <=> Idle)
  BY <1>1, StutterKeeps DEF PInv, vars, running, deck, Idle
<1>3. ProposalsOK' /\ SavedBookIsOpen' /\ Book(proposals', log')
  BY <1>1, <1>2 DEF PInv, ProposalsOK, SavedBookIsOpen
<1>4. BatchIsSound'
  BY <1>1, <1>2 DEF PInv, BatchIsSound, Accepts, IsCurrent, Pending
<1>5. QED  BY <1>2, <1>3, <1>4 DEF PInv

LEMMA PNextKeeps == PInv /\ [PNext]_pvars => PInv'
<1> SUFFICES ASSUME PInv, [PNext]_pvars PROVE PInv'
  OBVIOUS
<1>1. CASE OwnRequest \/ WhileIdle \/ Apply \/ Abandon \/ Finish
  BY <1>1, OwnRequestKeeps, WhileIdleKeeps, ApplyKeeps, AbandonKeeps, FinishKeeps
<1>2. ASSUME NEW items \in Proposable, Propose(items) PROVE PInv'
  BY <1>2, ProposeKeeps
<1>3. ASSUME NEW items \in Proposable, NEW p \in DOMAIN proposals, Amend(p, items) PROVE PInv'
  BY <1>3, AmendKeeps
<1>4. ASSUME NEW p \in DOMAIN proposals, Withdraw(p) PROVE PInv'
  BY <1>4, WithdrawKeeps
<1>5. CASE Decide
  BY <1>5, DecideKeeps
<1>6. CASE UNCHANGED pvars
  BY <1>6, StutterKeepsBook
<1>7. QED  BY <1>1, <1>2, <1>3, <1>4, <1>5, <1>6 DEF PNext

\* The invariant of proposals and log holds in every state, in the middle of a
\* batch of acceptances too (createProposal, amendProposal, withdrawProposal,
\* acceptItems, acceptProposals, rejectItems, over any edits of the deck).
THEOREM BookInvariance == PSpec => []PInv
<1>1. PInit => PInv
  BY InitBook
<1>2. PInv /\ [PNext]_pvars => PInv'
  BY PNextKeeps
<1>3. QED  BY <1>1, <1>2, PTL DEF PSpec

\* Proposals keep their type, and are open exactly while they are current and
\* wait for a ruling (closeIfRuled, requireOwnPending).
THEOREM ProposalsStayWellFormed == PSpec => []ProposalsOK
<1>1. PInv => ProposalsOK
  BY DEF PInv
<1>2. QED  BY <1>1, BookInvariance, PTL

\* No group is ever ruled on in part (itemsToRule).
THEOREM GroupsStayUnits == PSpec => []GroupsAreUnits
<1>1. PInv => GroupsAreUnits
  BY DEF PInv, Book, GroupsAreUnits
<1>2. QED  BY <1>1, BookInvariance, PTL

\* No change of a card waits twice (createProposal, amendProposal).
THEOREM NothingWaitsTwice == PSpec => []OnePendingPerCard
<1>1. PInv => OnePendingPerCard
  BY DEF PInv, Book, OnePendingPerCard
<1>2. QED  BY <1>1, BookInvariance, PTL

\* Each decided item has exactly one row of its outcome in the log, and an item
\* that waits has none (acceptItems, rejectItems, applyChanges).
THEOREM EveryDecisionIsLogged == PSpec => []DecisionsAreLogged
<1>1. PInv => DecisionsAreLogged
  BY DEF PInv, Book, DecisionsAreLogged
<1>2. QED  BY <1>1, BookInvariance, PTL

\* The log counts the deck's revisions with acceptances and rejections in it
\* (applyChanges, rejectItems).
THEOREM RevisionsCountedWithProposals == PSpec => []RevisionCountsTheLog
<1>1. PInv => RevisionCountsTheLog
  BY DEF PInv, IInv
<1>2. QED  BY <1>1, BookInvariance, PTL

-----------------------------------------------------------------------------
(* What a step keeps of the proposals a reader sees *)

\* Rulings that a reader has seen stay.
RulingsKept ==
    \A p \in DOMAIN Rulings : \A i \in DOMAIN Rulings[p].ruling :
       Rulings[p].ruling[i] # "pending" => Rulings'[p].ruling[i] = Rulings[p].ruling[i]

\* Proposals keep the revision they were written against, and a new one is
\* written between requests, against the deck's present revision.
BasesKept ==
    /\ \A p \in DOMAIN proposals : proposals'[p].base = proposals[p].base
    /\ \/ Len(proposals') = Len(proposals)
       \/ /\ Len(proposals') = Len(proposals) + 1
          /\ Idle /\ Idle' /\ UNCHANGED vars
          /\ proposals'[Len(proposals')].base = revision

\* The rulings of a well formed proposal are those of its items.
LEMMA RulingPositions ==
    ASSUME NEW ps, WellFormed(ps), NEW p \in DOMAIN ps
    PROVE  DOMAIN ps[p].ruling = DOMAIN ps[p].items
<1>1. ps[p] \in Proposal /\ Len(ps[p].ruling) = Len(ps[p].items)
  BY DEF WellFormed
<1>2. ps[p].ruling \in Seq({"pending", "accepted", "rejected"}) /\ ps[p].items \in Seq(Input)
  BY <1>1 DEF Proposal
<1>3. QED  BY <1>1, <1>2

\* A step that leaves the proposals alone, and either starts a request or
\* leaves the savepoint alone too.
LEMMA AloneKeeps ==
    ASSUME PInv, proposals' = proposals,
           \/ Idle /\ Idle'
           \/ Idle /\ savedProposals' = proposals
           \/ ~Idle /\ ~Idle' /\ savedProposals' = savedProposals
    PROVE  RulingsKept /\ BasesKept
<1>1. Rulings' = Rulings
  BY DEF Rulings
<1>2. QED  BY <1>1 DEF RulingsKept, BasesKept

\* A proposal more, or none; the others keep their rulings and bases.
LEMMA QuietlyKeeps ==
    ASSUME PInv, Idle, Quiet, NEW n, n = Len(proposals),
           \A p \in DOMAIN proposals : /\ proposals'[p].ruling = proposals[p].ruling
                                       /\ proposals'[p].base = proposals[p].base,
           \/ Len(proposals') = n
           \/ Len(proposals') = n + 1 /\ proposals'[n + 1].base = revision
    PROVE  RulingsKept /\ BasesKept
<1>1. UNCHANGED vars /\ Idle'
  BY DEF Quiet, vars, running, Idle
<1>2. Rulings = proposals /\ Rulings' = proposals'
  BY <1>1 DEF Rulings
<1>3. QED  BY <1>1, <1>2 DEF RulingsKept, BasesKept

LEMMA ProposeSettles ==
    ASSUME PInv, NEW items \in Proposable, Propose(items) PROVE RulingsKept /\ BasesKept
<1>1. /\ Idle /\ Quiet /\ proposals' = Append(proposals, Fresh(items))
      /\ proposals \in Seq(Proposal) /\ Len(proposals) \in Nat
      /\ Fresh(items).base = revision /\ DOMAIN proposals = 1 .. Len(proposals)
  BY DEF Propose, PInv, ProposalsOK, WellFormed, Fresh
<1>2. Len(proposals') = Len(proposals) + 1 /\ proposals'[Len(proposals) + 1] = Fresh(items)
      /\ \A p \in DOMAIN proposals : proposals'[p] = proposals[p]
  BY <1>1
<1>3. QED  BY <1>1, <1>2, QuietlyKeeps

LEMMA WithdrawSettles ==
    ASSUME PInv, NEW p \in DOMAIN proposals, Withdraw(p) PROVE RulingsKept /\ BasesKept
<1>1. Idle /\ Quiet /\ IsCurrent(p) /\ WellFormed(proposals)
  BY DEF Withdraw, Revisable, PInv, ProposalsOK
<1>2. proposals' = ClosedIn(p, "withdrawn", None)
  BY <1>1, WithdrawnIsClosed DEF Withdraw
<1>3. None \in {None} \cup Nat /\ "withdrawn" \in {"withdrawn", "superseded"}
  OBVIOUS
<1>4. /\ Len(proposals') = Len(proposals)
      /\ \A q \in DOMAIN proposals : q # p => proposals'[q] = proposals[q]
      /\ proposals'[p].ruling = proposals[p].ruling /\ proposals'[p].base = proposals[p].base
  BY <1>1, <1>2, <1>3, ClosedFacts
<1>5. \A q \in DOMAIN proposals : /\ proposals'[q].ruling = proposals[q].ruling
                                  /\ proposals'[q].base = proposals[q].base
  BY <1>4
<1>6. QED  BY <1>1, <1>4, <1>5, QuietlyKeeps

LEMMA AmendSettles ==
    ASSUME PInv, NEW p \in DOMAIN proposals, NEW items \in Proposable, Amend(p, items)
    PROVE  RulingsKept /\ BasesKept
<1> DEFINE n == Len(proposals)
           qs == [proposals EXCEPT ![p].status = "resolved", ![p].disposition = "superseded",
                                   ![p].successor = n + 1]
<1>1. /\ Idle /\ Quiet /\ WellFormed(proposals) /\ proposals' = Append(qs, Fresh(items))
      /\ DOMAIN proposals = 1 .. n /\ n \in Nat /\ Fresh(items).base = revision
  BY DEF Amend, Revisable, PInv, ProposalsOK, WellFormed, Fresh
<1>2. qs = ClosedIn(p, "superseded", n + 1)
  BY <1>1 DEF ClosedIn
<1> HIDE DEF qs
<1>3. /\ qs \in Seq(Proposal) /\ Len(qs) = n
      /\ \A q \in DOMAIN proposals : q # p => qs[q] = proposals[q]
      /\ qs[p].ruling = proposals[p].ruling /\ qs[p].base = proposals[p].base
  <2>1. n + 1 \in {None} \cup Nat /\ "superseded" \in {"withdrawn", "superseded"}
    BY <1>1
  <2>2. QED  BY <1>1, <1>2, <2>1, ClosedFacts
<1>4. Len(proposals') = n + 1 /\ proposals'[n + 1] = Fresh(items)
      /\ \A q \in DOMAIN proposals : proposals'[q] = qs[q]
  BY <1>1, <1>3
<1>5. \A q \in DOMAIN proposals : /\ proposals'[q].ruling = proposals[q].ruling
                                  /\ proposals'[q].base = proposals[q].base
  BY <1>3, <1>4
<1>6. QED  BY <1>1, <1>4, <1>5, QuietlyKeeps

LEMMA RejectSettles ==
    ASSUME PInv, NEW p \in DOMAIN proposals, NEW named \in SUBSET DOMAIN proposals[p].items,
           RejectItems(p, named)
    PROVE  RulingsKept /\ BasesKept
<1> DEFINE items == Widened(p, named)
<1>1. /\ Idle /\ Idle' /\ WellFormed(proposals) /\ Decidable(p, named)
      /\ proposals' = Ruled(p, items, "rejected")
  BY DEF RejectItems, Decidable, PInv, ProposalsOK, running, Idle
<1>2. \A i \in items : proposals[p].ruling[i] = "pending"
  BY <1>1 DEF Decidable, Pending, PendingIn
<1> HIDE DEF items
<1>3. Decides(proposals, proposals', p, items, "rejected")
  BY <1>1, RuledFacts
<1>4. Rulings = proposals /\ Rulings' = proposals'
  BY <1>1 DEF Rulings
<1>5. ASSUME NEW q \in DOMAIN proposals, NEW i \in DOMAIN proposals[q].ruling,
             proposals[q].ruling[i] # "pending"
      PROVE  proposals'[q].ruling[i] = proposals[q].ruling[i]
  <2>1. i \in DOMAIN proposals[q].items
    BY <1>1, <1>5, RulingPositions
  <2>2. QED  BY <1>2, <1>3, <1>5, <2>1 DEF Decides
<1>6. RulingsKept
  BY <1>4, <1>5 DEF RulingsKept
<1>7. QED  BY <1>3, <1>6 DEF Decides, BasesKept

LEMMA AbandonSettles == ASSUME PInv, Abandon PROVE RulingsKept /\ BasesKept
<1>1. ~Idle /\ Restore /\ proposals' = savedProposals
  BY DEF Abandon, Refuse, Crash, Applying
<1>2. Idle' /\ Rulings' = Rulings
  BY <1>1 DEF Restore, Done, Idle, Rulings
<1>3. QED  BY <1>1, <1>2 DEF PInv, SavedBookIsOpen, RulingsKept, BasesKept

\* The savepoint's rulings are among those of a request that ends.
LEMMA FinishSettles == ASSUME PInv, Finish PROVE RulingsKept /\ BasesKept
<1>1. /\ ~Idle /\ Land /\ WellFormed(savedProposals) /\ WellFormed(proposals)
      /\ Len(savedProposals) = Len(proposals) /\ Rulings = savedProposals
      /\ \A p \in DOMAIN proposals :
            /\ savedProposals[p].items = proposals[p].items
            /\ \A i \in DOMAIN proposals[p].items :
                  savedProposals[p].ruling[i] # "pending" =>
                     proposals[p].ruling[i] = savedProposals[p].ruling[i]
  BY DEF PInv, SavedBookIsOpen, Book, ProposalsOK, Finish, Land, Rulings
<1>2. DOMAIN savedProposals = DOMAIN proposals
  BY <1>1 DEF WellFormed
<1>3. CASE logged = <<>> /\ acts[1].kind = "undo"
  <2>1. Idle' /\ proposals' = proposals
    BY <1>1, <1>3 DEF Finish, Land, Restore, Done, Idle
  <2>2. proposals = savedProposals
    BY <1>1, <1>3 DEF PInv, SavedBookIsOpen
  <2>3. QED  BY <1>1, <2>1, <2>2 DEF Rulings, RulingsKept, BasesKept
<1>4. CASE ~(logged = <<>> /\ acts[1].kind = "undo")
  <2>1. /\ Len(proposals') = Len(proposals)
        /\ \A q \in DOMAIN proposals :
              /\ proposals'[q].base = proposals[q].base
              /\ \A i \in DOMAIN proposals[q].items :
                    proposals[q].ruling[i] # "pending" =>
                       proposals'[q].ruling[i] = proposals[q].ruling[i]
    BY <1>4, FinishRules
  <2>2. Rulings' = proposals' \/ Rulings' = savedProposals
    BY DEF Finish, Idle, Rulings
  <2>3. ASSUME NEW p \in DOMAIN savedProposals, NEW i \in DOMAIN savedProposals[p].ruling,
               savedProposals[p].ruling[i] # "pending"
        PROVE  proposals'[p].ruling[i] = savedProposals[p].ruling[i]
    <3>1. i \in DOMAIN proposals[p].items /\ p \in DOMAIN proposals
      BY <1>1, <1>2, <2>3, RulingPositions
    <3>2. proposals[p].ruling[i] = savedProposals[p].ruling[i]
      BY <1>1, <2>3, <3>1
    <3>3. QED  BY <2>1, <2>3, <3>1, <3>2
  <2>4. QED  BY <1>1, <2>1, <2>2, <2>3 DEF RulingsKept, BasesKept
<1>5. QED  BY <1>3, <1>4

\* A request that begins, of the deck's own or an acceptance.
LEMMA StartSettles ==
    ASSUME PInv, NEW plan, Begin(plan), savedProposals' = proposals, proposals' = proposals
    PROVE  RulingsKept /\ BasesKept
<1>1. Idle
  BY DEF Begin
<1>2. QED  BY <1>1, AloneKeeps

\* The decisions that start a request, and the one that does not.
LEMMA DecisionsStart ==
    ASSUME Decide
    PROVE  \/ \E plan : Start(plan)
           \/ \E p \in DOMAIN proposals : \E named \in SUBSET DOMAIN proposals[p].items :
                 RejectItems(p, named)
  BY DEF Decide, AcceptItems, AcceptProposals

LEMMA StepSettles == ASSUME PInv, PNext PROVE RulingsKept /\ BasesKept
<1>1. CASE OwnRequest
  <2>1. PICK act : Begin(<<act>>)
    BY <1>1, RequestBegins DEF OwnRequest
  <2>2. QED  BY <1>1, <2>1, StartSettles DEF OwnRequest
<1>2. CASE WhileIdle
  <2>1. Idle /\ Idle'
    BY <1>2 DEF WhileIdle, Organisation, CreateSlot, DeleteSlot, OrganizeCard, ShortlistCard,
       UnshortlistCard, SetDeckCategory, Organising, running, Idle
  <2>2. proposals' = proposals
    BY <1>2 DEF WhileIdle
  <2>3. QED  BY <2>1, <2>2, AloneKeeps
<1>3. CASE Apply
  <2>1. Applying /\ Applied /\ IInv
    BY <1>3, ApplyLogs DEF PInv
  <2>2. ~Idle /\ ~Idle'
    BY <2>1, AppliedFacts DEF IInv, Applying
  <2>3. QED  BY <1>3, <2>2, AloneKeeps DEF Apply
<1>4. CASE Abandon \/ Finish
  BY <1>4, AbandonSettles, FinishSettles
<1>5. ASSUME NEW items \in Proposable, Propose(items) PROVE RulingsKept /\ BasesKept
  BY <1>5, ProposeSettles
<1>6. ASSUME NEW items \in Proposable, NEW p \in DOMAIN proposals, Amend(p, items)
      PROVE  RulingsKept /\ BasesKept
  BY <1>6, AmendSettles
<1>7. ASSUME NEW p \in DOMAIN proposals, Withdraw(p) PROVE RulingsKept /\ BasesKept
  BY <1>7, WithdrawSettles
<1>8. CASE Decide
  <2>1. ASSUME NEW plan, Start(plan) PROVE RulingsKept /\ BasesKept
    BY <2>1, StartSettles DEF Start
  <2>2. ASSUME NEW p \in DOMAIN proposals, NEW named \in SUBSET DOMAIN proposals[p].items,
               RejectItems(p, named)
        PROVE  RulingsKept /\ BasesKept
    BY <2>2, RejectSettles
  <2>3. QED  BY <1>8, <2>1, <2>2, DecisionsStart
<1>9. QED  BY <1>1, <1>2, <1>3, <1>4, <1>5, <1>6, <1>7, <1>8 DEF PNext

\* A ruling that was committed is never changed, whatever is decided, amended,
\* refused or lost in a crash later (requireOwnPending, itemsToRule,
\* withTransaction).
THEOREM RulingsAreFinal == PSpec => RulingsStand
<1>1. PInv /\ [PNext]_pvars => [RulingsKept]_pvars
  BY StepSettles
<1>2. RulingsStand <=> [][RulingsKept]_pvars
  BY PTL DEF RulingsStand, RulingsKept
<1>3. QED  BY <1>1, <1>2, BookInvariance, PTL DEF PSpec

-----------------------------------------------------------------------------
(* What a step does to the deck a reader sees *)

\* The deck's revision never falls, and its cards change by the rules.
CommittedMoves == LawfulStep /\ Committed'.revision >= Committed.revision

LEMMA CommittedFacts ==
    ASSUME IInv
    PROVE  /\ Idle => /\ Committed.rows = rows /\ Committed.revision = revision
                      /\ Committed.log = log
           /\ ~Idle => Committed = saved
           /\ Committed.revision \in Nat
           /\ Cards(Committed.rows) \in [Card -> {None} \cup [n : Nat \ {0}, as : Role]]
<1>1. /\ Idle => /\ Committed.rows = rows /\ Committed.revision = revision
                 /\ Committed.log = log
      /\ ~Idle => Committed = saved
  BY DEF Committed
<1>2. Committed.revision \in Nat /\ Committed.rows \in [Card -> {None} \cup Row]
  <2>1. ~Idle => saved \in Deck
    BY DEF IInv, TypeOK
  <2>2. ~Idle => saved.revision \in Nat /\ saved.rows \in [Card -> {None} \cup Row]
    BY <2>1 DEF Deck
  <2>3. QED  BY <1>1, <2>2 DEF IInv, TypeOK
<1>3. ASSUME NEW c \in Card, Committed.rows[c] # None
      PROVE  [n |-> Committed.rows[c].quantity, as |-> Committed.rows[c].role]
                \in [n : Nat \ {0}, as : Role]
  <2>1. Committed.rows[c] \in Row
    BY <1>2, <1>3
  <2>2. QED  BY <2>1 DEF Row
<1>4. QED  BY <1>1, <1>2, <1>3 DEF Cards

\* A step that leaves the rows and the revision a reader sees as they are.
LEMMA SameCommitted ==
    ASSUME IInv, Committed'.rows = Committed.rows, Committed'.revision = Committed.revision
    PROVE  CommittedMoves
<1>1. Cards(Committed.rows)' = Cards(Committed'.rows)
  BY DEF Cards
<1>2. Cards(Committed.rows)' = Cards(Committed.rows)
  BY <1>1
<1>3. Committed.revision \in Nat
  BY CommittedFacts
<1>4. QED  BY <1>2, <1>3 DEF CommittedMoves, LawfulStep

LEMMA BeginMoves == ASSUME IInv, NEW plan, Begin(plan) PROVE CommittedMoves
<1>1. /\ Idle /\ ~Idle' /\ saved'.rows = rows /\ saved'.revision = revision
  BY DEF Begin, Idle
<1>2. Committed'.rows = Committed.rows /\ Committed'.revision = Committed.revision
  BY <1>1 DEF Committed
<1>3. QED  BY <1>2, SameCommitted

\* Between requests, with no card and no revision changed.
LEMMA RestingMoves ==
    ASSUME IInv, Idle, Idle', rows' = rows, revision' = revision PROVE CommittedMoves
<1>1. Committed'.rows = Committed.rows /\ Committed'.revision = Committed.revision
  BY DEF Committed
<1>2. QED  BY <1>1, SameCommitted

\* The revision of a deck never falls.
LEMMA RevisionMoves ==
    ASSUME IInv, Next PROVE Committed'.revision >= Committed.revision
<1>1. /\ Idle => Committed.revision = revision
      /\ ~Idle => Committed = saved
      /\ Idle' => Committed'.revision = revision'
      /\ ~Idle' => Committed' = saved'
      /\ Committed.revision \in Nat /\ revision \in Nat
  BY CommittedFacts DEF Committed, IInv, TypeOK
<1>2. CASE Request
  <2>1. PICK act : Begin(<<act>>)
    BY <1>2, RequestBegins
  <2>2. QED  BY <2>1, BeginMoves DEF CommittedMoves
<1>3. CASE Organisation
  <2>1. Idle /\ Idle' /\ revision' = revision
    BY <1>3 DEF Organisation, CreateSlot, DeleteSlot, OrganizeCard,
       ShortlistCard, UnshortlistCard, SetDeckCategory, Organising, running, deck, Idle
  <2>2. QED  BY <1>1, <2>1
<1>4. CASE ApplyAdd \/ ApplyCut \/ ApplyRole
  <2>1. Applying /\ Applied
    BY <1>4 DEF ApplyAdd, ApplyCut, ApplyRole
  <2>2. ~Idle /\ ~Idle' /\ saved' = saved
    BY <2>1, AppliedFacts DEF IInv, Applying, Applied
  <2>3. QED  BY <1>1, <2>2
<1>5. ASSUME Restore, ~Idle PROVE Committed'.revision >= Committed.revision
  BY <1>1, <1>5 DEF Restore, Done, Idle
<1>6. CASE Land
  <2>1. ~Idle /\ saved.revision <= revision
    BY <1>6 DEF Land, IInv, RequestIsLawful
  <2>2. CASE logged = <<>> /\ acts[1].kind = "undo"
    BY <1>5, <1>6, <2>1, <2>2 DEF Land
  <2>3. CASE ~(logged = <<>> /\ acts[1].kind = "undo")
    <3>1. /\ revision' = revision \/ revision' = revision + 1
          /\ ~Idle' => saved' = saved
      BY <1>6, <2>3 DEF Land, Idle
    <3>2. QED  BY <1>1, <2>1, <3>1
  <2>4. QED  BY <2>2, <2>3
<1>7. QED
  BY <1>2, <1>3, <1>4, <1>5, <1>6 DEF Next, Working, Refuse, Crash, Applying

LEMMA StepMoves == ASSUME PInv, PInv', PNext PROVE CommittedMoves
<1>1. IInv /\ IInv'
  BY DEF PInv
<1>2. ASSUME Next PROVE CommittedMoves
  BY <1>1, <1>2, StepIsLawful, RevisionMoves DEF CommittedMoves
<1>3. CASE OwnRequest \/ WhileIdle \/ Apply \/ Abandon \/ Finish
  <2>1. Next
    BY <1>3 DEF OwnRequest, WhileIdle, Apply, Abandon, Finish, Next, Working
  <2>2. QED  BY <1>2, <2>1
<1>4. ASSUME Idle, Quiet PROVE CommittedMoves
  <2>1. Idle' /\ rows' = rows /\ revision' = revision
    BY <1>4 DEF Quiet, vars, deck, running, Idle
  <2>2. QED  BY <1>1, <1>4, <2>1, RestingMoves
<1>5. CASE \E items \in Proposable :
              \/ Propose(items)
              \/ \E p \in DOMAIN proposals : Amend(p, items)
  BY <1>4, <1>5 DEF Propose, Amend, Revisable
<1>6. CASE \E p \in DOMAIN proposals : Withdraw(p)
  BY <1>4, <1>6 DEF Withdraw, Revisable
<1>7. CASE Decide
  <2>1. ASSUME NEW plan, Start(plan) PROVE CommittedMoves
    BY <1>1, <2>1, BeginMoves DEF Start
  <2>2. ASSUME NEW p \in DOMAIN proposals, NEW named \in SUBSET DOMAIN proposals[p].items,
               RejectItems(p, named)
        PROVE  CommittedMoves
    <3>1. Idle /\ Idle' /\ rows' = rows /\ revision' = revision
      BY <2>2 DEF RejectItems, Decidable, running, Idle
    <3>2. QED  BY <1>1, <3>1, RestingMoves
  <2>3. QED  BY <1>7, <2>1, <2>2, DecisionsStart
<1>8. QED  BY <1>3, <1>5, <1>6, <1>7 DEF PNext

\* Acceptances keep the permission rule of the deck: its cards change only with
\* a revision and a log row, never while it is archived (acceptItems,
\* acceptProposals, applyChanges).
THEOREM AcceptancesAreLawful == PSpec => CardsChangeByTheRules
<1>1. PInv /\ PInv' /\ [PNext]_pvars => [LawfulStep]_vars
  <2> SUFFICES ASSUME PInv, PInv', [PNext]_pvars PROVE [LawfulStep]_vars
    OBVIOUS
  <2>1. CASE PNext
    BY <2>1, StepMoves DEF CommittedMoves
  <2>2. CASE UNCHANGED pvars
    BY <2>2 DEF pvars
  <2>3. QED  BY <2>1, <2>2
<1>2. CardsChangeByTheRules <=> [][LawfulStep]_vars
  BY PTL DEF CardsChangeByTheRules, LawfulStep
<1>3. QED  BY <1>1, <1>2, BookInvariance, PTL DEF PSpec

-----------------------------------------------------------------------------
(* What was reviewed is what is accepted *)

\* An unacknowledged acceptance of the running batch is of a proposal made
\* against the revision the batch began at.
Unacknowledged ==
    \A k \in DOMAIN acts : acts[k].kind = "accept" /\ ~acts[k].consent =>
       proposals[acts[k].proposal].base = saved.revision

LEMMA AcceptancesAgree ==
    ASSUME PInv, Unacknowledged, Decide, acts' # acts PROVE Unacknowledged'
<1>1. PICK p \in DOMAIN proposals :
         \/ \E named \in SUBSET DOMAIN proposals[p].items :
               \/ \E acknowledged \in BOOLEAN : AcceptItems(p, named, acknowledged)
               \/ RejectItems(p, named)
         \/ \E approved \in [1 .. p -> DOMAIN proposals], acknowledged \in SUBSET DOMAIN proposals :
               AcceptProposals(approved, acknowledged)
  BY DEF Decide
<1>2. ASSUME NEW plan, Start(plan),
             \A k \in DOMAIN plan : plan[k].consent \/ proposals[plan[k].proposal].base = revision
      PROVE  Unacknowledged'
  <2>1. acts' = plan /\ saved'.revision = revision /\ proposals' = proposals
    BY <1>2 DEF Start, Begin
  <2>2. QED  BY <1>2, <2>1 DEF Unacknowledged
<1>3. \A q, items, agreed : /\ Acceptance(q, items, agreed).consent = agreed
                            /\ Acceptance(q, items, agreed).proposal = q
  BY DEF Acceptance
<1>4. ASSUME NEW named \in SUBSET DOMAIN proposals[p].items, NEW acknowledged \in BOOLEAN,
             AcceptItems(p, named, acknowledged)
      PROVE  Unacknowledged'
  <2>1. /\ Start(<<Acceptance(p, Widened(p, named), acknowledged)>>)
        /\ proposals[p].base # revision => acknowledged
    BY <1>4 DEF AcceptItems, Stale
  <2>2. \A act : DOMAIN <<act>> = {1} /\ <<act>>[1] = act
    OBVIOUS
  <2>3. QED  BY <1>2, <1>3, <2>1, <2>2
<1>5. ASSUME NEW approved \in [1 .. p -> DOMAIN proposals],
             NEW acknowledged \in SUBSET DOMAIN proposals, AcceptProposals(approved, acknowledged)
      PROVE  Unacknowledged'
  <2> DEFINE plan == [i \in DOMAIN approved |->
                        Acceptance(approved[i], Pending(approved[i]), approved[i] \in acknowledged)]
  <2>1. /\ Start(plan) /\ DOMAIN plan = DOMAIN approved
        /\ \A i \in DOMAIN approved : proposals[approved[i]].base # revision =>
              approved[i] \in acknowledged
    BY <1>5 DEF AcceptProposals, Stale
  <2>2. ASSUME NEW k \in DOMAIN approved
        PROVE  plan[k].consent \/ proposals[plan[k].proposal].base = revision
    <3>1. plan[k].consent = (approved[k] \in acknowledged) /\ plan[k].proposal = approved[k]
      BY <1>3
    <3>2. QED  BY <2>1, <3>1
  <2> HIDE DEF plan
  <2>3. QED  BY <1>2, <2>1, <2>2
<1>6. ASSUME NEW named \in SUBSET DOMAIN proposals[p].items, RejectItems(p, named) PROVE FALSE
  BY <1>6 DEF RejectItems, running
<1>7. QED  BY <1>1, <1>4, <1>5, <1>6

LEMMA UnacknowledgedKept ==
    ASSUME PInv, PInv', Unacknowledged, PNext, BasesKept PROVE Unacknowledged'
<1>1. ASSUME acts' = <<>> PROVE Unacknowledged'
  BY <1>1 DEF Unacknowledged
<1>2. CASE OwnRequest
  <2>1. PICK act : Begin(<<act>>) /\ act.kind # "accept"
    BY <1>2, RequestBegins DEF OwnRequest
  <2>2. acts' = <<act>>
    BY <2>1 DEF Begin
  <2>3. \A k \in DOMAIN acts' : acts'[k].kind # "accept"
    BY <2>1, <2>2
  <2>4. QED  BY <2>3 DEF Unacknowledged
<1>3. CASE WhileIdle
  <2>1. acts' = <<>>
    BY <1>3 DEF WhileIdle, Organisation, CreateSlot, DeleteSlot, OrganizeCard, ShortlistCard,
       UnshortlistCard, SetDeckCategory, Organising, running, Idle
  <2>2. QED  BY <1>1, <2>1
<1>4. CASE Apply
  <2>1. TypeOK /\ Applying /\ Applied /\ saved' = saved /\ proposals' = proposals
    BY <1>4, ApplyLogs DEF PInv, IInv, Apply, Applied
  <2>2. /\ DOMAIN acts' = DOMAIN acts
        /\ \A k \in DOMAIN acts : /\ acts'[k].kind = acts[k].kind
                                  /\ acts'[k].proposal = acts[k].proposal
                                  /\ acts'[k].consent = acts[k].consent
    BY <2>1, AppliedActs
  <2>3. QED  BY <2>1, <2>2 DEF Unacknowledged
<1>5. CASE Abandon
  <2>1. acts' = <<>>
    BY <1>5 DEF Abandon, Refuse, Crash, Restore, Done
  <2>2. QED  BY <1>1, <2>1
<1>6. CASE Finish
  <2>1. ~Idle /\ Land /\ IInv
    BY <1>6 DEF Finish, Land, PInv
  <2>2. CASE Idle'
    BY <1>1, <2>2 DEF Idle
  <2>3. CASE ~Idle'
    <3>1. acts' = Tail(acts) /\ saved' = saved
      BY <2>1, <2>3 DEF Land, Restore, Done, Idle
    <3>2. /\ acts \in Seq(Act) /\ DOMAIN acts' = 1 .. Len(acts) - 1
          /\ \A k \in DOMAIN acts' : k + 1 \in DOMAIN acts /\ acts'[k] = acts[k + 1]
      <4>1. acts \in Seq(Act) /\ acts # <<>>
        BY <2>1 DEF IInv, TypeOK, Idle
      <4>2. QED  BY <3>1, <4>1
    <3>3. ASSUME NEW k \in DOMAIN acts', acts'[k].kind = "accept", ~acts'[k].consent
          PROVE  proposals'[acts'[k].proposal].base = saved'.revision
      <4>1. k + 1 \in DOMAIN acts /\ acts'[k] = acts[k + 1]
        BY <3>2
      <4>2. proposals[acts[k + 1].proposal].base = saved.revision
        BY <3>3, <4>1 DEF Unacknowledged
      <4>3. acts[k + 1].proposal \in DOMAIN proposals
        BY <3>3, <4>1 DEF PInv, BatchIsSound, Accepts
      <4>4. QED  BY <3>1, <4>1, <4>2, <4>3 DEF BasesKept
    <3>4. QED  BY <3>3 DEF Unacknowledged
  <2>4. QED  BY <2>2, <2>3
<1>7. ASSUME Idle, acts' = acts PROVE Unacknowledged'
  BY <1>1, <1>7 DEF Idle
<1>8. CASE \E items \in Proposable :
              \/ Propose(items)
              \/ \E p \in DOMAIN proposals : Amend(p, items)
  BY <1>7, <1>8 DEF Propose, Amend, Revisable, Quiet, vars, running
<1>9. CASE \E p \in DOMAIN proposals : Withdraw(p)
  BY <1>7, <1>9 DEF Withdraw, Revisable, Quiet, vars, running
<1>10. CASE Decide
  <2>1. CASE acts' # acts
    BY <1>10, <2>1, AcceptancesAgree
  <2>2. CASE acts' = acts
    <3>1. Idle
      BY <1>10, DecisionsStart DEF Start, Begin, RejectItems, Decidable
    <3>2. QED  BY <1>7, <2>2, <3>1
  <2>3. QED  BY <2>1, <2>2
<1>11. QED  BY <1>2, <1>3, <1>4, <1>5, <1>6, <1>8, <1>9, <1>10 DEF PNext

\* A proposal against the present revision saw the present cards: the revision
\* counts every change of them.
LEMMA SeenKept ==
    ASSUME PInv, PInv', ReviewedIsCurrent, RNext, BasesKept, CommittedMoves,
           Unacknowledged'
    PROVE  ReviewedIsCurrent'
<1> DEFINE View == [Card -> {None} \cup [n : Nat \ {0}, as : Role]]
           n == Len(proposals)
<1>1. /\ IInv /\ WellFormed(proposals) /\ WellFormed(proposals')
      /\ DOMAIN proposals = 1 .. n /\ DOMAIN proposals' = 1 .. Len(proposals') /\ n \in Nat
  BY DEF PInv, ProposalsOK, Book, WellFormed
<1>2. /\ Committed.revision \in Nat /\ Committed'.revision \in Nat
      /\ Committed'.revision >= Committed.revision
      /\ Cards(Committed.rows) \in View
      /\ Committed'.revision = Committed.revision => Cards(Committed.rows)' = Cards(Committed.rows)
  <2>1. Committed.revision \in Nat /\ Cards(Committed.rows) \in View
    BY <1>1, CommittedFacts
  <2>2. IInv'
    BY DEF PInv
  <2>3. Committed'.revision \in Nat
    <3>1. ~Idle' => saved' \in Deck
      BY <2>2 DEF IInv, TypeOK
    <3>2. ~Idle' => saved'.revision \in Nat
      BY <3>1 DEF Deck
    <3>3. QED  BY <2>2, <3>2 DEF Committed, IInv, TypeOK
  <2>4. QED  BY <2>1, <2>3 DEF CommittedMoves, LawfulStep
<1>3. seen \in Seq(View) /\ Len(seen) = n
  BY DEF ReviewedIsCurrent
<1> HIDE DEF View
<1>4. ASSUME NEW p \in 1 .. n, proposals'[p].base = proposals[p].base, seen'[p] = seen[p]
      PROVE  /\ proposals'[p].base <= Committed'.revision
             /\ proposals'[p].base = Committed'.revision => seen'[p] = Cards(Committed.rows)'
  <2>1. /\ proposals[p].base <= Committed.revision
        /\ proposals[p].base = Committed.revision => seen[p] = Cards(Committed.rows)
    BY <1>1 DEF ReviewedIsCurrent
  <2>2. proposals[p].base \in Nat
    <3>1. proposals[p] \in Proposal
      BY <1>1 DEF WellFormed
    <3>2. QED  BY <3>1 DEF Proposal
  <2>3. QED  BY <1>2, <1>4, <2>1, <2>2
<1>5. CASE Len(proposals') = n
  <2>1. seen' = seen
    BY <1>1, <1>5 DEF RNext
  <2>2. \A p \in 1 .. n : proposals'[p].base = proposals[p].base
    BY <1>1 DEF BasesKept
  <2>3. QED  BY <1>1, <1>3, <1>4, <1>5, <2>1, <2>2 DEF ReviewedIsCurrent, Unacknowledged, View
<1>6. CASE Len(proposals') # n
  <2>1. /\ Len(proposals') = n + 1 /\ Idle /\ Idle' /\ UNCHANGED vars
        /\ proposals'[n + 1].base = revision
        /\ \A p \in 1 .. n : proposals'[p].base = proposals[p].base
    BY <1>1, <1>6 DEF BasesKept
  <2>2. seen' = Append(seen, Cards(rows))
    BY <1>1, <2>1 DEF RNext
  <2>3. /\ Committed.rows = rows /\ Committed.revision = revision
        /\ Committed'.rows = rows /\ Committed'.revision = revision
    BY <2>1 DEF Committed, vars, deck
  <2>4. Cards(Committed.rows)' = Cards(rows)
    BY <1>2, <2>3
  <2>5. /\ seen' \in Seq(View) /\ Len(seen') = n + 1 /\ seen'[n + 1] = Cards(rows)
        /\ \A p \in 1 .. n : seen'[p] = seen[p]
    BY <1>1, <1>2, <1>3, <2>2, <2>3
  <2>6. ASSUME NEW p \in 1 .. n + 1
        PROVE  /\ proposals'[p].base <= Committed'.revision
               /\ proposals'[p].base = Committed'.revision => seen'[p] = Cards(Committed.rows)'
    <3>1. CASE p = n + 1
      BY <1>2, <2>1, <2>3, <2>4, <2>5, <3>1
    <3>2. CASE p \in 1 .. n
      BY <1>4, <2>1, <2>5, <3>2
    <3>3. QED  BY <1>1, <3>1, <3>2
  <2>7. QED  BY <1>1, <2>1, <2>5, <2>6 DEF ReviewedIsCurrent, Unacknowledged, View
<1>7. QED  BY <1>5, <1>6

\* A log row is added by a request that lands, or is a rejection's.
LEMMA AcceptanceIsLanded ==
    ASSUME PInv, PNext, Len(log') > Len(log), log'[Len(log')].kind = "accept"
    PROVE  ~Idle /\ acts[1].kind = "accept" /\ 1 \in DOMAIN acts
<1>1. IInv /\ log \in Seq(Entry) /\ Len(log) \in Nat
  BY DEF PInv, IInv, TypeOK
<1>2. log' # log
  BY <1>1
<1>3. ~OwnRequest /\ ~WhileIdle /\ ~Apply
  <2>1. CASE OwnRequest
    <3>1. PICK act : Begin(<<act>>)
      BY <2>1, RequestBegins DEF OwnRequest
    <3>2. QED  BY <1>2, <3>1 DEF Begin, deck
  <2>2. CASE WhileIdle
    BY <1>2, <2>2 DEF WhileIdle, Organisation, CreateSlot, DeleteSlot, OrganizeCard,
       ShortlistCard, UnshortlistCard, SetDeckCategory, Organising, deck
  <2>3. CASE Apply
    BY <1>1, <1>2, <2>3, ApplyLogs DEF Applied
  <2>4. QED  BY <2>1, <2>2, <2>3
<1>4. ~Abandon
  <2>1. SUFFICES ASSUME Abandon PROVE FALSE
    OBVIOUS
  <2>2. ~Idle /\ log' = saved.log
    BY <2>1 DEF Abandon, Refuse, Crash, Applying, Restore
  <2>3. Len(saved.log) <= Len(log) /\ saved.log \in Seq(Entry)
    BY <1>1, <2>2 DEF IInv, RequestIsLawful, TypeOK, Deck
  <2>4. Len(saved.log) \in Nat
    BY <2>3
  <2>5. QED  BY <1>1, <2>2, <2>3, <2>4
<1>5. ~(\E items \in Proposable : Propose(items) \/ \E p \in DOMAIN proposals : Amend(p, items))
      /\ ~(\E p \in DOMAIN proposals : Withdraw(p))
  BY <1>2 DEF Propose, Amend, Withdraw, Quiet, vars, deck
<1>6. ~Decide
  <2>1. \A plan : ~Start(plan)
    BY <1>2 DEF Start, Begin, deck
  <2>2. ASSUME NEW p \in DOMAIN proposals, NEW named \in SUBSET DOMAIN proposals[p].items,
               RejectItems(p, named)
        PROVE  FALSE
    <3>1. PICK row : log' = Append(log, row) /\ row.kind = "reject"
      BY <2>2 DEF RejectItems
    <3>2. log'[Len(log')] = row
      BY <1>1, <3>1
    <3>3. QED  BY <3>1, <3>2
  <2>3. QED  BY <2>1, <2>2, DecisionsStart
<1>7. Finish
  BY <1>3, <1>4, <1>5, <1>6 DEF PNext
<1>8. ~Idle /\ Land /\ 1 \in DOMAIN acts
  BY <1>1, <1>7 DEF Finish, Land, Idle, IInv, TypeOK
<1>9. ~(logged = <<>> /\ acts[1].kind = "undo")
  <2>1. SUFFICES ASSUME logged = <<>>, acts[1].kind = "undo" PROVE FALSE
    OBVIOUS
  <2>2. log' = saved.log
    BY <1>8, <2>1 DEF Land, Restore
  <2>3. Len(saved.log) <= Len(log) /\ saved.log \in Seq(Entry)
    BY <1>1, <1>8 DEF IInv, RequestIsLawful, TypeOK, Deck
  <2>4. Len(saved.log) \in Nat
    BY <2>3
  <2>5. QED  BY <1>1, <2>2, <2>3, <2>4
<1>10. log' = Append(Marked(acts[1]), EntryOf(acts[1]))
  BY <1>2, <1>8, <1>9 DEF Land
<1>11. QED  BY <1>1, <1>8, <1>10, LandLogs

LEMMA RNextKeeps == RInv /\ [RNext]_rvars => RInv'
<1> SUFFICES ASSUME RInv, [RNext]_rvars PROVE RInv'
  OBVIOUS
<1>1. PInv /\ ReviewedIsCurrent /\ Unacknowledged
  BY DEF RInv, ReviewedIsCurrent, Unacknowledged
<1>2. CASE RNext
  <2>1. PNext
    BY <1>2 DEF RNext
  <2>2. PInv'
    BY <1>1, <2>1, PNextKeeps
  <2>3. BasesKept /\ CommittedMoves
    BY <1>1, <2>1, <2>2, StepSettles, StepMoves
  <2>4. Unacknowledged'
    BY <1>1, <2>1, <2>2, <2>3, UnacknowledgedKept
  <2>5. QED  BY <1>1, <1>2, <2>2, <2>3, <2>4, SeenKept DEF RInv
<1>3. CASE UNCHANGED rvars
  <2>1. UNCHANGED pvars /\ seen' = seen
    BY <1>3 DEF rvars
  <2>2. UNCHANGED vars /\ proposals' = proposals
    BY <2>1 DEF pvars
  <2>3. /\ acts' = acts /\ saved' = saved /\ rows' = rows /\ revision' = revision
        /\ identity' = identity /\ log' = log
    BY <2>2 DEF vars, deck, running
  <2>4. Committed' = Committed
    BY <2>3 DEF Committed, Idle
  <2>5. Cards(Committed.rows)' = Cards(Committed.rows)
    BY <2>4 DEF Cards
  <2>6. ReviewedIsCurrent'
    BY <1>1, <2>1, <2>2, <2>3, <2>4, <2>5 DEF ReviewedIsCurrent
  <2>7. QED  BY <1>1, <2>1, <2>6, StutterKeepsBook DEF RInv
<1>4. QED  BY <1>2, <1>3

LEMMA InitReview == RInit => RInv
<1> SUFFICES ASSUME RInit PROVE RInv
  OBVIOUS
<1>1. PInv /\ proposals = <<>> /\ seen = <<>> /\ acts = <<>>
  BY InitBook DEF RInit, PInit, Init
<1>2. ReviewedIsCurrent
  BY <1>1 DEF ReviewedIsCurrent
<1>3. QED  BY <1>1, <1>2 DEF RInv

\* With the cards each proposal was written against remembered, the invariant of
\* the stale guard holds too (createProposal, acceptItems, acceptProposals).
THEOREM ReviewInvariance == RSpec => []RInv
<1>1. RInit => RInv
  BY InitReview
<1>2. RInv /\ [RNext]_rvars => RInv'
  BY RNextKeeps
<1>3. QED  BY <1>1, <1>2, PTL DEF RSpec

\* What a landed acceptance nobody acknowledged as stale was decided on.
AcceptedOnSight ==
    Len(log') > Len(log) /\ log'[Len(log')].kind = "accept" /\ ~acts[1].consent
       => Cards(saved.rows) = seen[acts[1].proposal]

\* The stale guard is enough: the cards an unacknowledged acceptance is applied
\* to are those its proposal was written against, however many requests,
\* reorganisations, failures and other proposals came between (acceptItems,
\* acceptProposals).
THEOREM AcceptancesAreReviewed == RSpec => AcceptedAsReviewed
<1>1. RInv /\ [RNext]_rvars => [AcceptedOnSight]_rvars
  <2> SUFFICES ASSUME RInv, RNext PROVE AcceptedOnSight
    OBVIOUS
  <2>1. SUFFICES ASSUME Len(log') > Len(log), log'[Len(log')].kind = "accept", ~acts[1].consent
                 PROVE  Cards(saved.rows) = seen[acts[1].proposal]
    BY DEF AcceptedOnSight
  <2>2. PInv /\ PNext /\ ReviewedIsCurrent
    BY DEF RInv, RNext
  <2>3. ~Idle /\ acts[1].kind = "accept" /\ 1 \in DOMAIN acts
    BY <2>1, <2>2, AcceptanceIsLanded
  <2>4. acts[1].proposal \in DOMAIN proposals
    BY <2>2, <2>3 DEF PInv, BatchIsSound, Accepts
  <2>5. proposals[acts[1].proposal].base = saved.revision
    BY <2>1, <2>2, <2>3 DEF ReviewedIsCurrent
  <2>6. Committed = saved
    BY <2>3 DEF Committed
  <2>7. QED  BY <2>2, <2>4, <2>5, <2>6 DEF ReviewedIsCurrent
<1>2. AcceptedAsReviewed <=> [][AcceptedOnSight]_rvars
  BY PTL DEF AcceptedAsReviewed, AcceptedOnSight
<1>3. QED  BY <1>1, <1>2, ReviewInvariance, PTL DEF RSpec
=============================================================================
