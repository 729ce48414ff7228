----------------------- MODULE DeckMembership_proofs -----------------------
(***************************************************************************)
(* The safety of DeckMembership for every set of cards and slots, every    *)
(* edit_cards request and every number of acts: IInv holds initially and   *)
(* every action preserves it; and that DeckMembership implements           *)
(* DeckLedger.                                                             *)
(***************************************************************************)
EXTENDS DeckInvariant, FiniteOrders, SequenceTheorems

-----------------------------------------------------------------------------
(* What changes, rows and log rows are made of *)

\* The three kinds of change, told apart by their action.
LEMMA ChangeFacts ==
    ASSUME NEW x \in Change
    PROVE  /\ x.card \in Card /\ x.action \in {"add", "cut", "role"}
           /\ x.action = "add" =>
                 /\ x.quantity \in Nat \ {0} /\ x.role \in Role
                 /\ x.item \in {None} \cup Item
           /\ x.action = "cut" =>
                 /\ x.quantity \in Nat /\ x.park \in BOOLEAN /\ x.item \in {None} \cup Item
           /\ x.action = "role" => x.role \in Role
  BY DEF Change

\* A change made from its parts is a change.
LEMMA MadeChanges ==
    ASSUME NEW c \in Card
    PROVE  /\ \A q \in Nat \ {0}, s \in {None, Keep} \cup Slot, ss \in SUBSET (Slot \cup {Keep}),
                 r \in Role : Add(c, q, s, ss, r, None) \in Change
           /\ \A q \in Nat, p \in BOOLEAN : Cut(c, q, p, None) \in Change
           /\ \A r \in Role : Become(c, r) \in Change
  BY DEF Change, Add, Cut, Become

\* A card's row, once it has one.
LEMMA RowFacts ==
    ASSUME TypeOK, NEW c \in Card, Present(c)
    PROVE  /\ rows[c] \in Row
           /\ rows[c].quantity \in Nat \ {0} /\ rows[c].role \in Role
           /\ rows[c].maybe \in BOOLEAN
           /\ rows[c].slot \in Live \cup {None} /\ rows[c].secondary \subseteq Live
           /\ rows[c].slot \notin rows[c].secondary
  BY DEF TypeOK, Present, Row, Assignable

LEMMA LogCardFacts ==
    ASSUME NEW r \in LogCard
    PROVE  /\ r.card \in Card /\ r.quantity \in Nat \ {0} /\ r.action \in {"add", "cut", "role"}
           /\ r.action = "cut" =>
                 /\ r.slot \in {None} \cup Slot /\ r.secondary \in SUBSET Slot
                 /\ r.role \in Role /\ r.parked \in BOOLEAN
           /\ r.action = "role" => r.from \in Role
           /\ r.action = "add" => r.wasMaybe \in BOOLEAN
  BY DEF LogCard

-----------------------------------------------------------------------------
(* The change a request applies next *)

\* While changes remain, the first is one of them.
LEMMA FirstFacts ==
    ASSUME TypeOK, Applying
    PROVE  /\ acts \in Seq(Act) /\ acts # <<>> /\ 1 \in DOMAIN acts /\ acts[1] \in Act
           /\ First \in acts[1].changes /\ Current \in Change
           /\ \A x \in acts[1].changes : First.at <= x.at
<1>1. acts \in Seq(Act) /\ acts # <<>> /\ 1 \in DOMAIN acts /\ acts[1] \in Act
  BY DEF TypeOK, Applying, Idle
<1>2. acts[1].changes \in SUBSET [at : Nat, change : Change]
  BY <1>1 DEF Act
<1> DEFINE ats == {x.at : x \in acts[1].changes}
<1>3. ats \in SUBSET Nat /\ ats # {}
  BY <1>2 DEF Applying
<1>4. PICK n \in ats : \A m \in ats : n <= m
  <2> HIDE DEF ats
  <2> QED  BY <1>3, LeastNat
<1>5. PICK x \in acts[1].changes : x.at = n
  OBVIOUS
<1>6. \A y \in acts[1].changes : x.at <= y.at
  BY <1>4, <1>5
<1>7. First \in acts[1].changes /\ \A y \in acts[1].changes : First.at <= y.at
  BY <1>6 DEF First
<1>8. QED  BY <1>1, <1>2, <1>7 DEF Current

\* Applying a change only shortens what the running act still has to do.
LEMMA AppliedFacts ==
    ASSUME TypeOK, Applying, Applied
    PROVE  /\ acts' \in Seq(Act) /\ ~Idle' /\ Len(acts') = Len(acts)
           /\ DOMAIN acts' = DOMAIN acts
           /\ \A k \in DOMAIN acts : /\ acts'[k].kind = acts[k].kind
                                     /\ acts'[k].via = acts[k].via
                                     /\ acts'[k].undoOf = acts[k].undoOf
<1>1. acts \in Seq(Act) /\ acts # <<>> /\ 1 \in 1 .. Len(acts) /\ acts[1] \in Act
  BY FirstFacts DEF TypeOK
<1> DEFINE act == [acts[1] EXCEPT !.changes = @ \ {First}]
<1>2. act \in Act /\ act.kind = acts[1].kind /\ act.via = acts[1].via
      /\ act.undoOf = acts[1].undoOf
  BY <1>1 DEF Act
<1>3. acts' = [acts EXCEPT ![1] = act]
  BY DEF Applied
<1> HIDE DEF act
<1>4. /\ acts' \in Seq(Act) /\ Len(acts') = Len(acts)
      /\ \A j \in 1 .. Len(acts) : acts'[j] = IF j = 1 THEN act ELSE acts[j]
  BY <1>1, <1>2, <1>3, ExceptSeq
<1>5. QED  BY <1>1, <1>2, <1>4 DEF Idle

-----------------------------------------------------------------------------
(* The command zone *)

\* The cards of a role are finitely many.
LEMMA ZonesFinite ==
    ASSUME NEW deckRows, NEW r
    PROVE  IsFiniteSet(Holding(deckRows, r)) /\ Cardinality(Holding(deckRows, r)) \in Nat
<1>1. Holding(deckRows, r) \in SUBSET Card
  BY DEF Holding
<1>2. QED  BY <1>1, DataAssumption, FS_Subset, FS_CardinalityType

\* A new row keeps the command zone within its caps when a card that joins a
\* zone finds room there (assertRoleCapacity).
LEMMA FitsKept ==
    ASSUME TypeOK, Fits(rows), NEW c \in Card, NEW row \in {None} \cup Row,
           rows' = [rows EXCEPT ![c] = row],
           row # None /\ row.maybe => row.quantity = 1 /\ row.role = "card",
           row # None /\ ~row.maybe => c \in Zone(row.role) \/ HasRoom(row.role)
    PROVE  Fits(rows')
<1>1. ASSUME NEW r \in {"commander", "companion"}
      PROVE  Cardinality(Holding(rows', r)) <= Cap(r)
  <2>1. Cardinality(Zone(r)) <= Cap(r) /\ IsFiniteSet(Zone(r)) /\ Cardinality(Zone(r)) \in Nat
    BY <1>1, ZonesFinite DEF Fits, Zone, Cap
  <2>2. CASE row # None /\ ~row.maybe /\ row.role = r
    <3>1. Holding(rows', r) \subseteq Zone(r) \cup {c}
      BY DEF Holding, Zone, TypeOK
    <3>2. IsFiniteSet(Zone(r) \cup {c})
          /\ Cardinality(Zone(r) \cup {c})
                = IF c \in Zone(r) THEN Cardinality(Zone(r)) ELSE Cardinality(Zone(r)) + 1
      BY <2>1, FS_AddElement
    <3>3. Cardinality(Holding(rows', r)) <= Cardinality(Zone(r) \cup {c})
      BY <3>1, <3>2, FS_Subset
    <3>4. c \in Zone(r) \/ Cardinality(Zone(r)) < Cap(r)
      BY <1>1, <2>2 DEF HasRoom
    <3>5. Cardinality(Holding(rows', r)) \in Nat /\ Cap(r) \in Nat
      BY ZonesFinite DEF Cap
    <3>6. QED  BY <2>1, <3>2, <3>3, <3>4, <3>5
  <2>3. CASE ~(row # None /\ ~row.maybe /\ row.role = r)
    <3>1. Holding(rows', r) \subseteq Zone(r)
      BY <2>3 DEF Holding, Zone, TypeOK
    <3>2. Cardinality(Holding(rows', r)) <= Cardinality(Zone(r))
      BY <2>1, <3>1, FS_Subset
    <3>3. Cardinality(Holding(rows', r)) \in Nat /\ Cap(r) \in Nat
      BY ZonesFinite DEF Cap
    <3>4. QED  BY <2>1, <3>2, <3>3
  <2>4. QED  BY <2>2, <2>3
<1>2. \A d \in Card : rows'[d] # None /\ rows'[d].maybe =>
         rows'[d].quantity = 1 /\ rows'[d].role = "card"
  BY DEF Fits, TypeOK
<1>3. QED  BY <1>1, <1>2 DEF Fits, Cap

-----------------------------------------------------------------------------
(* The steps of a running request *)

\* What applying one change keeps, whichever change it is: the new row is filed
\* and fits, and what changed the deck is logged.
LEMMA ApplyingKeeps ==
    ASSUME IInv, Applying, Applied, NEW c \in Card, NEW row \in {None} \cup Row,
           rows' = [rows EXCEPT ![c] = row],
           row # None => Assignable(row.slot, row.secondary),
           row # None /\ row.maybe => row.quantity = 1 /\ row.role = "card",
           row # None /\ ~row.maybe => c \in Zone(row.role) \/ HasRoom(row.role),
           logged' \in Seq(LogCard),
           logged' = <<>> => logged = <<>> /\ rows' = rows
    PROVE  IInv'
<1>1. /\ acts' \in Seq(Act) /\ ~Idle' /\ ~Idle /\ Len(acts') = Len(acts)
      /\ DOMAIN acts' = DOMAIN acts
      /\ \A k \in DOMAIN acts : /\ acts'[k].kind = acts[k].kind
                                /\ acts'[k].via = acts[k].via
                                /\ acts'[k].undoOf = acts[k].undoOf
  BY AppliedFacts DEF IInv, Applying
<1>2. UNCHANGED <<category, slots, revision, identity, log, saved>>
  BY DEF Applied
<1>3. TypeOK'
  <2>1. rows' \in [Card -> {None} \cup Row]
    BY DEF IInv, TypeOK
  <2>2. (\A d \in Card : Present(d) => Assignable(rows[d].slot, rows[d].secondary))'
    BY <1>2 DEF IInv, TypeOK, Present, Assignable, Live
  <2>3. QED  BY <1>1, <1>2, <2>1, <2>2 DEF IInv, TypeOK
<1>4. CommandZoneFits'
  <2>1. Fits(rows')
    BY FitsKept DEF IInv, CommandZoneFits
  <2>2. QED  BY <1>1, <2>1 DEF CommandZoneFits
<1>5. RevisionCountsTheLog' /\ UndoneOnce'
  BY <1>2 DEF IInv, RevisionCountsTheLog, UndoneOnce
<1>6. SavedIsSound'
  BY <1>1, <1>2 DEF IInv, SavedIsSound, Assignable, Live
<1>7. IdentityFollows'
  BY <1>1, <1>2 DEF IInv, IdentityFollows, Zone
<1>8. ActsAreSound'
  BY <1>1, <1>2 DEF IInv, ActsAreSound
<1>9. RequestIsLawful'
  BY <1>1, <1>2 DEF IInv, RequestIsLawful, Editable
<1>10. QED  BY <1>3, <1>4, <1>5, <1>6, <1>7, <1>8, <1>9 DEF IInv

LEMMA ApplyAddKeeps == IInv /\ ApplyAdd => IInv'
<1> SUFFICES ASSUME IInv, ApplyAdd PROVE IInv'
  OBVIOUS
<1> DEFINE a == Current
           row == Added(a)
<1>1. /\ Applying /\ Applied /\ a \in Change /\ a.action = "add" /\ Addable(a)
      /\ rows' = [rows EXCEPT ![a.card] = row]
      /\ logged' = Append(logged, [action |-> "add", card |-> a.card, quantity |-> a.quantity,
                                   item |-> a.item, wasMaybe |-> Shortlisted(a.card)])
  BY FirstFacts DEF ApplyAdd, IInv
<1>2. a.card \in Card /\ a.quantity \in Nat \ {0} /\ a.role \in Role /\ a.item \in {None} \cup Item
  BY <1>1, ChangeFacts
<1> HIDE DEF a
<1>3. /\ row \in Row /\ ~row.maybe
      /\ Assignable(row.slot, row.secondary)
      /\ a.card \in Zone(row.role) \/ HasRoom(row.role)
  <2>1. Assignable(PrimaryFor(a), SecondaryFor(a))
    BY <1>1 DEF Addable
  <2>2. /\ PrimaryFor(a) \in {None} \cup Slot /\ SecondaryFor(a) \in SUBSET Slot
    BY <2>1 DEF Assignable, Live
  <2>3. CASE Shortlisted(a.card)
    <3>1. rows[a.card] \in Row /\ rows[a.card].role = "card"
      BY <1>2, <2>3, RowFacts DEF IInv, Shortlisted, Present, CommandZoneFits, Fits
    <3>2. HasRoom(a.role)
      BY <1>1, <2>3 DEF Addable, Shortlisted, InDeck
    <3>3. /\ row = [rows[a.card] EXCEPT !.maybe = FALSE, !.quantity = a.quantity,
                       !.role = IF a.role = "card" THEN @ ELSE a.role,
                       !.slot = PrimaryFor(a), !.secondary = SecondaryFor(a)]
      BY <2>3 DEF Added
    <3>4. row \in Row /\ ~row.maybe /\ row.role = a.role
          /\ row.slot = PrimaryFor(a) /\ row.secondary = SecondaryFor(a)
      BY <1>2, <2>2, <3>1, <3>3 DEF Row
    <3>5. QED  BY <2>1, <3>2, <3>4
  <2>4. CASE InDeck(a.card)
    <3>1. rows[a.card] \in Row /\ ~rows[a.card].maybe /\ rows[a.card].quantity \in Nat \ {0}
          /\ Assignable(rows[a.card].slot, rows[a.card].secondary)
      BY <1>2, <2>4, RowFacts DEF IInv, TypeOK, InDeck, Present
    <3>2. row = [rows[a.card] EXCEPT !.quantity = @ + a.quantity]
      BY <2>4 DEF Added, Shortlisted, InDeck
    <3>3. row \in Row /\ ~row.maybe /\ row.role = rows[a.card].role
          /\ row.slot = rows[a.card].slot /\ row.secondary = rows[a.card].secondary
      BY <1>2, <3>1, <3>2 DEF Row
    <3>4. a.card \in Zone(row.role)
      BY <1>2, <2>4, <3>3 DEF Zone, Holding, InDeck, Present
    <3>5. QED  BY <3>1, <3>3, <3>4
  <2>5. CASE ~Present(a.card)
    <3>1. row = [maybe |-> FALSE, quantity |-> a.quantity, role |-> a.role,
                 slot |-> PrimaryFor(a), secondary |-> SecondaryFor(a)]
      BY <2>5 DEF Added, Shortlisted, InDeck
    <3>2. HasRoom(a.role)
      BY <1>1, <2>5 DEF Addable, InDeck
    <3>3. QED  BY <1>2, <2>1, <2>2, <3>1, <3>2 DEF Row
  <2>6. QED  BY <2>3, <2>4, <2>5 DEF Shortlisted, InDeck
<1> HIDE DEF row
<1>4. logged' \in Seq(LogCard) /\ logged' # <<>>
  <2>1. logged \in Seq(LogCard)
    BY DEF IInv, TypeOK
  <2>2. [action |-> "add", card |-> a.card, quantity |-> a.quantity, item |-> a.item,
         wasMaybe |-> Shortlisted(a.card)] \in LogCard
    BY <1>2 DEF LogCard, Shortlisted
  <2>3. QED  BY <1>1, <2>1, <2>2
<1>5. QED  BY <1>1, <1>2, <1>3, <1>4, ApplyingKeeps

LEMMA ApplyCutKeeps == IInv /\ ApplyCut => IInv'
<1> SUFFICES ASSUME IInv, ApplyCut PROVE IInv'
  OBVIOUS
<1> DEFINE c == Current
           old == rows[c.card]
           row == CutTo(c)
<1>1. /\ Applying /\ Applied /\ c \in Change /\ c.action = "cut" /\ InDeck(c.card)
      /\ rows' = [rows EXCEPT ![c.card] = row]
      /\ logged' = Append(logged,
            [action |-> "cut", card |-> c.card, quantity |-> Taken(c), item |-> c.item,
             slot |-> old.slot, secondary |-> old.secondary, role |-> old.role,
             parked |-> c.park])
  BY FirstFacts DEF ApplyCut, IInv
<1>2. /\ c.card \in Card /\ c.quantity \in Nat /\ c.park \in BOOLEAN
      /\ c.item \in {None} \cup Item
  BY <1>1, ChangeFacts
<1>3. /\ old \in Row /\ ~old.maybe /\ old.quantity \in Nat \ {0} /\ old.role \in Role
      /\ old.slot \in {None} \cup Slot /\ old.secondary \in SUBSET Slot
      /\ Assignable(old.slot, old.secondary)
  BY <1>1, <1>2, RowFacts DEF IInv, TypeOK, InDeck, Present, Live
<1>4. Taken(c) \in 1 .. old.quantity
  BY <1>2, <1>3 DEF Taken, All
<1>5. c.card \in Zone(old.role)
  BY <1>1, <1>2 DEF Zone, Holding, InDeck, Present
<1>6. /\ row \in {None} \cup Row
      /\ row # None => row.slot = old.slot /\ row.secondary = old.secondary
      /\ row # None /\ row.maybe => row.quantity = 1 /\ row.role = "card"
      /\ row # None /\ ~row.maybe => row.role = old.role
  <2>1. CASE c.park
    <3>1. row = [old EXCEPT !.maybe = TRUE, !.quantity = 1, !.role = "card"]
      BY <2>1 DEF CutTo
    <3>2. row = [maybe |-> TRUE, quantity |-> 1, role |-> "card", slot |-> old.slot,
                 secondary |-> old.secondary]
      BY <1>3, <3>1 DEF Row
    <3>3. 1 \in Nat \ {0} /\ "card" \in Role
      BY DEF Role
    <3>4. row \in Row
      BY <1>3, <3>2, <3>3 DEF Row
    <3>5. QED  BY <3>2, <3>4
  <2>2. CASE ~c.park /\ Taken(c) = old.quantity
    BY <2>2 DEF CutTo
  <2>3. CASE ~c.park /\ Taken(c) # old.quantity
    BY <1>3, <1>4, <2>3 DEF CutTo, Row
  <2>4. QED  BY <2>1, <2>2, <2>3
<1>7. logged' \in Seq(LogCard) /\ logged' # <<>>
  <2>1. logged \in Seq(LogCard)
    BY DEF IInv, TypeOK
  <2>2. [action |-> "cut", card |-> c.card, quantity |-> Taken(c), item |-> c.item,
         slot |-> old.slot, secondary |-> old.secondary, role |-> old.role,
         parked |-> c.park] \in LogCard
    BY <1>2, <1>3, <1>4 DEF LogCard
  <2>3. QED  BY <1>1, <2>1, <2>2
<1> HIDE DEF c, row
<1>8. QED  BY <1>1, <1>2, <1>3, <1>5, <1>6, <1>7, ApplyingKeeps

LEMMA ApplyRoleKeeps == IInv /\ ApplyRole => IInv'
<1> SUFFICES ASSUME IInv, ApplyRole PROVE IInv'
  OBVIOUS
<1> DEFINE r == Current
           old == rows[r.card]
           row == [old EXCEPT !.role = r.role]
<1>1. /\ Applying /\ Applied /\ r \in Change /\ r.action = "role" /\ Applicable(r)
      /\ rows' = [rows EXCEPT ![r.card].role = r.role]
      /\ logged' = IF r.role = old.role THEN logged
                   ELSE Append(logged, [action |-> "role", card |-> r.card,
                                        quantity |-> old.quantity, from |-> old.role])
  BY FirstFacts DEF ApplyRole, IInv
<1>2. r.card \in Card /\ r.role \in Role
  BY <1>1, ChangeFacts
<1>3. InDeck(r.card) /\ (r.role = old.role \/ HasRoom(r.role))
  BY <1>1 DEF Applicable
<1>4. /\ old \in Row /\ ~old.maybe /\ old.quantity \in Nat \ {0} /\ old.role \in Role
      /\ Assignable(old.slot, old.secondary) /\ r.card \in Zone(old.role)
  BY <1>2, <1>3, RowFacts DEF IInv, TypeOK, InDeck, Present, Zone, Holding
<1>5. /\ row \in Row /\ ~row.maybe /\ row.role = r.role
      /\ row.slot = old.slot /\ row.secondary = old.secondary
  BY <1>2, <1>4 DEF Row
<1>6. rows' = [rows EXCEPT ![r.card] = row] /\ (r.role = old.role => rows' = rows)
  BY <1>1, <1>2, <1>4 DEF IInv, TypeOK, Row
<1>7. logged' \in Seq(LogCard) /\ (logged' = <<>> => logged = <<>> /\ rows' = rows)
  <2>1. logged \in Seq(LogCard)
    BY DEF IInv, TypeOK
  <2>2. [action |-> "role", card |-> r.card, quantity |-> old.quantity, from |-> old.role]
           \in LogCard
    BY <1>2, <1>4 DEF LogCard
  <2>3. QED  BY <1>1, <1>6, <2>1, <2>2
<1> HIDE DEF r, row
<1>8. QED  BY <1>1, <1>2, <1>3, <1>4, <1>5, <1>6, <1>7, ApplyingKeeps

-----------------------------------------------------------------------------
(* A request that is taken back, and one that begins *)

LEMMA RestoreKeeps == IInv /\ ~Idle /\ Restore => IInv'
<1> SUFFICES ASSUME IInv, ~Idle, Restore PROVE IInv'
  OBVIOUS
<1>1. /\ saved \in Deck /\ rows' = saved.rows /\ revision' = saved.revision
      /\ identity' = saved.identity /\ log' = saved.log
      /\ acts' = <<>> /\ logged' = <<>> /\ saved' = None
      /\ category' = category /\ slots' = slots
  BY DEF IInv, TypeOK, Restore, Done
<1>2. Idle'
  BY <1>1 DEF Idle
<1>3. TypeOK'
  <2>1. \A c \in Card : Present(c)' => (saved.rows[c] # None)
    BY <1>1 DEF Present
  <2>2. (\A c \in Card : Present(c) => Assignable(rows[c].slot, rows[c].secondary))'
    BY <1>1, <2>1 DEF IInv, SavedIsSound, Assignable, Live
  <2>3. acts' \in Seq(Act) /\ logged' \in Seq(LogCard)
    BY <1>1
  <2>4. QED  BY <1>1, <1>2, <2>2, <2>3 DEF IInv, TypeOK, Deck
<1>4. CommandZoneFits' /\ IdentityFollows'
  BY <1>1 DEF IInv, SavedIsSound, CommandZoneFits, IdentityFollows, Zone
<1>5. RevisionCountsTheLog' /\ UndoneOnce'
  BY <1>1 DEF IInv, SavedIsSound, RevisionCountsTheLog, UndoneOnce
<1>6. SavedIsSound' /\ RequestIsLawful'
  BY <1>2 DEF SavedIsSound, RequestIsLawful
<1>7. ActsAreSound'
  BY <1>1 DEF ActsAreSound
<1>8. QED  BY <1>3, <1>4, <1>5, <1>6, <1>7 DEF IInv

\* A request of one act begins: an edit by someone who may make it, or the undo
\* of an entry that can be undone.
LEMMA BeginKeeps ==
    ASSUME IInv, NEW act \in Act, Begin(<<act>>), Editable,
           category = "paper" => act.via = "ui", act.kind # "reject",
           act.kind # "undo" => act.undoOf = None,
           act.kind = "undo" => /\ act.undoOf \in DOMAIN log
                                /\ log[act.undoOf].undoneBy = None
                                /\ log[act.undoOf].kind \notin {"undo", "reject"}
    PROVE  IInv'
<1>1. /\ Idle /\ acts' = <<act>> /\ logged' = <<>>
      /\ saved' = [rows |-> rows, revision |-> revision, identity |-> identity, log |-> log]
      /\ category' = category /\ slots' = slots /\ rows' = rows
      /\ revision' = revision /\ identity' = identity /\ log' = log
  BY DEF Begin, deck
<1>2. ~Idle' /\ acts' \in Seq(Act) /\ Len(acts') = 1 /\ DOMAIN acts' = {1} /\ acts'[1] = act
  BY <1>1 DEF Idle
<1>3. /\ saved'.rows = rows /\ saved'.revision = revision
      /\ saved'.identity = identity /\ saved'.log = log /\ logged = <<>>
  BY <1>1 DEF IInv, IdentityFollows
<1>4. TypeOK'
  <2>1. saved' \in Deck
    BY <1>1 DEF IInv, TypeOK, Deck
  <2>2. (\A c \in Card : Present(c) => Assignable(rows[c].slot, rows[c].secondary))'
    BY <1>1 DEF IInv, TypeOK, Present, Assignable, Live
  <2>3. logged' \in Seq(LogCard)
    BY <1>1
  <2>4. QED  BY <1>1, <1>2, <2>1, <2>2, <2>3 DEF IInv, TypeOK
<1>5. CommandZoneFits' /\ IdentityFollows'
  BY <1>1, <1>2 DEF IInv, CommandZoneFits, IdentityFollows, Zone
<1>6. RevisionCountsTheLog' /\ UndoneOnce'
  BY <1>1 DEF IInv, RevisionCountsTheLog, UndoneOnce
<1>7. SavedIsSound'
  BY <1>1, <1>3 DEF IInv, TypeOK, CommandZoneFits, RevisionCountsTheLog, UndoneOnce,
     SavedIsSound, Present, Assignable, Live, Zone
<1>8. ActsAreSound'
  BY <1>1, <1>2 DEF ActsAreSound
<1>9. RequestIsLawful'
  BY <1>1, <1>2, <1>3 DEF IInv, TypeOK, RequestIsLawful, Editable
<1>10. QED  BY <1>4, <1>5, <1>6, <1>7, <1>8, <1>9 DEF IInv

-----------------------------------------------------------------------------
(* One more log entry *)

\* Counting goes on: the new entry stands for the next revision.
LEMMA CountedKept ==
    ASSUME NEW l \in Seq(Entry), NEW m \in Seq(Entry), NEW n \in Nat, Counted(n, l),
           Len(m) = Len(l) + 1,
           \A i \in 1 .. Len(l) : m[i].kind = l[i].kind /\ m[i].revision = l[i].revision,
           m[Len(l) + 1].kind # "reject", m[Len(l) + 1].revision = n + 1
    PROVE  Counted(n + 1, m)
<1> DEFINE z == Len(l) + 1
           Upto(s, i) == {j \in Changing(s) : j <= i}
<1>1. z \in Nat /\ DOMAIN l = 1 .. Len(l) /\ DOMAIN m = 1 .. z /\ Len(l) \in Nat
  OBVIOUS
<1>2. IsFiniteSet(Changing(l)) /\ Cardinality(Changing(l)) = n
  <2>1. Changing(l) \in SUBSET (1 .. Len(l))
    BY <1>1 DEF Changing
  <2>2. IsFiniteSet(1 .. Len(l))
    BY <1>1, FS_Interval
  <2>3. QED  BY <2>1, <2>2, FS_Subset DEF Counted
<1>3. Changing(m) = Changing(l) \cup {z} /\ z \notin Changing(l)
  BY <1>1 DEF Changing
<1>4. Cardinality(Changing(m)) = n + 1
  BY <1>2, <1>3, FS_AddElement
<1>5. ASSUME NEW i \in 1 .. Len(l)
      PROVE  m[i].revision = Cardinality(Upto(m, i))
  <2>1. Upto(m, i) = Upto(l, i)
    BY <1>1, <1>3
  <2>2. QED  BY <1>1, <2>1 DEF Counted
<1>6. Upto(m, z) = Changing(m)
  BY <1>1 DEF Changing
<1>7. \A i \in DOMAIN m : m[i].revision = Cardinality(Upto(m, i))
  <2>1. \A i \in DOMAIN m : i \in 1 .. Len(l) \/ i = z
    BY <1>1
  <2>2. m[z].revision = Cardinality(Upto(m, z))
    BY <1>4, <1>6
  <2> HIDE DEF Upto, z
  <2>3. QED  BY <1>5, <2>1, <2>2
<1>8. QED  BY <1>4, <1>7 DEF Counted

\* The links stay mutual: an entry that reverses another marks it, and only it.
LEMMA LinkedKept ==
    ASSUME NEW l \in Seq(Entry), NEW m \in Seq(Entry), Linked(l), Len(m) = Len(l) + 1,
           NEW u \in {None} \cup DOMAIN l,
           u # None => l[u].undoneBy = None /\ l[u].kind \notin {"undo", "reject"},
           \A i \in 1 .. Len(l) :
               /\ m[i].kind = l[i].kind /\ m[i].undoOf = l[i].undoOf
               /\ m[i].undoneBy = IF i = u THEN Len(l) + 1 ELSE l[i].undoneBy,
           m[Len(l) + 1].undoOf = u, m[Len(l) + 1].undoneBy = None,
           u # None => m[Len(l) + 1].kind = "undo"
    PROVE  Linked(m)
<1> DEFINE z == Len(l) + 1
<1>1. z \in Nat /\ DOMAIN l = 1 .. Len(l) /\ DOMAIN m = 1 .. z /\ Len(l) \in Nat
  OBVIOUS
<1>2. None \notin Nat
  BY DataAssumption
<1>3. ASSUME NEW i \in 1 .. Len(l), m[i].undoneBy # None
      PROVE  /\ m[i].undoneBy \in i + 1 .. z
             /\ m[m[i].undoneBy].undoOf = i
             /\ m[i].kind \notin {"undo", "reject"}
  <2>1. CASE i = u
    BY <1>1, <1>2, <1>3, <2>1
  <2>2. CASE i # u
    <3>1. m[i].undoneBy = l[i].undoneBy /\ i \in DOMAIN l
      BY <1>1, <2>2
    <3>2. /\ l[i].undoneBy \in i + 1 .. Len(l) /\ l[l[i].undoneBy].undoOf = i
          /\ l[i].kind \notin {"undo", "reject"}
      BY <1>3, <3>1 DEF Linked
    <3>3. QED  BY <1>1, <3>1, <3>2
  <2>3. QED  BY <2>1, <2>2
<1>4. ASSUME NEW i \in 1 .. Len(l), m[i].undoOf # None
      PROVE  /\ m[i].kind = "undo" /\ m[i].undoOf \in 1 .. i - 1
             /\ m[m[i].undoOf].undoneBy = i
  <2>1. /\ l[i].kind = "undo" /\ l[i].undoOf \in 1 .. i - 1
        /\ l[l[i].undoOf].undoneBy = i
    BY <1>1, <1>4 DEF Linked
  <2>2. l[i].undoOf # u
    BY <1>1, <1>2, <2>1
  <2>3. QED  BY <1>1, <2>1, <2>2
<1>5. u # None => m[z].kind = "undo" /\ u \in 1 .. z - 1 /\ m[u].undoneBy = z
  BY <1>1
<1>6. \A i \in DOMAIN m : i \in 1 .. Len(l) \/ i = z
  BY <1>1
<1>7. Len(m) = z
  OBVIOUS
<1> HIDE DEF z
<1>8. QED  BY <1>3, <1>4, <1>5, <1>6, <1>7 DEF Linked

\* What Land does to the log.
LEMMA LandedLog ==
    ASSUME IInv, ~Idle, log' = Append(Marked(acts[1]), EntryOf(acts[1]))
    PROVE  /\ log' \in Seq(Entry) /\ Len(log') = Len(log) + 1
           /\ \A i \in 1 .. Len(log) :
                 /\ log'[i].kind = log[i].kind /\ log'[i].revision = log[i].revision
                 /\ log'[i].undoOf = log[i].undoOf /\ log'[i].via = log[i].via
                 /\ log'[i].undoneBy = IF i = acts[1].undoOf THEN Len(log) + 1 ELSE log[i].undoneBy
                 /\ log'[i] = IF i = acts[1].undoOf THEN [log[i] EXCEPT !.undoneBy = Len(log) + 1]
                              ELSE log[i]
           /\ log'[Len(log) + 1] = EntryOf(acts[1])
<1> DEFINE act == acts[1]
           marked == Marked(act)
<1>1. act \in Act /\ act.kind # "reject"
  BY DEF IInv, TypeOK, Idle, ActsAreSound
<1>2. log \in Seq(Entry) /\ logged \in Seq(LogCard) /\ revision \in Nat
  BY DEF IInv, TypeOK
<1>3. EntryOf(act) \in Entry
  BY <1>1, <1>2 DEF EntryOf, Entry, Entries, Act
<1>4. ASSUME NEW e \in Entry, NEW n \in Nat
      PROVE  /\ [e EXCEPT !.undoneBy = n] \in Entry
             /\ [e EXCEPT !.undoneBy = n].kind = e.kind
             /\ [e EXCEPT !.undoneBy = n].revision = e.revision
             /\ [e EXCEPT !.undoneBy = n].undoOf = e.undoOf
             /\ [e EXCEPT !.undoneBy = n].via = e.via
             /\ [e EXCEPT !.undoneBy = n].undoneBy = n
  BY DEF Entry, Entries
<1>5. Len(log) + 1 \in Nat /\ DOMAIN log = 1 .. Len(log) /\ Len(log) \in Nat
      /\ \A i \in 1 .. Len(log) : log[i] \in Entry
  BY <1>2
<1>6. \A i \in 1 .. Len(log) :
         /\ marked[i] = IF i = act.undoOf THEN [log[i] EXCEPT !.undoneBy = Len(log) + 1] ELSE log[i]
         /\ marked[i] \in Entry
  BY <1>4, <1>5 DEF Marked
<1>7. marked \in Seq(Entry) /\ Len(marked) = Len(log)
  <2>1. marked \in [1 .. Len(log) -> Entry]
    BY <1>5, <1>6 DEF Marked
  <2>2. QED  BY <1>5, <2>1
<1> HIDE DEF marked, act
<1>8. /\ log' \in Seq(Entry) /\ Len(log') = Len(log) + 1
      /\ \A i \in 1 .. Len(log) : log'[i] = marked[i]
      /\ log'[Len(log) + 1] = EntryOf(act)
  BY <1>3, <1>5, <1>7 DEF act, marked
<1>9. \A i \in 1 .. Len(log) :
         /\ log'[i].kind = log[i].kind /\ log'[i].revision = log[i].revision
         /\ log'[i].undoOf = log[i].undoOf /\ log'[i].via = log[i].via
         /\ log'[i].undoneBy = IF i = act.undoOf THEN Len(log) + 1 ELSE log[i].undoneBy
         /\ log'[i] = IF i = act.undoOf THEN [log[i] EXCEPT !.undoneBy = Len(log) + 1] ELSE log[i]
  <2> TAKE i \in 1 .. Len(log)
  <2>1. log'[i] = IF i = act.undoOf THEN [log[i] EXCEPT !.undoneBy = Len(log) + 1] ELSE log[i]
    BY <1>6, <1>8
  <2>2. CASE i = act.undoOf
    BY <1>4, <1>5, <2>1, <2>2
  <2>3. CASE i # act.undoOf
    BY <2>1, <2>3
  <2>4. QED  BY <2>2, <2>3
<1>10. QED  BY <1>8, <1>9 DEF act

\* What is left of the request once its first act has landed.
LEMMA RestFacts ==
    ASSUME TypeOK, ~Idle, acts' = Tail(acts)
    PROVE  /\ acts' \in Seq(Act) /\ Len(acts') = Len(acts) - 1
           /\ acts[1] \in Act /\ Len(acts) \in Nat \ {0} /\ DOMAIN acts = 1 .. Len(acts)
           /\ \A k \in DOMAIN acts' : k + 1 \in DOMAIN acts /\ acts'[k] = acts[k + 1]
           /\ Idle' <=> Len(acts) = 1
<1>1. acts \in Seq(Act) /\ acts # <<>>
  BY DEF TypeOK, Idle
<1>2. Len(acts) \in Nat \ {0} /\ DOMAIN acts = 1 .. Len(acts) /\ acts[1] \in Act
  BY <1>1
<1>3. /\ acts' \in Seq(Act) /\ Len(acts') = Len(acts) - 1
      /\ \A k \in 1 .. Len(acts') : acts'[k] = acts[k + 1]
  BY <1>1, HeadTailProperties
<1>4. DOMAIN acts' = 1 .. Len(acts')
  BY <1>3
<1>5. acts' = <<>> <=> Len(acts') = 0
  BY <1>3
<1>6. QED  BY <1>2, <1>3, <1>4, <1>5 DEF Idle

LEMMA LandKeeps == IInv /\ Land => IInv'
<1> SUFFICES ASSUME IInv, Land PROVE IInv'
  OBVIOUS
<1>1. ~Idle
  BY DEF Land
<1>2. CASE logged = <<>> /\ acts[1].kind = "undo"
  BY <1>1, <1>2, RestoreKeeps DEF Land
<1>3. CASE ~(logged = <<>> /\ acts[1].kind = "undo")
  <2> DEFINE act == acts[1]
  <2>1. /\ acts' = Tail(acts) /\ logged' = <<>>
        /\ saved' = IF Tail(acts) = <<>> THEN None ELSE saved
        /\ category' = category /\ slots' = slots /\ rows' = rows
    BY <1>3 DEF Land
  <2>2. /\ acts' \in Seq(Act) /\ Len(acts') = Len(acts) - 1
        /\ acts[1] \in Act /\ Len(acts) \in Nat \ {0} /\ DOMAIN acts = 1 .. Len(acts)
        /\ \A k \in DOMAIN acts' : k + 1 \in DOMAIN acts /\ acts'[k] = acts[k + 1]
        /\ Idle' <=> Len(acts) = 1
    BY <1>1, <2>1, RestFacts DEF IInv
  <2>3. saved' = IF Idle' THEN None ELSE saved
    BY <2>1 DEF Idle
  <2>4. /\ revision' \in Nat /\ identity' \subseteq Card /\ log' \in Seq(Entry)
        /\ identity' = Zone("commander")
        /\ revision <= revision' /\ Len(log) <= Len(log')
        /\ logged # <<>> => revision < revision' /\ Len(log) < Len(log')
        /\ revision < revision' => Len(log) < Len(log')
        /\ Counted(revision', log') /\ Linked(log')
        /\ \A i \in 1 .. Len(log') : IF i <= Len(log) THEN log'[i].via = log[i].via
                                     ELSE log'[i].via = act.via
        /\ act.kind # "undo" => \A i \in DOMAIN log :
              i \in DOMAIN log' /\ log'[i].undoneBy = log[i].undoneBy /\ log'[i].kind = log[i].kind
    <3>1. CASE logged = <<>>
      <4>1. revision' = revision /\ identity' = identity /\ log' = log
        BY <1>3, <3>1 DEF Land
      <4>2. QED
        BY <3>1, <4>1 DEF IInv, TypeOK, IdentityFollows, RevisionCountsTheLog, UndoneOnce
    <3>2. CASE logged # <<>>
      <4>1. /\ revision' = revision + 1 /\ identity' = Zone("commander")
            /\ log' = Append(Marked(act), EntryOf(act))
        BY <3>2 DEF Land
      <4>2. /\ log' \in Seq(Entry) /\ Len(log') = Len(log) + 1
            /\ \A i \in 1 .. Len(log) :
                  /\ log'[i].kind = log[i].kind /\ log'[i].revision = log[i].revision
                  /\ log'[i].undoOf = log[i].undoOf /\ log'[i].via = log[i].via
                  /\ log'[i].undoneBy = IF i = act.undoOf THEN Len(log) + 1 ELSE log[i].undoneBy
            /\ log'[Len(log) + 1] = EntryOf(act)
        BY <1>1, <4>1, LandedLog
      <4>3. /\ log \in Seq(Entry) /\ revision \in Nat /\ Len(log) \in Nat
            /\ DOMAIN log = 1 .. Len(log) /\ DOMAIN log' = 1 .. Len(log) + 1
        BY <4>2 DEF IInv, TypeOK
      <4>4. /\ EntryOf(act).kind = act.kind /\ EntryOf(act).via = act.via
            /\ EntryOf(act).revision = revision + 1 /\ EntryOf(act).undoOf = act.undoOf
            /\ EntryOf(act).undoneBy = None
        BY DEF EntryOf
      <4>5. /\ act.kind # "reject" /\ act.undoOf \in {None} \cup DOMAIN log
            /\ act.undoOf # None => /\ act.kind = "undo"
                                    /\ log[act.undoOf].undoneBy = None
                                    /\ log[act.undoOf].kind \notin {"undo", "reject"}
            /\ act.kind # "undo" => act.undoOf = None
        BY <2>2 DEF IInv, ActsAreSound
      <4>6. Counted(revision', log')
        <5>1. log'[Len(log) + 1].kind # "reject" /\ log'[Len(log) + 1].revision = revision + 1
          BY <4>2, <4>4, <4>5
        <5>2. Counted(revision, log)
          BY DEF IInv, RevisionCountsTheLog
        <5>3. Counted(revision + 1, log')
          BY <4>2, <4>3, <5>1, <5>2, CountedKept
        <5>4. QED  BY <4>1, <5>3
      <4>7. Linked(log')
        BY <4>2, <4>3, <4>4, <4>5, LinkedKept DEF IInv, UndoneOnce
      <4>8. identity' \subseteq Card
        BY <4>1 DEF Zone, Holding
      <4>9. \A i \in 1 .. Len(log') : IF i <= Len(log) THEN log'[i].via = log[i].via
                                      ELSE log'[i].via = act.via
        BY <4>2, <4>3, <4>4
      <4>10. act.kind # "undo" => \A i \in DOMAIN log :
                i \in DOMAIN log' /\ log'[i].undoneBy = log[i].undoneBy /\ log'[i].kind = log[i].kind
        BY <4>2, <4>3, <4>5, DataAssumption
      <4>11. QED  BY <4>1, <4>2, <4>3, <4>6, <4>7, <4>8, <4>9, <4>10
    <3>3. QED  BY <3>1, <3>2
  <2>5. TypeOK'
    <3>1. (\A c \in Card : Present(c) => Assignable(rows[c].slot, rows[c].secondary))'
      BY <2>1 DEF IInv, TypeOK, Present, Assignable, Live
    <3>2. logged' \in Seq(LogCard)
      BY <2>1
    <3>3. saved' \in IF Idle' THEN {None} ELSE Deck
      BY <1>1, <2>3 DEF IInv, TypeOK
    <3>4. QED  BY <2>1, <2>2, <2>4, <3>1, <3>2, <3>3 DEF IInv, TypeOK
  <2>6. CommandZoneFits' /\ IdentityFollows'
    BY <2>1, <2>4 DEF IInv, CommandZoneFits, IdentityFollows, Zone
  <2>7. RevisionCountsTheLog' /\ UndoneOnce'
    BY <2>4 DEF RevisionCountsTheLog, UndoneOnce
  <2>8. SavedIsSound'
    BY <1>1, <2>1, <2>3 DEF IInv, SavedIsSound, Assignable, Live
  <2>9. ActsAreSound'
    <3>1. SUFFICES ASSUME NEW k \in DOMAIN acts'
                   PROVE  /\ acts'[k].kind \notin {"reject", "undo"} /\ acts'[k].undoOf = None
      BY DEF ActsAreSound
    <3>2. k + 1 \in DOMAIN acts /\ acts'[k] = acts[k + 1] /\ Len(acts) # 1
      BY <2>2
    <3>3. QED  BY <3>2 DEF IInv, ActsAreSound
  <2>10. RequestIsLawful'
    <3> SUFFICES ASSUME ~Idle' PROVE RequestIsLawful'
      BY DEF RequestIsLawful
    <3>1. saved' = saved /\ saved.revision \in Nat /\ Len(saved.log) \in Nat /\ Len(log) \in Nat
          /\ revision \in Nat /\ Len(log') \in Nat
      BY <1>1, <2>3, <2>4 DEF IInv, TypeOK, Deck
    <3>2. category = "paper" => act.via = "ui" /\ \A k \in DOMAIN acts' : acts'[k].via = "ui"
      BY <1>1, <2>2 DEF IInv, RequestIsLawful
    <3>3. category = "paper" => \A i \in Len(saved.log) + 1 .. Len(log') : log'[i].via = "ui"
      BY <1>1, <2>4, <3>1, <3>2 DEF IInv, RequestIsLawful
    <3>4. /\ saved.revision <= revision' /\ Len(saved.log) <= Len(log')
          /\ saved.revision < revision' => Len(saved.log) < Len(log')
      BY <1>1, <2>4, <3>1 DEF IInv, RequestIsLawful
    <3>5. Cards(rows') # Cards(saved.rows) => saved.revision < revision'
      BY <1>1, <2>1, <2>4, <3>1 DEF IInv, RequestIsLawful
    <3>6. QED
      BY <1>1, <2>1, <3>1, <3>2, <3>3, <3>4, <3>5 DEF IInv, RequestIsLawful, Editable, Cards
  <2>11. QED  BY <2>5, <2>6, <2>7, <2>8, <2>9, <2>10 DEF IInv
<1>4. QED  BY <1>2, <1>3

LEMMA RefuseKeeps == IInv /\ Refuse => IInv'
  BY RestoreKeeps DEF Refuse, Applying

LEMMA CrashKeeps == IInv /\ Crash => IInv'
  BY RestoreKeeps DEF Crash

-----------------------------------------------------------------------------
(* Organisation *)

\* The two deck rows hold the same cards, as often and in the same roles.
SameCards(r, q) ==
    \A c \in Card : /\ (r[c] # None /\ ~r[c].maybe) <=> (q[c] # None /\ ~q[c].maybe)
                    /\ r[c] # None /\ ~r[c].maybe =>
                          r[c].quantity = q[c].quantity /\ r[c].role = q[c].role

LEMMA SameCardsFacts ==
    ASSUME NEW r, NEW q, SameCards(r, q)
    PROVE  Cards(r) = Cards(q) /\ \A role : Holding(r, role) = Holding(q, role)
  BY DEF SameCards, Cards, Holding

\* Between requests, what files the cards anew, and neither gives a card to the
\* deck nor takes one from it, keeps everything.
LEMMA OrganisingKeeps ==
    ASSUME IInv, Idle, UNCHANGED <<revision, identity, log, running>>,
           category' \in Category, slots' \in [Slot -> {"unmade", "live", "deleted"}],
           rows' \in [Card -> {None} \cup Row], SameCards(rows', rows),
           (\A c \in Card : Present(c) => Assignable(rows[c].slot, rows[c].secondary))',
           \A c \in Card : rows'[c] # None /\ rows'[c].maybe =>
               rows'[c].quantity = 1 /\ rows'[c].role = "card"
    PROVE  IInv'
<1>1. /\ revision' = revision /\ identity' = identity /\ log' = log
      /\ acts' = <<>> /\ acts = <<>> /\ logged' = logged /\ saved' = saved /\ Idle'
  BY DEF running, Idle
<1>2. \A role : Holding(rows', role) = Holding(rows, role)
  BY SameCardsFacts
<1>3. TypeOK'
  BY <1>1 DEF IInv, TypeOK, Idle
<1>4. CommandZoneFits' /\ IdentityFollows'
  BY <1>1, <1>2 DEF IInv, CommandZoneFits, IdentityFollows, Fits, Zone
<1>5. RevisionCountsTheLog' /\ UndoneOnce'
  BY <1>1 DEF IInv, RevisionCountsTheLog, UndoneOnce
<1>6. SavedIsSound' /\ RequestIsLawful' /\ ActsAreSound'
  BY <1>1 DEF SavedIsSound, RequestIsLawful, ActsAreSound
<1>7. QED  BY <1>3, <1>4, <1>5, <1>6 DEF IInv

\* A slot is created, or a card filed, shortlisted or taken off the maybe list.
\* Every row but one is as it was, and no slot is lost.
LEMMA FilingKeeps ==
    ASSUME IInv, Idle, UNCHANGED <<category, revision, identity, log, running>>,
           slots' \in [Slot -> {"unmade", "live", "deleted"}],
           \A s \in Slot : slots[s] = "live" => slots'[s] = "live",
           NEW c \in Card, NEW row \in {None} \cup Row, rows' = [rows EXCEPT ![c] = row],
           row # None => Assignable(row.slot, row.secondary)',
           row # None /\ row.maybe => row.quantity = 1 /\ row.role = "card",
           InDeck(c) <=> row # None /\ ~row.maybe,
           InDeck(c) => row.quantity = rows[c].quantity /\ row.role = rows[c].role
    PROVE  IInv' /\ SameCards(rows', rows)
<1>1. rows \in [Card -> {None} \cup Row] /\ rows' \in [Card -> {None} \cup Row]
      /\ \A d \in Card : rows'[d] = IF d = c THEN row ELSE rows[d]
  BY DEF IInv, TypeOK
<1>2. SameCards(rows', rows)
  BY <1>1 DEF SameCards, InDeck, Present
<1>3. (\A d \in Card : Present(d) => Assignable(rows[d].slot, rows[d].secondary))'
  BY <1>1 DEF IInv, TypeOK, Present, Assignable, Live
<1>4. \A d \in Card : rows'[d] # None /\ rows'[d].maybe =>
         rows'[d].quantity = 1 /\ rows'[d].role = "card"
  BY <1>1 DEF IInv, CommandZoneFits, Fits
<1>5. category' \in Category
  BY DEF IInv, TypeOK
<1>6. QED  BY <1>1, <1>2, <1>3, <1>4, <1>5, OrganisingKeeps

LEMMA CreateSlotKeeps ==
    ASSUME NEW s \in Slot, IInv, CreateSlot(s) PROVE IInv' /\ SameCards(rows', rows)
<1>1. /\ Idle /\ UNCHANGED <<category, revision, identity, log, running>>
      /\ slots' = [slots EXCEPT ![s] = "live"] /\ rows' = rows
  BY DEF CreateSlot, Organising
<1>2. category' \in Category /\ slots' \in [Slot -> {"unmade", "live", "deleted"}]
      /\ rows' \in [Card -> {None} \cup Row] /\ SameCards(rows', rows)
  BY <1>1 DEF IInv, TypeOK, SameCards
<1>3. (\A c \in Card : Present(c) => Assignable(rows[c].slot, rows[c].secondary))'
  BY <1>1 DEF IInv, TypeOK, Present, Assignable, Live
<1>4. \A c \in Card : rows'[c] # None /\ rows'[c].maybe =>
         rows'[c].quantity = 1 /\ rows'[c].role = "card"
  BY <1>1 DEF IInv, CommandZoneFits, Fits
<1>5. QED  BY <1>1, <1>2, <1>3, <1>4, OrganisingKeeps

LEMMA DeleteSlotKeeps ==
    ASSUME NEW s \in Slot, IInv, DeleteSlot(s) PROVE IInv' /\ SameCards(rows', rows)
<1>1. /\ Idle /\ UNCHANGED <<category, revision, identity, log, running>>
      /\ slots' = [slots EXCEPT ![s] = "deleted"]
      /\ rows' = [c \in Card |-> IF ~Present(c) THEN None
                  ELSE [rows[c] EXCEPT !.slot = IF @ = s THEN None ELSE @, !.secondary = @ \ {s}]]
  BY DEF DeleteSlot, Organising
<1>2. \A c \in Card :
         IF rows[c] = None THEN rows'[c] = None
         ELSE /\ rows[c] \in Row /\ rows'[c] \in Row
              /\ rows'[c].maybe = rows[c].maybe /\ rows'[c].quantity = rows[c].quantity
              /\ rows'[c].role = rows[c].role
              /\ rows'[c].slot = IF rows[c].slot = s THEN None ELSE rows[c].slot
              /\ rows'[c].secondary = rows[c].secondary \ {s}
  <2> TAKE c \in Card
  <2>1. CASE rows[c] = None
    BY <1>1, <2>1 DEF Present
  <2>2. CASE rows[c] # None
    <3>1. rows[c] \in Row
      BY <2>2 DEF IInv, TypeOK
    <3>2. rows'[c] = [rows[c] EXCEPT !.slot = IF @ = s THEN None ELSE @, !.secondary = @ \ {s}]
      BY <1>1, <2>2 DEF Present
    <3>3. QED  BY <2>2, <3>1, <3>2 DEF Row
  <2>3. QED  BY <2>1, <2>2
<1>3. category' \in Category /\ slots' \in [Slot -> {"unmade", "live", "deleted"}]
  BY <1>1 DEF IInv, TypeOK
<1>4. rows' \in [Card -> {None} \cup Row]
  BY <1>1, <1>2
<1>5. SameCards(rows', rows)
  <2>1. \A c \in Card : rows[c] # None <=> rows'[c] # None
    BY <1>2, DataAssumption
  <2>2. QED  BY <1>2, <2>1 DEF SameCards
<1>6. (\A c \in Card : Present(c) => Assignable(rows[c].slot, rows[c].secondary))'
  <2>1. SUFFICES ASSUME NEW c \in Card, rows'[c] # None
                 PROVE  Assignable(rows[c].slot, rows[c].secondary)'
    BY DEF Present
  <2>2. /\ rows'[c].slot = IF rows[c].slot = s THEN None ELSE rows[c].slot
        /\ rows'[c].secondary = rows[c].secondary \ {s}
        /\ Assignable(rows[c].slot, rows[c].secondary)
    BY <1>2, <2>1 DEF IInv, TypeOK, Present
  <2>3. Live' = Live \ {s} /\ None \notin Slot /\ Live \subseteq Slot
    BY <1>1, DataAssumption DEF IInv, TypeOK, Live
  <2>4. QED  BY <2>2, <2>3 DEF Assignable
<1>7. \A c \in Card : rows'[c] # None /\ rows'[c].maybe =>
         rows'[c].quantity = 1 /\ rows'[c].role = "card"
  BY <1>2 DEF IInv, CommandZoneFits, Fits
<1>8. QED  BY <1>1, <1>3, <1>4, <1>5, <1>6, <1>7, OrganisingKeeps

LEMMA OrganizeCardKeeps ==
    ASSUME IInv, NEW c \in Card, NEW primary, NEW secondary, OrganizeCard(c, primary, secondary)
    PROVE  IInv' /\ SameCards(rows', rows)
<1>0. PICK row : row = [rows[c] EXCEPT !.slot = primary, !.secondary = secondary]
  OBVIOUS
<1>1. /\ Idle /\ UNCHANGED <<category, slots, revision, identity, log, running>>
      /\ Present(c) /\ Assignable(primary, secondary)
      /\ rows' = [rows EXCEPT ![c].slot = primary, ![c].secondary = secondary]
  BY DEF OrganizeCard, Organising
<1>2. primary \in {None} \cup Slot /\ secondary \in SUBSET Slot /\ rows[c] \in Row
  BY <1>1, RowFacts DEF IInv, Assignable, Live
<1>3. /\ row \in Row /\ row # None /\ row.maybe = rows[c].maybe
      /\ row.quantity = rows[c].quantity /\ row.role = rows[c].role
      /\ row.slot = primary /\ row.secondary = secondary
  <2>1. row \in Row /\ row.maybe = rows[c].maybe
        /\ row.quantity = rows[c].quantity /\ row.role = rows[c].role
        /\ row.slot = primary /\ row.secondary = secondary
    BY <1>0, <1>2 DEF Row
  <2>2. QED  BY <2>1, DataAssumption
<1>4. rows' = [rows EXCEPT ![c] = row]
  BY <1>0, <1>1, <1>2 DEF IInv, TypeOK, Row
<1>5. row.maybe => row.quantity = 1 /\ row.role = "card"
  BY <1>1, <1>3 DEF IInv, CommandZoneFits, Fits, Present
<1>6. InDeck(c) <=> ~row.maybe
  BY <1>1, <1>3 DEF InDeck
<1>7. Assignable(row.slot, row.secondary)'
  BY <1>1, <1>3 DEF Assignable, Live
<1>8. slots' \in [Slot -> {"unmade", "live", "deleted"}] /\ slots' = slots
  BY <1>1 DEF IInv, TypeOK
<1>9. QED  BY <1>1, <1>3, <1>4, <1>5, <1>6, <1>7, <1>8, FilingKeeps

LEMMA ShortlistCardKeeps ==
    ASSUME IInv, NEW c \in Card, ShortlistCard(c) PROVE IInv' /\ SameCards(rows', rows)
<1> DEFINE row == [maybe |-> TRUE, quantity |-> 1, role |-> "card", slot |-> None, secondary |-> {}]
<1>1. /\ Idle /\ UNCHANGED <<category, slots, revision, identity, log, running>>
      /\ ~Present(c) /\ rows' = [rows EXCEPT ![c] = row]
  BY DEF ShortlistCard, Organising
<1>2. 1 \in Nat \ {0} /\ "card" \in Role /\ TRUE \in BOOLEAN
  BY DEF Role
<1>3. row \in Row /\ row.maybe /\ row.quantity = 1 /\ row.role = "card"
      /\ row.slot = None /\ row.secondary = {}
  BY <1>2 DEF Row
<1>4. Assignable(row.slot, row.secondary)'
  BY <1>3 DEF Assignable
<1>5. slots' \in [Slot -> {"unmade", "live", "deleted"}] /\ slots' = slots /\ ~InDeck(c)
  BY <1>1 DEF IInv, TypeOK, InDeck
<1> HIDE DEF row
<1>6. QED  BY <1>1, <1>3, <1>4, <1>5, FilingKeeps

LEMMA UnshortlistCardKeeps ==
    ASSUME IInv, NEW c \in Card, UnshortlistCard(c) PROVE IInv' /\ SameCards(rows', rows)
<1>1. /\ Idle /\ UNCHANGED <<category, slots, revision, identity, log, running>>
      /\ Shortlisted(c) /\ rows' = [rows EXCEPT ![c] = None]
  BY DEF UnshortlistCard, Organising
<1>2. slots' \in [Slot -> {"unmade", "live", "deleted"}] /\ slots' = slots /\ ~InDeck(c)
  BY <1>1 DEF IInv, TypeOK, InDeck, Shortlisted
<1>3. QED  BY <1>1, <1>2, FilingKeeps

LEMMA SetDeckCategoryKeeps ==
    ASSUME IInv, NEW new \in Category, SetDeckCategory(new)
    PROVE  IInv' /\ SameCards(rows', rows)
<1>1. /\ Idle /\ category' = new /\ UNCHANGED <<slots, rows, revision, identity, log, running>>
  BY DEF SetDeckCategory, deck
<1>2. /\ slots' \in [Slot -> {"unmade", "live", "deleted"}]
      /\ rows' \in [Card -> {None} \cup Row] /\ SameCards(rows', rows)
  BY <1>1 DEF IInv, TypeOK, SameCards
<1>3. (\A c \in Card : Present(c) => Assignable(rows[c].slot, rows[c].secondary))'
  BY <1>1 DEF IInv, TypeOK, Present, Assignable, Live
<1>4. \A c \in Card : rows'[c] # None /\ rows'[c].maybe =>
         rows'[c].quantity = 1 /\ rows'[c].role = "card"
  BY <1>1 DEF IInv, CommandZoneFits, Fits
<1>5. QED  BY <1>1, <1>2, <1>3, <1>4, OrganisingKeeps

LEMMA OrganisationKeeps ==
    ASSUME IInv, Organisation PROVE IInv' /\ SameCards(rows', rows)
<1>1. CASE \E s \in Slot : CreateSlot(s) \/ DeleteSlot(s)
  BY <1>1, CreateSlotKeeps, DeleteSlotKeeps
<1>2. CASE \E c \in Card, p \in Live \cup {None}, ss \in SUBSET Live : OrganizeCard(c, p, ss)
  BY <1>2, OrganizeCardKeeps
<1>3. CASE \E c \in Card : ShortlistCard(c) \/ UnshortlistCard(c)
  BY <1>3, ShortlistCardKeeps, UnshortlistCardKeeps
<1>4. CASE \E new \in Category : SetDeckCategory(new)
  BY <1>4, SetDeckCategoryKeeps
<1>5. QED  BY <1>1, <1>2, <1>3, <1>4 DEF Organisation

-----------------------------------------------------------------------------
(* Requests *)

LEMMA EditKeeps ==
    ASSUME IInv, NEW via \in Via, NEW changes \in SUBSET [at : Nat, change : Change],
           Edit(via, changes)
    PROVE  IInv'
<1> DEFINE act == Plan("edit", via, changes)
<1>1. /\ act \in Act /\ act.kind = "edit" /\ act.via = via /\ act.undoOf = None
  BY DEF Plan, Act, Kind
<1>2. Begin(<<act>>) /\ Editable /\ (category = "paper" => via = "ui")
  BY DEF Edit, DirectEdit, Via
<1> HIDE DEF act
<1>3. QED  BY <1>1, <1>2, BeginKeeps

LEMMA EditOneKeeps == ASSUME IInv, NEW x \in Change, EditOne(x) PROVE IInv'
<1>1. {At(1, x)} \in SUBSET [at : Nat, change : Change]
  BY DEF At
<1>2. QED  BY <1>1, EditKeeps DEF EditOne, Via

LEMMA EditCardsKeeps == ASSUME IInv, NEW e \in EditRequests, EditCards(e) PROVE IInv'
<1> DEFINE chosen == IF e.commanders = None THEN <<>> ELSE e.commanders
           arriving(c) == \E i \in DOMAIN e.add : e.add[i].card = c
           n == Len(ByName)
           demoted == {i \in 1 .. n : /\ e.commanders # None
                                      /\ ByName[i] \in Zone("commander")
                                      /\ \A j \in DOMAIN chosen : chosen[j] # ByName[i]}
           crowned == [i \in DOMAIN chosen |->
                          IF InDeck(chosen[i]) \/ arriving(chosen[i])
                          THEN Become(chosen[i], "commander")
                          ELSE Add(chosen[i], 1, Keep, {Keep}, "commander", None)]
           rest == e.remove \o e.add \o crowned
           changes == {At(i, Become(ByName[i], "card")) : i \in demoted}
                      \cup {At(n + i, rest[i]) : i \in DOMAIN rest}
<1>1. e.remove \in Seq(Change) /\ e.add \in Seq(Change) /\ chosen \in Seq(Card)
      /\ ByName \in Seq(Card) /\ n \in Nat
  BY DataAssumption
<1>2. crowned \in Seq(Change)
  <2>1. 1 \in Nat \ {0} /\ Keep \in {None, Keep} \cup Slot /\ {Keep} \in SUBSET (Slot \cup {Keep})
        /\ "commander" \in Role
    BY DEF Role
  <2>2. \A c \in Card : /\ Become(c, "commander") \in Change
                        /\ Add(c, 1, Keep, {Keep}, "commander", None) \in Change
    BY <2>1, MadeChanges
  <2> HIDE DEF chosen, arriving
  <2>3. DOMAIN chosen = 1 .. Len(chosen) /\ Len(chosen) \in Nat
        /\ \A i \in DOMAIN chosen : chosen[i] \in Card
    BY <1>1
  <2>4. \A i \in DOMAIN chosen : crowned[i] \in Change
    BY <2>2, <2>3
  <2>5. crowned \in [1 .. Len(chosen) -> Change]
    BY <2>3, <2>4
  <2> HIDE DEF crowned
  <2>6. QED  BY <2>3, <2>5
<1>3. rest \in Seq(Change)
  <2> HIDE DEF crowned, chosen
  <2>1. QED  BY <1>1, <1>2
<1>4. \A i \in demoted : At(i, Become(ByName[i], "card")) \in [at : Nat, change : Change]
  BY <1>1, MadeChanges DEF At, Role
<1>5. \A i \in DOMAIN rest : At(n + i, rest[i]) \in [at : Nat, change : Change]
  <2> HIDE DEF rest, n
  <2>1. QED  BY <1>1, <1>3 DEF At
<1>6. changes \in SUBSET [at : Nat, change : Change]
  BY <1>4, <1>5
<1>7. Edit("agent", changes)
  BY DEF EditCards
<1> HIDE DEF changes
<1>8. QED  BY <1>6, <1>7, EditKeeps DEF Via

\* The reversal of a log entry is made of changes.
LEMMA ReversalFacts ==
    ASSUME TypeOK, NEW cards \in Seq(LogCard)
    PROVE  ReversalOf(cards) \in SUBSET [at : Nat, change : Change]
<1> DEFINE n == Len(cards)
           change(k) == IF k <= n THEN InverseOf(cards[n + 1 - k])
                        ELSE IF k <= 2 * n THEN Demotion(cards[2 * n + 1 - k])
                        ELSE Promotion(cards[3 * n + 1 - k])
<1>1. n \in Nat /\ DOMAIN cards = 1 .. n /\ \A i \in 1 .. n : cards[i] \in LogCard
  OBVIOUS
<1>2. ASSUME NEW r \in LogCard PROVE InverseOf(r) \in {None} \cup Change
  <2>1. /\ r.card \in Card /\ r.quantity \in Nat \ {0}
        /\ r.action = "cut" => r.slot \in {None} \cup Slot /\ r.secondary \in SUBSET Slot
    BY LogCardFacts
  <2>2. 1 \in Nat /\ TRUE \in BOOLEAN /\ FALSE \in BOOLEAN /\ "card" \in Role /\ r.quantity \in Nat
        /\ Keep \in {None, Keep} \cup Slot /\ {Keep} \in SUBSET (Slot \cup {Keep})
    BY <2>1 DEF Role
  <2>3. Cut(r.card, 1, TRUE, None) \in Change /\ Cut(r.card, r.quantity, FALSE, None) \in Change
    BY <2>1, <2>2, MadeChanges
  <2>4. Add(r.card, r.quantity, Keep, {Keep}, "card", None) \in Change
    BY <2>1, <2>2, MadeChanges
  <2>5. ASSUME r.action = "cut"
        PROVE  Add(r.card, r.quantity, IF r.slot \in Live THEN r.slot ELSE None,
                   (r.secondary \cap Live) \ {r.slot}, "card", None) \in Change
    <3>1. (IF r.slot \in Live THEN r.slot ELSE None) \in {None, Keep} \cup Slot
      BY DEF Live
    <3>2. (r.secondary \cap Live) \ {r.slot} \in SUBSET (Slot \cup {Keep})
      BY DEF Live
    <3>3. QED  BY <2>1, <2>2, <3>1, <3>2, MadeChanges
  <2>6. QED  BY <2>3, <2>4, <2>5 DEF InverseOf
<1>3. ASSUME NEW r \in LogCard PROVE RoleBack(r) \in {None} \cup Change
  <2>1. /\ r.card \in Card /\ (r.action = "cut" => r.role \in Role)
        /\ (r.action = "role" => r.from \in Role)
    BY LogCardFacts
  <2>2. QED  BY <2>1, MadeChanges DEF RoleBack
<1>4. \A r \in LogCard : Demotion(r) \in {None} \cup Change /\ Promotion(r) \in {None} \cup Change
  BY <1>3 DEF Demotion, Promotion
<1>5. \A k \in 1 .. 3 * n : change(k) \in {None} \cup Change
  <2> TAKE k \in 1 .. 3 * n
  <2>1. CASE k <= n
    <3>1. n + 1 - k \in 1 .. n
      BY <1>1, <2>1
    <3>2. QED  BY <1>1, <1>2, <2>1, <3>1
  <2>2. CASE ~(k <= n) /\ k <= 2 * n
    <3>1. 2 * n + 1 - k \in 1 .. n
      BY <1>1, <2>2
    <3>2. QED  BY <1>1, <1>4, <2>2, <3>1
  <2>3. CASE ~(k <= n) /\ ~(k <= 2 * n)
    <3>1. 3 * n + 1 - k \in 1 .. n
      BY <1>1, <2>3
    <3>2. QED  BY <1>1, <1>4, <2>3, <3>1
  <2>4. QED  BY <2>1, <2>2, <2>3
<1>6. ReversalOf(cards) = {At(k, change(k)) : k \in {j \in 1 .. 3 * n : change(j) # None}}
  BY DEF ReversalOf
<1> HIDE DEF change
<1>7. \A k \in {j \in 1 .. 3 * n : change(j) # None} :
         At(k, change(k)) \in [at : Nat, change : Change]
  BY <1>1, <1>5 DEF At
<1>8. QED  BY <1>6, <1>7

LEMMA UndoKeeps == ASSUME IInv, NEW i \in DOMAIN log, Undo(i) PROVE IInv'
<1> DEFINE plan == Plan("undo", "ui", ReversalOf(log[i].cards))
           act == [plan EXCEPT !.undoOf = i]
<1>1. Editable /\ Undoable(i) /\ Begin(<<act>>)
  BY DEF Undo
<1>2. log[i] \in Entry /\ log[i].kind \notin {"reject", "undo"} /\ i \in Nat
      /\ log[i].undoneBy = None
  BY <1>1 DEF IInv, TypeOK, Undoable
<1>3. log[i].cards \in Seq(LogCard)
  BY <1>2 DEF Entry, Entries
<1>4. ReversalOf(log[i].cards) \in SUBSET [at : Nat, change : Change]
  BY <1>3, ReversalFacts DEF IInv
<1>5. act \in Act /\ act.kind = "undo" /\ act.via = "ui" /\ act.undoOf = i
  BY <1>2, <1>4 DEF Plan, Act, Kind, Via
<1> HIDE DEF act
<1>6. QED  BY <1>1, <1>2, <1>5, BeginKeeps

LEMMA RequestKeeps == ASSUME IInv, Request PROVE IInv'
<1>1. 1 \in Nat \ {0} /\ 0 \in Nat /\ TRUE \in BOOLEAN /\ FALSE \in BOOLEAN /\ "card" \in Role
      /\ Keep \in {None, Keep} \cup Slot /\ {Keep} \in SUBSET (Slot \cup {Keep})
      /\ Copies \subseteq Nat \ {0}
  BY DataAssumption DEF Role
<1>2. ASSUME NEW c \in Card, NEW q \in Copies, NEW s \in Live \cup {Keep}, NEW r \in Role,
             AddCard(c, q, s, r)
      PROVE  IInv'
  <2>1. s \in {None, Keep} \cup Slot
    BY DEF Live
  <2>2. Add(c, q, s, {Keep}, r, None) \in Change
    BY <1>1, <2>1, MadeChanges
  <2>3. QED  BY <1>2, <2>2, EditOneKeeps DEF AddCard
<1>3. ASSUME NEW c \in Card, RemoveCard(c) PROVE IInv'
  <2>1. Cut(c, All, FALSE, None) \in Change
    BY <1>1, MadeChanges DEF All
  <2>2. QED  BY <1>3, <2>1, EditOneKeeps DEF RemoveCard
<1>4. ASSUME NEW c \in Card, MoveCard(c) PROVE IInv'
  <2>1. Cut(c, 1, TRUE, None) \in Change /\ Add(c, 1, Keep, {Keep}, "card", None) \in Change
    BY <1>1, MadeChanges
  <2>2. QED  BY <1>4, <2>1, EditOneKeeps DEF MoveCard
<1>5. ASSUME NEW c \in Card, NEW r \in Role, SetRole(c, r) PROVE IInv'
  BY <1>5, MadeChanges, EditOneKeeps DEF SetRole
<1>6. ASSUME NEW c \in Card, NEW q \in Copies, SetQuantity(c, q) PROVE IInv'
  <2> DEFINE have == rows[c].quantity
  <2>1. InDeck(c) /\ q # have /\ q \in Nat /\ have \in Nat
    BY <1>1, <1>6, RowFacts DEF IInv, SetQuantity, InDeck
  <2>2. CASE q > have
    <3>1. q - have \in Nat \ {0}
      BY <2>1, <2>2
    <3>2. Add(c, q - have, Keep, {Keep}, "card", None) \in Change
      BY <1>1, <3>1, MadeChanges
    <3>3. QED  BY <1>6, <2>2, <3>2, EditOneKeeps DEF SetQuantity
  <2>3. CASE ~(q > have)
    <3>1. have - q \in Nat
      BY <2>1, <2>3
    <3>2. Cut(c, have - q, FALSE, None) \in Change
      BY <1>1, <3>1, MadeChanges
    <3>3. QED  BY <1>6, <2>3, <3>2, EditOneKeeps DEF SetQuantity
  <2>4. QED  BY <2>2, <2>3
<1>7. QED
  BY <1>2, <1>3, <1>4, <1>5, <1>6, EditCardsKeeps, UndoKeeps DEF Request

-----------------------------------------------------------------------------
(* The theorems *)

LEMMA InitIsSound == Init => IInv
<1> SUFFICES ASSUME Init PROVE IInv
  OBVIOUS
<1>1. /\ log = <<>> /\ acts = <<>> /\ logged = <<>> /\ saved = None /\ revision = 0
      /\ identity = {} /\ category \in Category /\ slots = [s \in Slot |-> "unmade"]
      /\ rows = [c \in Card |-> None] /\ Idle
  BY DEF Init, Idle
<1>2. TypeOK
  BY <1>1 DEF TypeOK, Present
<1>3. \A r : Holding(rows, r) = {}
  BY <1>1 DEF Holding
<1>4. CommandZoneFits /\ IdentityFollows
  <2>1. Cardinality({}) = 0
    BY FS_EmptySet
  <2>2. Holding(rows, "commander") = {} /\ Holding(rows, "companion") = {}
    BY <1>3
  <2>3. Fits(rows)
    <3>1. \A c \in Card : rows[c] = None
      BY <1>1
    <3>2. /\ Cardinality(Holding(rows, "commander")) = 0
          /\ Cardinality(Holding(rows, "companion")) = 0
      BY <2>1, <2>2
    <3>3. QED  BY <3>1, <3>2 DEF Fits
  <2>4. QED  BY <1>1, <2>2, <2>3 DEF CommandZoneFits, IdentityFollows, Zone
<1>5. RevisionCountsTheLog
  <2>1. Changing(log) = {}
    BY <1>1 DEF Changing
  <2>2. QED  BY <1>1, <2>1, FS_EmptySet DEF RevisionCountsTheLog, Counted
<1>6. UndoneOnce /\ SavedIsSound /\ ActsAreSound /\ RequestIsLawful
  BY <1>1 DEF UndoneOnce, Linked, SavedIsSound, ActsAreSound, RequestIsLawful
<1>7. QED  BY <1>2, <1>4, <1>5, <1>6 DEF IInv

LEMMA StutterKeeps == IInv /\ UNCHANGED vars => IInv'
  BY DEF IInv, vars, deck, running, TypeOK, Idle, Present, Assignable, Live, CommandZoneFits,
         RevisionCountsTheLog, UndoneOnce, SavedIsSound, IdentityFollows, Zone, ActsAreSound,
         RequestIsLawful, Editable

LEMMA NextKeeps == IInv /\ [Next]_vars => IInv'
<1> SUFFICES ASSUME IInv, [Next]_vars PROVE IInv'
  OBVIOUS
<1>1. CASE Request
  BY <1>1, RequestKeeps
<1>2. CASE Organisation
  BY <1>2, OrganisationKeeps
<1>3. CASE Working
  BY <1>3, ApplyAddKeeps, ApplyCutKeeps, ApplyRoleKeeps, RefuseKeeps, LandKeeps, CrashKeeps
     DEF Working
<1>4. CASE UNCHANGED vars
  BY <1>4, StutterKeeps
<1>5. QED  BY <1>1, <1>2, <1>3, <1>4 DEF Next

\* The inductive invariant holds in every state the deck reaches, in the middle
\* of a request too (applyChanges, withTransaction, undo and the organisation).
THEOREM Invariance == Spec => []IInv
<1>1. Init => IInv
  BY InitIsSound
<1>2. IInv /\ [Next]_vars => IInv'
  BY NextKeeps
<1>3. QED  BY <1>1, <1>2, PTL DEF Spec

\* The deck always has its type: no cut takes the last copy and leaves the row,
\* and no card is filed in a slot that was deleted (applyCut, deleteSlot).
THEOREM TypeCorrect == Spec => []TypeOK
<1>1. IInv => TypeOK
  BY DEF IInv
<1>2. QED  BY <1>1, Invariance, PTL

\* The command zone keeps its caps, however many cards, changes and undos there
\* are, and the deck's identity is that of its commanders (assertRoleCapacity,
\* recomputeIdentity).
THEOREM CommandZoneAlwaysFits == Spec => []CommandZoneFits
<1>1. IInv => CommandZoneFits
  BY DEF IInv
<1>2. QED  BY <1>1, Invariance, PTL

\* Every revision has its log entry and every entry its revision (applyChanges).
THEOREM EveryRevisionIsLogged == Spec => []RevisionCountsTheLog
<1>1. IInv => RevisionCountsTheLog
  BY DEF IInv
<1>2. QED  BY <1>1, Invariance, PTL

\* No entry is undone twice, and no undo is undone (undo).
THEOREM NothingUndoneTwice == Spec => []UndoneOnce
<1>1. IInv => UndoneOnce
  BY DEF IInv
<1>2. QED  BY <1>1, Invariance, PTL

\* An archived deck is read-only, a request on it included: none is running
\* (requireEditableDeck, setDeckCategory).
THEOREM ArchivedStaysFrozen == Spec => ArchivedIsFrozen
<1>1. IInv /\ [Next]_vars => [category = "archived" => UNCHANGED <<slots, deck, running>>]_vars
  <2> SUFFICES ASSUME IInv, Next, category = "archived"
               PROVE  UNCHANGED <<slots, deck, running>>
    OBVIOUS
  <2>1. ~Editable /\ Idle
    BY DEF IInv, RequestIsLawful, Editable
  <2>2. ~Request
    BY <2>1 DEF Request, AddCard, RemoveCard, MoveCard, SetRole, SetQuantity, EditOne,
                EditCards, Edit, DirectEdit, Undo
  <2>3. ~Working
    BY <2>1 DEF Working, ApplyAdd, ApplyCut, ApplyRole, Refuse, Land, Crash, Applying
  <2>4. Organisation
    BY <2>2, <2>3 DEF Next
  <2>5. PICK new \in Category : SetDeckCategory(new)
    BY <2>1, <2>4 DEF Organisation, CreateSlot, DeleteSlot, OrganizeCard, ShortlistCard,
                      UnshortlistCard, Organising
  <2>6. QED  BY <2>5 DEF SetDeckCategory
<1>2. QED  BY <1>1, Invariance, PTL DEF Spec, ArchivedIsFrozen

\* A landed request that changed the deck's cards was one its category allows,
\* and left a revision and log entries of its author.
LEMMA LandingIsLawful ==
    ASSUME IInv, Land, Idle', Cards(rows) # Cards(saved.rows),
           ~(logged = <<>> /\ acts[1].kind = "undo")
    PROVE  /\ rows' = rows /\ revision' > saved.revision /\ Len(log') > Len(saved.log)
           /\ category # "archived"
           /\ category = "paper" => \A i \in Len(saved.log) + 1 .. Len(log') : log'[i].via = "ui"
<1>1. /\ ~Idle /\ revision \in Nat /\ log \in Seq(Entry) /\ Len(log) \in Nat
      /\ saved.revision \in Nat /\ Len(saved.log) \in Nat /\ 1 \in DOMAIN acts
  BY DEF Land, IInv, TypeOK, Deck, Idle
<1>2. /\ category # "archived" /\ (category = "paper" => acts[1].via = "ui")
      /\ category = "paper" => \A i \in Len(saved.log) + 1 .. Len(log) : log[i].via = "ui"
      /\ saved.revision <= revision /\ Len(saved.log) <= Len(log)
      /\ saved.revision < revision => Len(saved.log) < Len(log)
      /\ saved.revision < revision \/ logged # <<>>
  BY <1>1 DEF IInv, RequestIsLawful, Editable
<1>3. CASE logged = <<>>
  <2>1. rows' = rows /\ revision' = revision /\ log' = log
    BY <1>3 DEF Land
  <2>2. QED  BY <1>1, <1>2, <1>3, <2>1
<1>4. CASE logged # <<>>
  <2>1. /\ rows' = rows /\ revision' = revision + 1
        /\ log' = Append(Marked(acts[1]), EntryOf(acts[1]))
    BY <1>4 DEF Land
  <2>2. /\ Len(log') = Len(log) + 1
        /\ \A i \in 1 .. Len(log) : log'[i].via = log[i].via
        /\ log'[Len(log) + 1] = EntryOf(acts[1])
    BY <1>1, <2>1, LandedLog
  <2>3. ASSUME category = "paper", NEW i \in Len(saved.log) + 1 .. Len(log')
        PROVE  log'[i].via = "ui"
    <3>1. CASE i = Len(log) + 1
      BY <1>2, <2>2, <2>3, <3>1 DEF EntryOf
    <3>2. CASE i \in Len(saved.log) + 1 .. Len(log)
      <4>1. i \in 1 .. Len(log)
        BY <1>1, <3>2
      <4>2. QED  BY <1>2, <2>2, <2>3, <3>2, <4>1
    <3>3. QED  BY <1>1, <2>2, <3>1, <3>2
  <2>4. QED  BY <1>1, <1>2, <2>1, <2>2, <2>3
<1>5. QED  BY <1>3, <1>4

\* What a step may do to the cards a reader sees.
LawfulStep ==
    Cards(Committed.rows)' # Cards(Committed.rows) =>
       /\ Committed'.revision > Committed.revision
       /\ Len(Committed'.log) > Len(Committed.log)
       /\ category # "archived"
       /\ category = "paper" => \A i \in Len(Committed.log) + 1 .. Len(Committed'.log) :
                                    Committed'.log[i].via = "ui"

LEMMA StepIsLawful == ASSUME IInv, IInv', Next PROVE LawfulStep
<1> USE DEF LawfulStep
<1>1. /\ Idle => Committed.rows = rows
      /\ ~Idle => Committed = saved
      /\ Idle' => Committed' = [rows |-> rows', revision |-> revision',
                                identity |-> identity', log |-> log']
      /\ ~Idle' => Committed' = saved'
  BY DEF Committed
<1>2. Cards(Committed.rows)' = Cards(Committed'.rows)
  BY DEF Cards
<1>3. CASE Request
  <2>1. PICK plan : Begin(plan)
    BY <1>3 DEF Request, AddCard, RemoveCard, MoveCard, SetRole, SetQuantity, EditOne,
                EditCards, Edit, Undo
  <2>2. Committed'.rows = Committed.rows
    BY <1>1, <2>1 DEF Begin, Idle
  <2>3. QED  BY <1>2, <2>2
<1>4. CASE Organisation
  <2>1. Idle /\ Idle' /\ SameCards(rows', rows)
    BY <1>4, OrganisationKeeps DEF Organisation, CreateSlot, DeleteSlot, OrganizeCard,
       ShortlistCard, UnshortlistCard, SetDeckCategory, Organising, running, Idle
  <2>2. Cards(rows') = Cards(rows)
    BY <2>1, SameCardsFacts
  <2>3. QED  BY <1>1, <1>2, <2>1, <2>2
<1>5. CASE ApplyAdd \/ ApplyCut \/ ApplyRole
  <2>1. Applying /\ Applied
    BY <1>5 DEF ApplyAdd, ApplyCut, ApplyRole
  <2>2. ~Idle /\ ~Idle' /\ saved' = saved
    BY <2>1, AppliedFacts DEF IInv, Applying, Applied
  <2>3. QED  BY <1>1, <1>2, <2>2
<1>6. ASSUME Restore, ~Idle PROVE LawfulStep
  <2>1. Idle' /\ rows' = saved.rows
    BY <1>6 DEF Restore, Done, Idle
  <2>2. Committed'.rows = Committed.rows
    BY <1>1, <1>6, <2>1
  <2>3. QED  BY <1>2, <2>2
<1>7. CASE Refuse \/ Crash
  BY <1>6, <1>7 DEF Refuse, Crash, Applying
<1>8. CASE Land
  <2>1. CASE logged = <<>> /\ acts[1].kind = "undo"
    BY <1>6, <1>8, <2>1 DEF Land
  <2>2. CASE ~(logged = <<>> /\ acts[1].kind = "undo")
    <3>1. ~Idle /\ rows' = rows /\ saved' = IF Idle' THEN None ELSE saved
      BY <1>8, <2>2 DEF Land, Idle
    <3>2. CASE ~Idle'
      BY <1>1, <1>2, <3>1, <3>2
    <3>3. CASE Idle'
      <4>1. SUFFICES ASSUME Cards(Committed.rows)' # Cards(Committed.rows) PROVE LawfulStep
        OBVIOUS
      <4>2. Cards(rows) # Cards(saved.rows)
        BY <1>1, <1>2, <3>1, <3>3, <4>1
      <4>3. /\ revision' > saved.revision /\ Len(log') > Len(saved.log)
            /\ category # "archived"
            /\ category = "paper" =>
                  \A i \in Len(saved.log) + 1 .. Len(log') : log'[i].via = "ui"
        BY <1>8, <2>2, <3>3, <4>2, LandingIsLawful
      <4>4. QED  BY <1>1, <3>1, <3>3, <4>3
    <3>4. QED  BY <3>2, <3>3
  <2>3. QED  BY <2>1, <2>2
<1>9. QED  BY <1>3, <1>4, <1>5, <1>7, <1>8 DEF Next, Working

\* The permission rule holds of whole requests: whatever changed the deck's cards
\* was logged, on a deck that was not archived, and on a Paper deck by the owner
\* (requireDirectCardEdit, requireEditableDeck, applyChanges).
THEOREM CardsChangeLawfully == Spec => CardsChangeByTheRules
<1>1. IInv /\ IInv' /\ [Next]_vars => [LawfulStep]_vars
  BY StepIsLawful
<1>2. CardsChangeByTheRules <=> [][LawfulStep]_vars
  BY PTL DEF CardsChangeByTheRules, LawfulStep
<1>3. QED  BY <1>1, <1>2, Invariance, PTL DEF Spec

-----------------------------------------------------------------------------
(* DeckMembership implements DeckLedger: whatever a request applies, is    *)
(* refused or loses to a crash on the way, a reader of the deck sees one   *)
(* act or none.                                                            *)

\* The four parts of the deck a reader sees.
LEMMA ReaderSees ==
    /\ Idle => /\ Committed.rows = rows /\ Committed.revision = revision
               /\ Committed.identity = identity /\ Committed.log = log
    /\ ~Idle => Committed = saved
  BY DEF Committed

\* Both modules count, and count the same cards.
LEMMA SameCardinality == \A S : Ledger!Cardinality(S) = Cardinality(S)
  BY DEF Ledger!Cardinality, Cardinality

LEMMA SameSeats == \A r, role : Ledger!Holding(r, role) = Holding(r, role)
  BY DEF Ledger!Holding, Ledger!InDeck, Holding

LEMMA SameCardsSameDeck ==
    ASSUME NEW r, NEW q, SameCards(r, q) PROVE Ledger!SameDeck(q, r)
  BY DEF SameCards, Ledger!SameDeck, Ledger!InDeck

-----------------------------------------------------------------------------
(* A request is a single act *)

LEMMA OneActHolds ==
    ASSUME IInv, IInv', OneAct, [Next]_vars PROVE OneAct'
<1>1. CASE Request
  <2>1. PICK act : Begin(<<act>>)
    BY <1>1 DEF Request, AddCard, RemoveCard, MoveCard, SetRole, SetQuantity, EditOne,
                EditCards, Edit, Undo
  <2>2. /\ acts' = <<act>> /\ logged' = <<>>
        /\ saved' = [rows |-> rows, revision |-> revision, identity |-> identity, log |-> log]
        /\ rows' = rows /\ revision' = revision /\ identity' = identity /\ log' = log
    BY <2>1 DEF Begin, deck
  <2>3. QED  BY <2>2 DEF OneAct
<1>2. CASE Organisation
  <2>1. Idle'
    BY <1>2 DEF Organisation, CreateSlot, DeleteSlot, OrganizeCard, ShortlistCard,
                UnshortlistCard, SetDeckCategory, Organising, running, Idle
  <2>2. QED  BY <2>1 DEF OneAct
<1>3. CASE ApplyAdd \/ ApplyCut \/ ApplyRole
  <2>1. Applying /\ Applied
    BY <1>3 DEF ApplyAdd, ApplyCut, ApplyRole
  <2>2. /\ ~Idle /\ Len(acts') = Len(acts)
        /\ UNCHANGED <<revision, identity, log, saved>>
    BY <2>1, AppliedFacts DEF IInv, Applying, Applied
  <2>3. logged' = <<>> => logged = <<>> /\ rows' = rows
    <3>1. logged \in Seq(LogCard)
      BY DEF IInv, TypeOK
    <3>2. \A x : Append(logged, x) # <<>>
      BY <3>1
    <3>3. CASE ApplyAdd \/ ApplyCut
      BY <3>2, <3>3 DEF ApplyAdd, ApplyCut
    <3>4. CASE ApplyRole
      <4>1. Current \in Change
        BY <2>1, FirstFacts DEF IInv
      <4>2. rows \in [Card -> {None} \cup Row] /\ Current.card \in Card
        BY <4>1, ChangeFacts DEF IInv, TypeOK
      <4>3. InDeck(Current.card)
        BY <3>4 DEF ApplyRole, Applicable
      <4>4. rows[Current.card] \in Row
        BY <4>2, <4>3 DEF InDeck, Present
      <4>5. Current.role = rows[Current.card].role =>
               [rows EXCEPT ![Current.card].role = Current.role] = rows
        BY <4>2, <4>4 DEF Row
      <4>6. QED  BY <3>2, <3>4, <4>5 DEF ApplyRole
    <3>5. QED  BY <1>3, <3>3, <3>4
  <2>4. QED  BY <2>2, <2>3 DEF OneAct
<1>4. CASE Refuse \/ Crash
  <2>1. Idle'
    BY <1>4 DEF Refuse, Crash, Restore, Done, Idle
  <2>2. QED  BY <2>1 DEF OneAct
<1>5. CASE Land
  <2>1. ~Idle /\ (Restore \/ acts' = Tail(acts))
    BY <1>5 DEF Land
  <2>2. CASE Restore
    BY <2>2 DEF Restore, Done, Idle, OneAct
  <2>3. CASE acts' = Tail(acts)
    <3>1. Idle'
      BY <2>1, <2>3, RestFacts DEF IInv, OneAct
    <3>2. QED  BY <3>1 DEF OneAct
  <2>4. QED  BY <2>1, <2>2, <2>3
<1>6. CASE UNCHANGED vars
  BY <1>6 DEF vars, deck, running, OneAct, Idle
<1>7. QED  BY <1>1, <1>2, <1>3, <1>4, <1>5, <1>6 DEF Next, Working

-----------------------------------------------------------------------------
(* What each step is to a reader *)

\* What begins, goes on or is taken back changes nothing.
LEMMA UnseenSteps ==
    ASSUME IInv, Request \/ ApplyAdd \/ ApplyCut \/ ApplyRole \/ (~Idle /\ Restore)
    PROVE  UNCHANGED Ledger!lvars
<1>1. CASE Request
  <2>1. PICK act : Begin(<<act>>)
    BY <1>1 DEF Request, AddCard, RemoveCard, MoveCard, SetRole, SetQuantity, EditOne,
                EditCards, Edit, Undo
  <2>2. /\ Idle /\ acts' = <<act>> /\ category' = category /\ slots' = slots
        /\ saved' = [rows |-> rows, revision |-> revision, identity |-> identity, log |-> log]
    BY <2>1 DEF Begin
  <2>3. Committed' = Committed
    BY <2>2 DEF Committed, Idle
  <2>4. QED  BY <2>2, <2>3 DEF Ledger!lvars
<1>2. CASE ApplyAdd \/ ApplyCut \/ ApplyRole
  <2>1. Applying /\ Applied
    BY <1>2 DEF ApplyAdd, ApplyCut, ApplyRole
  <2>2. ~Idle /\ ~Idle' /\ saved' = saved /\ category' = category /\ slots' = slots
    BY <2>1, AppliedFacts DEF IInv, Applying, Applied
  <2>3. Committed' = Committed
    BY <2>2 DEF Committed
  <2>4. QED  BY <2>2, <2>3 DEF Ledger!lvars
<1>3. CASE ~Idle /\ Restore
  <2>1. /\ Idle' /\ category' = category /\ slots' = slots
        /\ rows' = saved.rows /\ revision' = saved.revision
        /\ identity' = saved.identity /\ log' = saved.log
    BY <1>3 DEF Restore, Done, Idle
  <2>2. /\ (Committed.rows)' = Committed.rows /\ (Committed.revision)' = Committed.revision
        /\ (Committed.identity)' = Committed.identity /\ (Committed.log)' = Committed.log
    BY <1>3, <2>1 DEF Committed
  <2>3. QED  BY <2>1, <2>2 DEF Ledger!lvars
<1>4. QED  BY <1>1, <1>2, <1>3

\* The organisation of a deck is Organise, or Classify.
LEMMA OrganisationIsSeen ==
    ASSUME IInv, Organisation PROVE Ledger!Next
<1>1. Idle /\ Idle' /\ SameCards(rows', rows) /\ UNCHANGED <<revision, identity, log>>
  BY OrganisationKeeps
     DEF Organisation, CreateSlot, DeleteSlot, OrganizeCard, ShortlistCard, UnshortlistCard,
         SetDeckCategory, Organising, running, deck, Idle
<1>2. /\ Committed.rows = rows /\ (Committed.rows)' = rows'
      /\ Committed.revision = revision /\ (Committed.revision)' = revision
      /\ Committed.identity = identity /\ (Committed.identity)' = identity
      /\ Committed.log = log /\ (Committed.log)' = log
  BY <1>1 DEF Committed
<1>3. CASE \E new \in Category : SetDeckCategory(new)
  <2>1. Ledger!Classify
    BY <1>2, <1>3 DEF SetDeckCategory, deck, Ledger!Classify, Category
  <2>2. QED  BY <2>1 DEF Ledger!Next
<1>4. CASE ~\E new \in Category : SetDeckCategory(new)
  <2>1. Editable /\ category' = category
    BY <1>4 DEF Organisation, CreateSlot, DeleteSlot, OrganizeCard, ShortlistCard,
                UnshortlistCard, Organising
  <2>2. \A s \in Slot : slots[s] = "deleted" => slots'[s] = "deleted"
    <3>1. slots \in [Slot -> {"unmade", "live", "deleted"}]
      BY DEF IInv, TypeOK
    <3>2. QED
      BY <1>4, <3>1 DEF Organisation, CreateSlot, DeleteSlot, OrganizeCard, ShortlistCard,
                        UnshortlistCard, Live
  <2>3. Ledger!SameDeck(rows, rows')
    BY <1>1, SameCardsSameDeck
  <2>4. Ledger!Organise
    BY <1>2, <2>1, <2>2, <2>3 DEF Ledger!Organise, Editable
  <2>5. QED  BY <2>4 DEF Ledger!Next
<1>5. QED  BY <1>3, <1>4

\* The landing of an act is Act.
LEMMA LandingIsSeen ==
    ASSUME IInv, IInv', OneAct, Land PROVE Ledger!Next \/ UNCHANGED Ledger!lvars
<1>1. ~Idle /\ Len(acts) = 1 /\ 1 \in DOMAIN acts /\ acts[1] \in Act
  BY DEF Land, OneAct, IInv, TypeOK, Idle
<1>2. CASE logged = <<>> /\ acts[1].kind = "undo"
  BY <1>1, <1>2, UnseenSteps DEF Land
<1>3. CASE ~(logged = <<>> /\ acts[1].kind = "undo")
  <2>1. /\ acts' = Tail(acts) /\ rows' = rows /\ category' = category /\ slots' = slots
    BY <1>3 DEF Land
  <2>2. Idle'
    BY <1>1, <2>1, RestFacts DEF IInv
  <2>3. /\ Committed.rows = saved.rows /\ (Committed.rows)' = rows'
        /\ Committed.revision = saved.revision /\ (Committed.revision)' = revision'
        /\ Committed.identity = saved.identity /\ (Committed.identity)' = identity'
        /\ Committed.log = saved.log /\ (Committed.log)' = log'
    BY <1>1, <2>2 DEF Committed
  <2>4. saved.revision = revision /\ saved.identity = identity /\ saved.log = log
    BY <1>1 DEF OneAct
  <2>5. CASE logged = <<>>
    <3>1. saved.rows = rows /\ revision' = revision /\ identity' = identity /\ log' = log
      BY <1>1, <1>3, <2>5 DEF OneAct, Land
    <3>2. QED  BY <2>1, <2>3, <2>4, <3>1 DEF Ledger!lvars
  <2>6. CASE logged # <<>>
    <3> DEFINE undone == acts[1].undoOf
               z == Len(log) + 1
    <3>1. /\ revision' = revision + 1 /\ log' = Append(Marked(acts[1]), EntryOf(acts[1]))
      BY <2>6 DEF Land
    <3>2. /\ Len(log') = z /\ log'[z] = EntryOf(acts[1])
          /\ \A i \in 1 .. Len(log) :
                log'[i] = IF i = undone THEN [log[i] EXCEPT !.undoneBy = z] ELSE log[i]
      BY <1>1, <3>1, LandedLog
    <3>3. DOMAIN log = 1 .. Len(log)
      BY DEF IInv, TypeOK
    <3>4. /\ undone \in {None} \cup DOMAIN log
          /\ undone # None => log[undone].undoneBy = None /\ log[undone].kind # "undo"
      BY <1>1 DEF IInv, ActsAreSound
    <3>5. category # "archived" /\ (category = "paper" => acts[1].via = "ui")
      BY <1>1 DEF IInv, RequestIsLawful, Editable
    <3>6. /\ log'[z].undoOf = undone /\ log'[z].revision = revision'
          /\ log'[z].via = acts[1].via
      BY <3>1, <3>2 DEF EntryOf
    <3>7. /\ Cardinality(Holding(rows', "commander")) <= 2
          /\ Cardinality(Holding(rows', "companion")) <= 1
          /\ identity' = Holding(rows', "commander")
      BY <2>2 DEF IInv, CommandZoneFits, Fits, Zone
    <3> HIDE DEF undone, z
    <3>8. Ledger!Act(undone)
      <4>1. \A i \in DOMAIN log :
               log'[i] = IF i = undone THEN [log[i] EXCEPT !.undoneBy = Len(log')] ELSE log[i]
        BY <3>2, <3>3
      <4>2. Len(log') = Len(log) + 1
        BY <3>2 DEF z
      <4>3. /\ Ledger!Cardinality(Ledger!Holding(rows', "commander")) <= 2
            /\ Ledger!Cardinality(Ledger!Holding(rows', "companion")) <= 1
            /\ identity' = Ledger!Holding(rows', "commander")
        BY <3>7, SameSeats, SameCardinality
      <4>4. /\ log'[Len(log')].undoOf = undone /\ log'[Len(log')].revision = revision'
            /\ category = "paper" => log'[Len(log')].via = "ui"
        BY <3>2, <3>5, <3>6
      <4>5. /\ Committed.revision = revision /\ (Committed.revision)' = revision'
            /\ Committed.log = log /\ (Committed.log)' = log'
            /\ (Committed.rows)' = rows' /\ (Committed.identity)' = identity'
        BY <2>3, <2>4
      <4>6. /\ category # "archived" /\ UNCHANGED <<category, slots>>
            /\ revision' = revision + 1
        BY <2>1, <3>1, <3>5
      <4>7. undone # None => log[undone].undoneBy = None /\ log[undone].kind # "undo"
        BY <3>4
      <4>8. QED  BY <4>1, <4>2, <4>3, <4>4, <4>5, <4>6, <4>7 DEF Ledger!Act
    <3>9. QED  BY <2>3, <2>4, <3>4, <3>8 DEF Ledger!Next
  <2>7. QED  BY <2>5, <2>6
<1>4. QED  BY <1>2, <1>3

-----------------------------------------------------------------------------

\* Every request is one act to its readers, or none: the steps in which
\* applyChanges works, fails or is lost under its savepoint implement a deck that
\* changes act by act (applyChanges, withTransaction).
THEOREM DeckImplementsLedger == Spec => RequestsAreAtomic
<1>1. Init => Ledger!Init
  <2> SUFFICES ASSUME Init PROVE Ledger!Init
    OBVIOUS
  <2>1. Idle
    BY DEF Init, Idle
  <2>2. QED  BY <2>1, ReaderSees DEF Init, Ledger!Init, Category
<1>2. Init => OneAct
  BY DEF Init, OneAct, Idle
<1>3. IInv /\ IInv' /\ OneAct /\ [Next]_vars => OneAct'
  BY OneActHolds
<1>4. IInv /\ IInv' /\ OneAct /\ [Next]_vars => [Ledger!Next]_(Ledger!lvars)
  <2> SUFFICES ASSUME IInv, IInv', OneAct, [Next]_vars
               PROVE  Ledger!Next \/ UNCHANGED Ledger!lvars
    OBVIOUS
  <2>1. CASE Request \/ ApplyAdd \/ ApplyCut \/ ApplyRole
    BY <2>1, UnseenSteps
  <2>2. CASE Refuse \/ Crash
    BY <2>2, UnseenSteps DEF Refuse, Crash, Applying
  <2>3. CASE Land
    BY <2>3, LandingIsSeen
  <2>4. CASE Organisation
    BY <2>4, OrganisationIsSeen
  <2>5. CASE UNCHANGED vars
    BY <2>5 DEF vars, deck, running, Ledger!lvars, Committed, Idle
  <2>6. QED  BY <2>1, <2>2, <2>3, <2>4, <2>5 DEF Next, Working
<1>5. Spec => []IInv
  BY Invariance
<1>6. QED  BY <1>1, <1>2, <1>3, <1>4, <1>5, PTL DEF Spec, RequestsAreAtomic, Ledger!Spec
=============================================================================
