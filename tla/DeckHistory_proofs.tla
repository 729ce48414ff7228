-------------------------- MODULE DeckHistory_proofs --------------------------
(***************************************************************************)
(* That undo restores and that the log accounts for the deck, for every    *)
(* set of cards and slots and every request: each log entry says what it   *)
(* made of every card, its reversal brings card by card back what was      *)
(* there, and the copies the entries moved add up to those the deck holds. *)
(***************************************************************************)
EXTENDS DeckHistoryInvariant, DeckMembership_proofs

-----------------------------------------------------------------------------
(* Rows *)

LEMMA RowIs ==
    ASSUME NEW x \in Row
    PROVE  /\ x = [maybe |-> x.maybe, quantity |-> x.quantity, role |-> x.role, slot |-> x.slot,
                   secondary |-> x.secondary]
           /\ x # None /\ x.maybe \in BOOLEAN /\ x.quantity \in Nat \ {0} /\ x.role \in Role
           /\ x.slot \in {None} \cup Slot /\ x.secondary \in SUBSET Slot
  BY DataAssumption DEF Row

LEMMA KeptIs ==
    ASSUME NEW x \in Row
    PROVE  Kept(x) = [maybe |-> x.maybe, quantity |-> x.quantity, role |-> x.role,
                      slot |-> IF ~x.maybe /\ x.slot \in Live THEN x.slot ELSE None,
                      secondary |-> IF x.maybe THEN {} ELSE x.secondary \cap Live]
<1>1. x # None
  BY RowIs
<1>2. CASE x.maybe
  BY <1>1, <1>2 DEF Kept, Row
<1>3. CASE ~x.maybe
  <2>1. Kept(x) = [x EXCEPT !.slot = IF @ \in Live THEN @ ELSE None, !.secondary = @ \cap Live]
    BY <1>1, <1>3 DEF Kept
  <2>2. QED  BY <1>3, <2>1 DEF Row
<1>4. QED  BY <1>2, <1>3

-----------------------------------------------------------------------------
(* The log row of an applied change says what it did *)

LEMMA AddedIsRow ==
    ASSUME IInv, NEW a \in Change, a.action = "add", Addable(a)
    PROVE  Added(a) \in Row
<1>1. a.card \in Card /\ a.quantity \in Nat \ {0} /\ a.role \in Role
  BY ChangeFacts
<1>2. PrimaryFor(a) \in {None} \cup Slot /\ SecondaryFor(a) \in SUBSET Slot
  BY DEF Addable, Assignable, Live
<1>3. CASE Present(a.card)
  <2>1. rows[a.card] \in Row
    BY <1>1, <1>3, RowFacts DEF IInv
  <2>2. CASE Shortlisted(a.card)
    BY <1>1, <1>2, <2>1, <2>2 DEF Added, Row
  <2>3. CASE ~Shortlisted(a.card)
    <3>1. Added(a) = [rows[a.card] EXCEPT !.quantity = @ + a.quantity]
      BY <1>3, <2>3 DEF Added, Shortlisted, InDeck
    <3>2. QED  BY <1>1, <2>1, <3>1 DEF Row
  <2>4. QED  BY <2>2, <2>3
<1>4. CASE ~Present(a.card)
  <2>1. Added(a) = [maybe |-> FALSE, quantity |-> a.quantity, role |-> a.role,
                    slot |-> PrimaryFor(a), secondary |-> SecondaryFor(a)]
    BY <1>4 DEF Added, Shortlisted, InDeck
  <2>2. QED  BY <1>1, <1>2, <2>1 DEF Row
<1>5. QED  BY <1>3, <1>4

LEMMA AddDid ==
    ASSUME IInv, ApplyAdd
    PROVE  \E r \in LogCard : /\ logged' = Append(logged, r) /\ r.card = Current.card
                              /\ rows' = [rows EXCEPT ![r.card] = Added(Current)]
                              /\ Did(r, rows[r.card], Added(Current))
<1> DEFINE a == Current
           r == [action |-> "add", card |-> a.card, quantity |-> a.quantity, item |-> a.item,
                 wasMaybe |-> Shortlisted(a.card)]
<1>1. /\ a \in Change /\ a.action = "add" /\ Addable(a) /\ logged' = Append(logged, r)
      /\ rows' = [rows EXCEPT ![a.card] = Added(a)]
  BY FirstFacts DEF ApplyAdd, IInv
<1>2. a.card \in Card /\ a.quantity \in Nat \ {0} /\ a.item \in {None} \cup Item
  BY <1>1, ChangeFacts
<1>3. r \in LogCard /\ r.card = a.card /\ r.action = "add" /\ r.quantity = a.quantity
      /\ r.wasMaybe = Shortlisted(a.card)
  BY <1>2 DEF LogCard, Shortlisted
<1> HIDE DEF a, r
<1>4. Did(r, rows[a.card], Added(a))
  <2>1. CASE Shortlisted(a.card)
    <3>1. rows[a.card] \in Row /\ rows[a.card] # None /\ rows[a.card].maybe
      BY <1>2, <2>1, RowFacts DEF IInv, Shortlisted, Present
    <3>2. Added(a) = [rows[a.card] EXCEPT !.maybe = FALSE, !.quantity = a.quantity,
                         !.role = IF a.role = "card" THEN @ ELSE a.role,
                         !.slot = PrimaryFor(a), !.secondary = SecondaryFor(a)]
      BY <2>1 DEF Added
    <3>3. ~Added(a).maybe /\ Added(a).quantity = a.quantity
      BY <3>1, <3>2 DEF Row
    <3>4. Added(a) # None
      BY <1>1, AddedIsRow, RowIs
    <3>5. QED  BY <1>3, <2>1, <3>1, <3>3, <3>4 DEF Did
  <2>2. CASE InDeck(a.card)
    <3>1. rows[a.card] \in Row /\ rows[a.card] # None /\ ~rows[a.card].maybe
      BY <1>2, <2>2, RowFacts DEF IInv, InDeck, Present
    <3>2. Added(a) = [rows[a.card] EXCEPT !.quantity = @ + a.quantity]
      BY <2>2 DEF Added, Shortlisted, InDeck
    <3>3. Added(a) \in Row /\ ~Added(a).maybe
      BY <1>2, <3>1, <3>2 DEF Row
    <3>4. Added(a) # None
      BY <3>3, RowIs
    <3>5. QED  BY <1>3, <2>2, <3>1, <3>2, <3>3, <3>4 DEF Did, Shortlisted, InDeck
  <2>3. CASE ~Present(a.card)
    <3>1. Added(a) = [maybe |-> FALSE, quantity |-> a.quantity, role |-> a.role,
                      slot |-> PrimaryFor(a), secondary |-> SecondaryFor(a)]
      BY <2>3 DEF Added, Shortlisted, InDeck
    <3>2. ~Added(a).maybe /\ Added(a).quantity = a.quantity
      BY <3>1
    <3>3. Added(a) # None
      BY <1>1, AddedIsRow, RowIs
    <3>4. QED  BY <1>3, <2>3, <3>2, <3>3 DEF Did, Shortlisted, Present
  <2>4. QED  BY <2>1, <2>2, <2>3 DEF Shortlisted, InDeck
<1>5. QED  BY <1>1, <1>3, <1>4 DEF a

LEMMA CutDid ==
    ASSUME IInv, ApplyCut
    PROVE  \E r \in LogCard : /\ logged' = Append(logged, r) /\ r.card = Current.card
                              /\ rows' = [rows EXCEPT ![r.card] = CutTo(Current)]
                              /\ Did(r, rows[r.card], CutTo(Current))
<1> DEFINE c == Current
           old == rows[c.card]
           r == [action |-> "cut", card |-> c.card, quantity |-> Taken(c), item |-> c.item,
                 slot |-> old.slot, secondary |-> old.secondary, role |-> old.role,
                 parked |-> c.park]
<1>1. /\ c \in Change /\ c.action = "cut" /\ InDeck(c.card) /\ logged' = Append(logged, r)
      /\ rows' = [rows EXCEPT ![c.card] = CutTo(c)]
  BY FirstFacts DEF ApplyCut, IInv
<1>2. /\ c.card \in Card /\ c.quantity \in Nat /\ c.park \in BOOLEAN /\ c.item \in {None} \cup Item
  BY <1>1, ChangeFacts
<1>3. old \in Row /\ old # None /\ ~old.maybe
  BY <1>1, <1>2, RowFacts DEF IInv, InDeck, Present
<1>4. Taken(c) \in 1 .. old.quantity /\ old.quantity \in Nat \ {0}
  BY <1>2, <1>3, RowIs DEF Taken, All
<1>5. /\ r \in LogCard /\ r.card = c.card /\ r.action = "cut" /\ r.quantity = Taken(c)
      /\ r.slot = old.slot /\ r.secondary = old.secondary /\ r.role = old.role /\ r.parked = c.park
  <2>1. old.slot \in {None} \cup Slot /\ old.secondary \in SUBSET Slot /\ old.role \in Role
    BY <1>3, RowIs
  <2>2. Taken(c) \in Nat \ {0}
    BY <1>4
  <2>3. QED  BY <1>2, <2>1, <2>2 DEF LogCard
<1>6. Did(r, old, CutTo(c))
  <2>1. CASE c.park
    <3>1. Taken(c) = old.quantity
      BY <2>1 DEF Taken
    <3>2. QED  BY <1>3, <1>5, <2>1, <3>1 DEF Did, CutTo
  <2>2. CASE ~c.park /\ Taken(c) = old.quantity
    BY <1>3, <1>5, <2>2 DEF Did, CutTo
  <2>3. CASE ~c.park /\ Taken(c) # old.quantity
    BY <1>3, <1>4, <1>5, <2>3 DEF Did, CutTo
  <2>4. QED  BY <2>1, <2>2, <2>3
<1>7. QED  BY <1>1, <1>5, <1>6

LEMMA RoleDid ==
    ASSUME IInv, ApplyRole
    PROVE  LET y == [rows[Current.card] EXCEPT !.role = Current.role] IN
           /\ rows' = [rows EXCEPT ![Current.card] = y]
           /\ \/ logged' = logged /\ rows' = rows
              \/ \E r \in LogCard : /\ logged' = Append(logged, r) /\ r.card = Current.card
                                    /\ Did(r, rows[r.card], y)
<1> DEFINE c == Current.card
           old == rows[c]
           y == [old EXCEPT !.role = Current.role]
           r == [action |-> "role", card |-> c, quantity |-> old.quantity, from |-> old.role]
<1>1. /\ Current \in Change /\ Current.action = "role" /\ InDeck(c)
      /\ rows' = [rows EXCEPT ![c].role = Current.role]
      /\ logged' = IF Current.role = old.role THEN logged ELSE Append(logged, r)
  BY FirstFacts DEF ApplyRole, Applicable, IInv
<1>2. c \in Card /\ Current.role \in Role /\ rows \in [Card -> {None} \cup Row]
  BY <1>1, ChangeFacts DEF IInv, TypeOK
<1>3. old \in Row /\ old # None /\ ~old.maybe /\ old.quantity \in Nat \ {0} /\ old.role \in Role
  BY <1>1, <1>2, RowFacts DEF IInv, InDeck, Present
<1>4. rows' = [rows EXCEPT ![c] = y]
  BY <1>1, <1>2, <1>3 DEF Row
<1>5. y \in Row /\ ~y.maybe /\ y.role = Current.role
  BY <1>2, <1>3 DEF Row
<1>6. y # None
  BY <1>5, RowIs
<1>7. CASE Current.role = old.role
  <2>1. y = old
    BY <1>3, <1>7 DEF Row
  <2>2. QED  BY <1>1, <1>2, <1>4, <1>7, <2>1
<1>8. CASE Current.role # old.role
  <2>1. r \in LogCard
    BY <1>2, <1>3 DEF LogCard
  <2>2. Did(r, old, y)
    BY <1>3, <1>5, <1>6, <1>8 DEF Did
  <2>3. QED  BY <1>1, <1>4, <1>8, <2>1, <2>2
<1>9. QED  BY <1>7, <1>8

-----------------------------------------------------------------------------
(* A log entry explains the rows after it by the rows before it *)

\* One more logged row explains one more changed row.
LEMMA ExplainsMore ==
    ASSUME NEW cards \in Seq(LogCard), NEW r \in LogCard, NEW b, NEW a, NEW y, NEW a2,
           DOMAIN a = Card, a2 = [a EXCEPT ![r.card] = y],
           Explains(cards, b, a), Did(r, a[r.card], y)
    PROVE  Explains(Append(cards, r), b, a2)
<1> DEFINE more == Append(cards, r)
           n == Len(cards) + 1
<1>1. /\ DOMAIN cards = 1 .. Len(cards) /\ Len(cards) \in Nat /\ DOMAIN more = 1 .. n
      /\ more[n] = r /\ \A i \in DOMAIN cards : more[i] = cards[i]
      /\ r.card \in Card
  BY LogCardFacts
<1>2. n \in DOMAIN more /\ n \notin DOMAIN cards /\ DOMAIN more = DOMAIN cards \cup {n}
  BY <1>1
<1> HIDE DEF more, n
<1> SUFFICES ASSUME OnceEach(more), NEW c \in Card
             PROVE  \/ a2[c] = b[c] /\ \A i \in DOMAIN more : more[i].card # c
                    \/ \E i \in DOMAIN more : more[i].card = c /\ Did(more[i], b[c], a2[c])
  BY DEF Explains, more
<1>3. OnceEach(cards)
  BY <1>1, <1>2 DEF OnceEach
<1>4. \/ a[c] = b[c] /\ \A i \in DOMAIN cards : cards[i].card # c
      \/ \E i \in DOMAIN cards : cards[i].card = c /\ Did(cards[i], b[c], a[c])
  BY <1>3 DEF Explains
<1>5. CASE c = r.card
  <2>1. \A i \in DOMAIN cards : cards[i].card # c
    BY <1>1, <1>2, <1>5 DEF OnceEach
  <2>2. a[c] = b[c] /\ a2[c] = y
    BY <1>1, <1>4, <1>5, <2>1
  <2>3. QED  BY <1>1, <1>2, <1>5, <2>2
<1>6. CASE c # r.card
  <2>1. a2[c] = a[c]
    BY <1>6
  <2>2. QED  BY <1>1, <1>2, <1>4, <1>6, <2>1
<1>7. QED  BY <1>5, <1>6

\* Nothing logged explains that nothing changed.
LEMMA NothingExplains == \A r : Explains(<<>>, r, r)
  BY DEF Explains

\* The rows a savepoint holds are rows as they are between requests.
LEMMA SavedIsPlain == ASSUME IInv, ~Idle PROVE Plain(saved.rows)
<1>1. saved.rows \in [Card -> {None} \cup Row]
  BY DEF IInv, TypeOK, Deck
<1>2. QED  BY <1>1 DEF IInv, SavedIsSound, Fits, Plain, Assignable

\* The running act's log rows explain what it has changed so far.
LEMMA ApplyingExplains ==
    ASSUME IInv, LastIsExplained, ApplyAdd \/ ApplyCut \/ ApplyRole, last' = last
    PROVE  LastIsExplained'
<1>1. Applying /\ Applied /\ ~Idle
  BY DEF ApplyAdd, ApplyCut, ApplyRole, Applying
<1>2. log' = log /\ saved' = saved
  BY <1>1 DEF Applied
<1>3. DOMAIN rows = Card /\ logged \in Seq(LogCard) /\ Explains(logged, saved.rows, rows)
  BY <1>1 DEF IInv, TypeOK, LastIsExplained
<1>4. Explains(logged', saved.rows, rows')
  <2>1. CASE ApplyAdd
    <3>1. PICK r \in LogCard : /\ logged' = Append(logged, r)
                               /\ rows' = [rows EXCEPT ![r.card] = Added(Current)]
                               /\ Did(r, rows[r.card], Added(Current))
      BY <2>1, AddDid
    <3>2. QED  BY <1>3, <3>1, ExplainsMore
  <2>2. CASE ApplyCut
    <3>1. PICK r \in LogCard : /\ logged' = Append(logged, r)
                               /\ rows' = [rows EXCEPT ![r.card] = CutTo(Current)]
                               /\ Did(r, rows[r.card], CutTo(Current))
      BY <2>2, CutDid
    <3>2. QED  BY <1>3, <3>1, ExplainsMore
  <2>3. CASE ApplyRole
    <3> DEFINE y == [rows[Current.card] EXCEPT !.role = Current.role]
    <3>1. /\ rows' = [rows EXCEPT ![Current.card] = y]
          /\ \/ logged' = logged /\ rows' = rows
             \/ \E r \in LogCard : /\ logged' = Append(logged, r) /\ r.card = Current.card
                                   /\ Did(r, rows[r.card], y)
      BY <2>3, RoleDid
    <3> HIDE DEF y
    <3>2. CASE logged' = logged /\ rows' = rows
      BY <1>3, <3>2
    <3>3. CASE \E r \in LogCard : /\ logged' = Append(logged, r) /\ r.card = Current.card
                                  /\ Did(r, rows[r.card], y)
      BY <1>3, <3>1, <3>3, ExplainsMore
    <3>4. QED  BY <3>1, <3>2, <3>3
  <2>4. QED  BY <2>1, <2>2, <2>3
<1>5. QED  BY <1>2, <1>4 DEF LastIsExplained, Newest

\* A request that begins has nothing to explain.
LEMMA BeginningExplains ==
    ASSUME IInv, LastIsExplained, NEW plan, Begin(plan), last' = last
    PROVE  LastIsExplained'
<1>1. /\ rows' = rows /\ log' = log /\ logged' = <<>>
      /\ saved' = [rows |-> rows, revision |-> revision, identity |-> identity, log |-> log]
  BY DEF Begin, deck
<1>2. Explains(logged', saved'.rows, rows')
  BY <1>1, NothingExplains
<1>3. QED  BY <1>1, <1>2 DEF LastIsExplained, Newest

\* A request that lands leaves its savepoint and its rows as the newest entry's.
LEMMA LandingExplains ==
    ASSUME IInv, OneAct, LastIsExplained, Land,
           last' = IF Len(log') > Len(log) THEN [before |-> saved.rows, after |-> rows] ELSE last
    PROVE  LastIsExplained' /\ Idle' /\ rows' = (IF logged = <<>> THEN saved.rows ELSE rows)
<1>1. ~Idle /\ Len(log) \in Nat /\ saved.log = log /\ (logged = <<>> => saved.rows = rows)
  BY DEF Land, IInv, TypeOK, OneAct
<1>2. Idle'
  <2>1. CASE acts' = Tail(acts)
    BY <1>1, <2>1, RestFacts DEF IInv, OneAct
  <2>2. CASE Restore
    BY <2>2 DEF Restore, Done, Idle
  <2>3. QED  BY <2>1, <2>2 DEF Land
<1>3. CASE logged = <<>>
  <2>1. log' = log /\ rows' = rows
    BY <1>1, <1>3 DEF Land, Restore
  <2>2. QED  BY <1>1, <1>2, <1>3, <2>1 DEF LastIsExplained, Newest
<1>4. CASE logged # <<>>
  <2>1. log' = Append(Marked(acts[1]), EntryOf(acts[1])) /\ rows' = rows
    BY <1>4 DEF Land
  <2>2. log' \in Seq(Entry) /\ Len(log') = Len(log) + 1 /\ log'[Len(log) + 1] = EntryOf(acts[1])
    BY <1>1, <2>1, LandedLog
  <2>3. last' = [before |-> saved.rows, after |-> rows]
    BY <1>1, <2>2
  <2>4. log'[Len(log')].cards = logged
    BY <2>2 DEF EntryOf
  <2>5. Plain(saved.rows) /\ Explains(logged, saved.rows, rows)
    BY <1>1, SavedIsPlain DEF LastIsExplained
  <2>6. last' \in [{"before", "after"} -> [Card -> {None} \cup Row]]
    <3>1. saved.rows \in [Card -> {None} \cup Row] /\ rows \in [Card -> {None} \cup Row]
      BY <2>5 DEF Plain, IInv, TypeOK
    <3>2. QED  BY <2>3, <3>1
  <2>7. Plain(last'.before) /\ Explains(log'[Len(log')].cards, last'.before, last'.after)
    BY <2>3, <2>4, <2>5
  <2>8. QED  BY <1>2, <1>4, <2>1, <2>6, <2>7 DEF LastIsExplained, Newest
<1>5. QED  BY <1>3, <1>4

-----------------------------------------------------------------------------
(* What the reversal of a log row is, by what the row says *)

\* A change is something.
LEMMA ChangeIsSome == \A x \in Change : x # None
  BY DataAssumption

LEMMA AtFacts == \A k, y : At(k, y).at = k /\ At(k, y).change = y
  BY DEF At

\* Which cards the reversal of a row is about.
LEMMA ReversalIsAboutTheCard ==
    ASSUME NEW r
    PROVE  /\ InverseOf(r) # None => InverseOf(r).card = r.card
           /\ Demotion(r) # None => Demotion(r).card = r.card
           /\ Promotion(r) # None => Promotion(r).card = r.card
<1>1. InverseOf(r) # None => InverseOf(r).card = r.card
  BY DEF InverseOf, Cut, Add
<1>2. RoleBack(r) # None => RoleBack(r).card = r.card
  BY DEF RoleBack, Become
<1>3. QED  BY <1>1, <1>2 DEF Demotion, Promotion

\* An added card that is still in the deck is parked again or taken out.
LEMMA AddedGoesOut ==
    ASSUME NEW i, Newest[i] \in LogCard, Newest[i].action = "add", InDeck(Newest[i].card)
    PROVE  WholeReversal(i) = {At(Len(Newest) + 1 - i,
                                  IF Newest[i].wasMaybe THEN Cut(Newest[i].card, 1, TRUE, None)
                                  ELSE Cut(Newest[i].card, Newest[i].quantity, FALSE, None))}
<1> DEFINE r == Newest[i]
           x == IF r.wasMaybe THEN Cut(r.card, 1, TRUE, None)
                ELSE Cut(r.card, r.quantity, FALSE, None)
<1>1. r.card \in Card /\ r.quantity \in Nat
  BY LogCardFacts
<1>2. x \in Change
  BY <1>1, MadeChanges
<1> HIDE DEF x
<1>3. InverseOf(r) = x
  BY DEF InverseOf, x
<1>4. Demotion(r) = None /\ Promotion(r) = None
  BY DEF Demotion, Promotion, RoleBack
<1>5. x # None
  BY <1>2, ChangeIsSome
<1>6. WholeReversal(i) = {At(Len(Newest) + 1 - i, x)}
  BY <1>3, <1>4, <1>5, AtFacts DEF WholeReversal
<1>7. QED  BY <1>6 DEF x

\* A cut card comes back, and then into its role if it has to be added anew.
LEMMA CutComesBack ==
    ASSUME NEW i, Newest[i] \in LogCard, Newest[i].action = "cut",
           InDeck(Newest[i].card) => ~Newest[i].parked
    PROVE  LET r == Newest[i]
               n == Len(Newest)
           IN WholeReversal(i) =
                 {At(n + 1 - i,
                     IF Present(r.card) THEN Add(r.card, r.quantity, Keep, {Keep}, "card", None)
                     ELSE Add(r.card, r.quantity, IF r.slot \in Live THEN r.slot ELSE None,
                              (r.secondary \cap Live) \ {r.slot}, "card", None))}
                 \cup (IF ~InDeck(r.card) /\ r.role # "card"
                       THEN {At(3 * n + 1 - i, Become(r.card, r.role))} ELSE {})
<1> DEFINE r == Newest[i]
           x == IF Present(r.card) THEN Add(r.card, r.quantity, Keep, {Keep}, "card", None)
                ELSE Add(r.card, r.quantity, IF r.slot \in Live THEN r.slot ELSE None,
                         (r.secondary \cap Live) \ {r.slot}, "card", None)
<1>1. /\ r.card \in Card /\ r.quantity \in Nat \ {0} /\ r.role \in Role
      /\ r.slot \in {None} \cup Slot /\ r.secondary \in SUBSET Slot
  BY LogCardFacts
<1>2. x \in Change
  <2>1. (IF r.slot \in Live THEN r.slot ELSE None) \in {None, Keep} \cup Slot
    BY DEF Live
  <2>2. (r.secondary \cap Live) \ {r.slot} \in SUBSET (Slot \cup {Keep})
    BY DEF Live
  <2>3. Keep \in {None, Keep} \cup Slot /\ {Keep} \in SUBSET (Slot \cup {Keep}) /\ "card" \in Role
    BY DEF Role
  <2>4. QED  BY <1>1, <2>1, <2>2, <2>3, MadeChanges
<1>3. InverseOf(r) = x
  BY DEF InverseOf
<1>4. RoleBack(r) = IF ~InDeck(r.card) /\ r.role # "card" THEN Become(r.card, r.role) ELSE None
  BY DEF RoleBack
<1>5. Become(r.card, r.role) # None /\ Become(r.card, r.role).role = r.role
  BY <1>1, MadeChanges, ChangeIsSome DEF Become
<1>6. /\ Demotion(r) = None
      /\ Promotion(r) = IF ~InDeck(r.card) /\ r.role # "card" THEN Become(r.card, r.role) ELSE None
  BY <1>4, <1>5 DEF Demotion, Promotion
<1>7. x # None
  BY <1>2, ChangeIsSome
<1> HIDE DEF x
<1>8. WholeReversal(i) = {At(Len(Newest) + 1 - i, x)}
                         \cup (IF ~InDeck(r.card) /\ r.role # "card"
                               THEN {At(3 * Len(Newest) + 1 - i, Become(r.card, r.role))} ELSE {})
  BY <1>3, <1>5, <1>6, <1>7, AtFacts DEF WholeReversal
<1>9. QED  BY <1>8 DEF x

\* A card in the deck gets back the role it had.
LEMMA RoleComesBack ==
    ASSUME NEW i, Newest[i] \in LogCard, Newest[i].action = "role", InDeck(Newest[i].card)
    PROVE  \E k : WholeReversal(i) = {At(k, Become(Newest[i].card, Newest[i].from))}
<1> DEFINE r == Newest[i]
<1>1. r.card \in Card /\ r.from \in Role
  BY LogCardFacts
<1>2. Become(r.card, r.from) # None /\ Become(r.card, r.from).role = r.from
  BY <1>1, MadeChanges, ChangeIsSome DEF Become
<1>3. InverseOf(r) = None /\ RoleBack(r) = Become(r.card, r.from)
  BY DEF InverseOf, RoleBack
<1>4. /\ Demotion(r) = IF r.from = "card" THEN Become(r.card, r.from) ELSE None
      /\ Promotion(r) = IF r.from = "card" THEN None ELSE Become(r.card, r.from)
  BY <1>2, <1>3 DEF Demotion, Promotion
<1>5. CASE r.from = "card"
  <2>1. WholeReversal(i) = {At(2 * Len(Newest) + 1 - i, Become(r.card, r.from))}
    BY <1>2, <1>3, <1>4, <1>5, AtFacts DEF WholeReversal
  <2>2. QED  BY <2>1
<1>6. CASE r.from # "card"
  <2>1. WholeReversal(i) = {At(3 * Len(Newest) + 1 - i, Become(r.card, r.from))}
    BY <1>2, <1>3, <1>4, <1>6, AtFacts DEF WholeReversal
  <2>2. QED  BY <2>1
<1>7. QED  BY <1>5, <1>6

-----------------------------------------------------------------------------
(* While the newest entry is undone *)

\* The newest entry, while it is being undone.
LEMMA NewestFacts ==
    ASSUME IInv, Reversing
    PROVE  /\ Len(log) \in DOMAIN log /\ log # <<>> /\ Newest \in Seq(LogCard)
           /\ Len(Newest) \in Nat /\ DOMAIN Newest = 1 .. Len(Newest)
           /\ \A i \in DOMAIN Newest : Newest[i] \in LogCard /\ i \in 1 .. Len(Newest)
<1>1. acts # <<>> /\ acts \in Seq(Act) /\ 1 \in DOMAIN acts
  BY DEF IInv, TypeOK, Reversing, Idle
<1>2. Len(log) \in DOMAIN log /\ log[Len(log)].kind \notin {"undo", "reject"}
  BY <1>1 DEF IInv, ActsAreSound, Reversing
<1>3. log[Len(log)] \in Entry
  BY <1>2 DEF IInv, TypeOK
<1>4. Newest \in Seq(LogCard)
  BY <1>2, <1>3 DEF Newest, Entry, Entries
<1>5. QED  BY <1>2, <1>4

\* A card that one of its rows names changed as that row says.
LEMMA NewestDid ==
    ASSUME IInv, LastIsExplained, Reversing, OnceEach(Newest), NEW i \in DOMAIN Newest
    PROVE  Did(Newest[i], last.before[Newest[i].card], last.after[Newest[i].card])
<1>1. Newest[i].card \in Card /\ Explains(Newest, last.before, last.after)
  BY NewestFacts, LogCardFacts DEF LastIsExplained
<1>2. PICK j \in DOMAIN Newest : /\ Newest[j].card = Newest[i].card
                                 /\ Did(Newest[j], last.before[Newest[i].card],
                                        last.after[Newest[i].card])
  BY <1>1 DEF Explains
<1>3. j = i
  BY <1>2 DEF OnceEach
<1>4. QED  BY <1>2, <1>3

\* There is something to reverse for each row.
LEMMA WholeReversalIsSome ==
    ASSUME IInv, LastIsExplained, Reversing, OnceEach(Newest), NEW i \in DOMAIN Newest,
           rows[Newest[i].card] = last.after[Newest[i].card]
    PROVE  WholeReversal(i) # {}
<1> DEFINE r == Newest[i]
<1>1. r \in LogCard /\ Did(r, last.before[r.card], rows[r.card])
  BY NewestFacts, NewestDid
<1> HIDE DEF r
<1>2. CASE r.action = "add"
  <2>1. InDeck(r.card)
    BY <1>1, <1>2 DEF Did, InDeck, Present
  <2>2. QED  BY <1>1, <1>2, <2>1, AddedGoesOut DEF r
<1>3. CASE r.action = "cut"
  <2>1. last.before[r.card] \in Row /\ r.card \in Card
    BY <1>1, <1>3, NewestFacts, LogCardFacts DEF Did, LastIsExplained, Plain
  <2>2. InDeck(r.card) => ~r.parked
    BY <1>1, <1>3, <2>1 DEF Did, InDeck, Present, Row
  <2>3. QED  BY <1>1, <1>3, <2>2, CutComesBack DEF r
<1>4. CASE r.action = "role"
  <2>1. last.before[r.card] \in Row /\ r.card \in Card
    BY <1>1, <1>4, NewestFacts, LogCardFacts DEF Did, LastIsExplained, Plain
  <2>2. InDeck(r.card)
    BY <1>1, <1>4, <2>1 DEF Did, InDeck, Present, Row
  <2>3. QED  BY <1>1, <1>4, <2>2, RoleComesBack DEF r
<1>5. QED  BY <1>1, <1>2, <1>3, <1>4, LogCardFacts

\* The part of the whole reversal that is about one card.
LEMMA ReversalByCard ==
    ASSUME Newest \in Seq(LogCard), OnceEach(Newest), NEW c \in Card
    PROVE  /\ \A j \in DOMAIN Newest : Newest[j].card = c =>
                 {x \in ReversalOf(Newest) : x.change.card = c} = WholeReversal(j)
           /\ (\A j \in DOMAIN Newest : Newest[j].card # c) =>
                 {x \in ReversalOf(Newest) : x.change.card = c} = {}
<1> DEFINE n == Len(Newest)
           change(k) == IF k <= n THEN InverseOf(Newest[n + 1 - k])
                        ELSE IF k <= 2 * n THEN Demotion(Newest[2 * n + 1 - k])
                        ELSE Promotion(Newest[3 * n + 1 - k])
           some == {k \in 1 .. 3 * n : change(k) # None}
           row(k) == IF k <= n THEN n + 1 - k ELSE IF k <= 2 * n THEN 2 * n + 1 - k
                     ELSE 3 * n + 1 - k
<1>1. n \in Nat /\ DOMAIN Newest = 1 .. n
  OBVIOUS
<1>2. ReversalOf(Newest) = {At(k, change(k)) : k \in some}
  BY DEF ReversalOf
<1>3. \A k \in some : row(k) \in 1 .. n /\ change(k).card = Newest[row(k)].card
  <2> SUFFICES ASSUME NEW k \in 1 .. 3 * n, change(k) # None
               PROVE  row(k) \in 1 .. n /\ change(k).card = Newest[row(k)].card
    OBVIOUS
  <2>1. CASE k <= n
    BY <1>1, <2>1, ReversalIsAboutTheCard
  <2>2. CASE ~(k <= n) /\ k <= 2 * n
    BY <1>1, <2>2, ReversalIsAboutTheCard
  <2>3. CASE ~(k <= n) /\ ~(k <= 2 * n)
    BY <1>1, <2>3, ReversalIsAboutTheCard
  <2>4. QED  BY <2>1, <2>2, <2>3
<1>4. \A j \in 1 .. n :
         /\ n + 1 - j \in 1 .. 3 * n /\ change(n + 1 - j) = InverseOf(Newest[j])
         /\ 2 * n + 1 - j \in 1 .. 3 * n /\ change(2 * n + 1 - j) = Demotion(Newest[j])
         /\ 3 * n + 1 - j \in 1 .. 3 * n /\ change(3 * n + 1 - j) = Promotion(Newest[j])
         /\ \A k \in 1 .. 3 * n : row(k) = j =>
               k = n + 1 - j \/ k = 2 * n + 1 - j \/ k = 3 * n + 1 - j
  <2> TAKE j \in 1 .. n
  <2>1. /\ n + 1 - j \in 1 .. 3 * n /\ n + 1 - j <= n /\ n + 1 - (n + 1 - j) = j
        /\ 2 * n + 1 - j \in 1 .. 3 * n /\ ~(2 * n + 1 - j <= n) /\ 2 * n + 1 - j <= 2 * n
        /\ 2 * n + 1 - (2 * n + 1 - j) = j
        /\ 3 * n + 1 - j \in 1 .. 3 * n /\ ~(3 * n + 1 - j <= n) /\ ~(3 * n + 1 - j <= 2 * n)
        /\ 3 * n + 1 - (3 * n + 1 - j) = j
    BY <1>1
  <2>2. \A k \in 1 .. 3 * n : row(k) = j =>
           k = n + 1 - j \/ k = 2 * n + 1 - j \/ k = 3 * n + 1 - j
    BY <1>1
  <2> HIDE DEF n
  <2>3. QED  BY <2>1, <2>2
<1> HIDE DEF n, change, row, some
<1>5. ASSUME NEW j \in DOMAIN Newest, Newest[j].card = c
      PROVE  {x \in ReversalOf(Newest) : x.change.card = c} = WholeReversal(j)
  <2>1. j \in 1 .. n
    BY <1>1
  <2>2. WholeReversal(j) = {x \in {At(n + 1 - j, change(n + 1 - j)),
                                   At(2 * n + 1 - j, change(2 * n + 1 - j)),
                                   At(3 * n + 1 - j, change(3 * n + 1 - j))} : x.change # None}
    BY <1>4, <2>1 DEF WholeReversal, n
  <2>3. ASSUME NEW k \in some, change(k).card = c
        PROVE  k \in {n + 1 - j, 2 * n + 1 - j, 3 * n + 1 - j}
    <3>1. row(k) = j
      BY <1>1, <1>3, <1>5, <2>3 DEF OnceEach
    <3>2. QED  BY <1>4, <2>1, <3>1 DEF some
  <2>4. \A k \in {n + 1 - j, 2 * n + 1 - j, 3 * n + 1 - j} :
           k \in 1 .. 3 * n /\ (change(k) # None => k \in some /\ change(k).card = c)
    <3>1. \A k \in {n + 1 - j, 2 * n + 1 - j, 3 * n + 1 - j} : k \in 1 .. 3 * n
      BY <1>4, <2>1
    <3>2. /\ change(n + 1 - j) # None => change(n + 1 - j).card = c
          /\ change(2 * n + 1 - j) # None => change(2 * n + 1 - j).card = c
          /\ change(3 * n + 1 - j) # None => change(3 * n + 1 - j).card = c
      BY <1>4, <1>5, <2>1, ReversalIsAboutTheCard
    <3>3. QED  BY <3>1, <3>2 DEF some
  <2>5. \A k \in some : change(k) # None
    BY DEF some
  <2>6. {x \in ReversalOf(Newest) : x.change.card = c}
           = {At(k, change(k)) : k \in {m \in some : change(m).card = c}}
    BY <1>2, AtFacts
  <2>7. {m \in some : change(m).card = c}
           = {k \in {n + 1 - j, 2 * n + 1 - j, 3 * n + 1 - j} : change(k) # None}
    BY <2>3, <2>4, <2>5
  <2>8. WholeReversal(j) = {At(k, change(k)) :
            k \in {m \in {n + 1 - j, 2 * n + 1 - j, 3 * n + 1 - j} : change(m) # None}}
    BY <2>2, AtFacts
  <2>9. QED  BY <2>6, <2>7, <2>8
<1>6. ASSUME \A j \in DOMAIN Newest : Newest[j].card # c
      PROVE  {x \in ReversalOf(Newest) : x.change.card = c} = {}
  BY <1>1, <1>2, <1>3, <1>6, AtFacts
<1>7. QED  BY <1>5, <1>6

\* A row's reversal depends on the row, the card it names and the slots.
LEMMA WholeReversalStays ==
    ASSUME log' = log, slots' = slots, NEW i,
           rows'[Newest[i].card] = rows[Newest[i].card]
    PROVE  WholeReversal(i)' = WholeReversal(i)
<1>1. ASSUME NEW r, rows'[r.card] = rows[r.card]
      PROVE  /\ InverseOf(r)' = InverseOf(r)
             /\ Demotion(r)' = Demotion(r) /\ Promotion(r)' = Promotion(r)
  <2>1. /\ InDeck(r.card)' = InDeck(r.card) /\ Present(r.card)' = Present(r.card)
        /\ Live' = Live
    BY <1>1 DEF InDeck, Present, Live
  <2>2. InverseOf(r)' = InverseOf(r)
    BY <2>1 DEF InverseOf
  <2>3. RoleBack(r)' = RoleBack(r)
    BY <2>1 DEF RoleBack
  <2>4. QED  BY <2>2, <2>3 DEF Demotion, Promotion
<1>2. Newest' = Newest
  BY DEF Newest
<1>3. /\ InverseOf(Newest[i])' = InverseOf(Newest[i])
      /\ Demotion(Newest[i])' = Demotion(Newest[i])
      /\ Promotion(Newest[i])' = Promotion(Newest[i])
  <2> DEFINE r == Newest[i]
  <2> HIDE DEF r
  <2>1. r' = r
    BY <1>2 DEF r
  <2>2. rows'[r.card] = rows[r.card]
    BY DEF r
  <2>3. QED  BY <1>1, <2>1, <2>2 DEF r
<1>4. QED  BY <1>2, <1>3 DEF WholeReversal

\* When the undo of the newest entry begins, each card of the entry is as it
\* left it and has the whole of its reversal before it.
LEMMA UndoBegins ==
    ASSUME IInv, IInv', LastIsExplained, NEW u \in DOMAIN log, Undo(u), last' = last
    PROVE  UndoGoesBack'
<1> SUFFICES ASSUME Reversing', OnceEach(Newest'), NEW c \in Card PROVE GoesBack(c)'
  BY DEF UndoGoesBack
<1> DEFINE act == [Plan("undo", "ui", ReversalOf(log[u].cards)) EXCEPT !.undoOf = u]
<1>1. /\ acts' = <<act>> /\ log' = log /\ rows' = rows /\ slots' = slots
      /\ saved' = [rows |-> rows, revision |-> revision, identity |-> identity, log |-> log]
  BY DEF Undo, Begin, deck
<1>2. act.changes = ReversalOf(log[u].cards) /\ act.undoOf = u
  BY DEF Plan
<1> HIDE DEF act
<1>3. acts'[1].changes = ReversalOf(log[u].cards) /\ acts'[1].undoOf = u
  BY <1>1, <1>2
<1>4. u = Len(log) /\ rows = last.after /\ Newest' = Newest /\ log # <<>>
  BY <1>1, <1>3 DEF Reversing, Newest, IInv, TypeOK
<1>5. Todo(c)' = {x \in ReversalOf(Newest) : x.change.card = c}
  BY <1>3, <1>4 DEF Todo, Newest
<1>6. Newest \in Seq(LogCard)
  <2>1. log[u] \in Entry /\ log[u].kind \notin {"undo", "reject"}
    BY DEF IInv, TypeOK, Undo, Undoable
  <2>2. QED  BY <1>4, <2>1 DEF Newest, Entry, Entries
<1>7. CASE \A j \in DOMAIN Newest : Newest[j].card # c
  <2>1. Todo(c)' = {}
    BY <1>4, <1>5, <1>6, <1>7, ReversalByCard
  <2>2. Explains(Newest, last.before, last.after)
    BY <1>4 DEF LastIsExplained
  <2>3. rows'[c] = last'.before[c]
    BY <1>1, <1>4, <1>7, <2>2 DEF Explains
  <2>4. QED  BY <2>1, <2>3 DEF GoesBack
<1>8. ASSUME NEW j \in DOMAIN Newest, Newest[j].card = c PROVE GoesBack(c)'
  <2>1. Todo(c)' = WholeReversal(j)
    BY <1>4, <1>5, <1>6, <1>8, ReversalByCard
  <2>2. WholeReversal(j)' = WholeReversal(j)
    BY <1>1, WholeReversalStays
  <2>3. j \in DOMAIN Newest' /\ Newest'[j].card = c /\ rows'[c] = last'.after[c]
    BY <1>1, <1>4, <1>8
  <2>4. QED  BY <2>1, <2>2, <2>3 DEF GoesBack
<1>9. QED  BY <1>7, <1>8

-----------------------------------------------------------------------------
(* One change of the reversal *)

\* Applying a change takes it off what its card still has to do, and no more.
LEMMA TodoShrinks ==
    ASSUME TypeOK, Applying, Applied, last' = last, NEW c \in Card
    PROVE  /\ Reversing' => Reversing
           /\ Newest' = Newest /\ log' = log /\ slots' = slots
           /\ c # Current.card => Todo(c)' = Todo(c)
           /\ c = Current.card => First \in Todo(c) /\ Todo(c)' = Todo(c) \ {First}
<1>1. /\ acts \in Seq(Act) /\ acts # <<>> /\ 1 \in DOMAIN acts /\ acts[1] \in Act
      /\ First \in acts[1].changes
  BY FirstFacts
<1>2. acts'[1] = [acts[1] EXCEPT !.changes = @ \ {First}]
  BY <1>1 DEF Applied
<1>3. /\ acts'[1].changes = acts[1].changes \ {First}
      /\ acts'[1].kind = acts[1].kind /\ acts'[1].undoOf = acts[1].undoOf
  BY <1>1, <1>2 DEF Act
<1>4. log' = log /\ slots' = slots /\ saved' = saved
  BY DEF Applied
<1>5. Reversing' => Reversing
  BY <1>3, <1>4 DEF Reversing, Applying
<1>6. QED  BY <1>1, <1>3, <1>4, <1>5 DEF Todo, Newest, Current

\* The change is of no concern to another card.
LEMMA OthersStay ==
    ASSUME TypeOK, Applying, Applied, last' = last, NEW c \in Card, c # Current.card,
           rows'[c] = rows[c], GoesBack(c)
    PROVE  GoesBack(c)'
<1>1. Newest' = Newest /\ log' = log /\ slots' = slots /\ Todo(c)' = Todo(c)
  BY TodoShrinks
<1>2. CASE Todo(c) = {} /\ Kept(rows[c]) = Kept(last.before[c])
  <2>1. Kept(rows[c])' = Kept(last.before[c])'
    BY <1>1, <1>2 DEF Kept, Live
  <2>2. QED  BY <1>1, <1>2, <2>1 DEF GoesBack
<1>3. CASE ~(Todo(c) = {} /\ Kept(rows[c]) = Kept(last.before[c]))
  <2>1. PICK i \in DOMAIN Newest :
          /\ Newest[i].card = c
          /\ \/ rows[c] = last.after[c] /\ Todo(c) = WholeReversal(i)
             \/ /\ rows[c] # None /\ ~rows[c].maybe
                /\ last.before[c] # None /\ ~last.before[c].maybe
                /\ Kept(rows[c]) = [Kept(last.before[c]) EXCEPT !.role = "card"]
                /\ Todo(c) = {At(3 * Len(Newest) + 1 - i, Become(c, last.before[c].role))}
    BY <1>3 DEF GoesBack
  <2>2. WholeReversal(i)' = WholeReversal(i)
    BY <1>1, <2>1, WholeReversalStays
  <2>3. Kept(rows[c])' = Kept(rows[c]) /\ Kept(last.before[c])' = Kept(last.before[c])
    BY <1>1 DEF Kept, Live
  <2>4. QED  BY <1>1, <2>1, <2>2, <2>3 DEF GoesBack
<1>4. QED  BY <1>2, <1>3

\* Rows of the newest entry's savepoint.
LEMMA BeforeFacts ==
    ASSUME LastIsExplained, log # <<>>, NEW c \in Card
    PROVE  /\ last.before[c] \in {None} \cup Row
           /\ last.before[c] # None =>
                 /\ last.before[c] \in Row /\ last.before[c].slot \notin last.before[c].secondary
                 /\ last.before[c].maybe =>
                       last.before[c].quantity = 1 /\ last.before[c].role = "card"
  BY DEF LastIsExplained, Plain

\* The same row in another role.
LEMMA InRole ==
    ASSUME NEW m, NEW q, NEW p, NEW s, NEW ss, NEW role
    PROVE  [[maybe |-> m, quantity |-> q, role |-> p, slot |-> s, secondary |-> ss]
               EXCEPT !.role = role]
              = [maybe |-> m, quantity |-> q, role |-> role, slot |-> s, secondary |-> ss]
  OBVIOUS

\* The cut that reverses an add leaves the row the add found.
LEMMA OutAgain ==
    ASSUME IInv, NEW r \in LogCard, r.action = "add", NEW x \in {None} \cup Row,
           x # None /\ x.maybe => x.quantity = 1 /\ x.role = "card",
           Did(r, x, rows[r.card])
    PROVE  Kept(CutTo(IF r.wasMaybe THEN Cut(r.card, 1, TRUE, None)
                      ELSE Cut(r.card, r.quantity, FALSE, None))) = Kept(x)
<1> DEFINE c == r.card
           y == rows[c]
<1>1. c \in Card /\ r.quantity \in Nat \ {0} /\ r.wasMaybe \in BOOLEAN
  BY LogCardFacts
<1>2. y \in Row /\ y # None /\ ~y.maybe /\ y.quantity \in Nat \ {0}
  BY <1>1, RowFacts, RowIs DEF Did, IInv, Present
<1>3. CASE r.wasMaybe
  <2> DEFINE z == [y EXCEPT !.maybe = TRUE, !.quantity = 1, !.role = "card"]
  <2>1. CutTo(Cut(c, 1, TRUE, None)) = z
    BY DEF CutTo, Cut
  <2>2. x # None /\ x.maybe
    BY <1>3 DEF Did
  <2>3. z \in Row /\ z.maybe /\ z.quantity = 1 /\ z.role = "card"
    <3>1. 1 \in Nat \ {0} /\ "card" \in Role
      BY DEF Role
    <3>2. QED  BY <1>2, <3>1 DEF Row
  <2> HIDE DEF z
  <2>4. Kept(z) = [maybe |-> TRUE, quantity |-> 1, role |-> "card", slot |-> None, secondary |-> {}]
    BY <2>3, KeptIs
  <2>5. Kept(x) = [maybe |-> TRUE, quantity |-> 1, role |-> "card", slot |-> None, secondary |-> {}]
    BY <2>2, KeptIs, RowIs
  <2>6. QED  BY <1>3, <2>1, <2>4, <2>5
<1>4. CASE ~r.wasMaybe
  <2> DEFINE cut == Cut(c, r.quantity, FALSE, None)
  <2>1. cut.card = c /\ cut.quantity = r.quantity /\ cut.park = FALSE
    BY DEF Cut
  <2> HIDE DEF cut
  <2>2. CASE x = None
    <3>1. Taken(cut) = y.quantity
      BY <1>1, <1>2, <1>4, <2>1, <2>2 DEF Taken, All, Did
    <3>2. CutTo(cut) = None
      BY <2>1, <3>1 DEF CutTo
    <3>3. QED  BY <1>4, <2>2, <3>2 DEF cut
  <2>3. CASE x # None
    <3>1. x \in Row /\ x.quantity \in Nat \ {0} /\ ~x.maybe
          /\ y = [x EXCEPT !.quantity = @ + r.quantity]
      BY <1>4, <2>3, RowIs DEF Did
    <3>2. y.quantity = x.quantity + r.quantity
      BY <3>1 DEF Row
    <3>3. Taken(cut) = r.quantity /\ r.quantity # y.quantity
      BY <1>1, <2>1, <3>1, <3>2 DEF Taken, All
    <3>4. CutTo(cut) = [y EXCEPT !.quantity = y.quantity - r.quantity]
      BY <2>1, <3>3 DEF CutTo
    <3>5. y.quantity - r.quantity = x.quantity
      BY <1>1, <3>1, <3>2
    <3>6. [y EXCEPT !.quantity = x.quantity] = x
      BY <3>1 DEF Row
    <3>7. CutTo(cut) = x
      BY <3>4, <3>5, <3>6
    <3>8. QED  BY <1>4, <3>7 DEF cut
  <2>4. QED  BY <2>2, <2>3
<1>5. QED  BY <1>1, <1>3, <1>4

\* The add that reverses a cut leaves the row the cut found, or the same row in
\* no role when the card has to come back into the deck.
LEMMA BackIn ==
    ASSUME IInv, NEW r \in LogCard, r.action = "cut", NEW x \in Row,
           x.slot \notin x.secondary, Did(r, x, rows[r.card]),
           NEW add,
           add = (IF Present(r.card) THEN Add(r.card, r.quantity, Keep, {Keep}, "card", None)
                  ELSE Add(r.card, r.quantity, IF r.slot \in Live THEN r.slot ELSE None,
                           (r.secondary \cap Live) \ {r.slot}, "card", None))
    PROVE  IF InDeck(r.card) THEN Added(add) = x
           ELSE /\ Added(add) # None /\ ~Added(add).maybe
                /\ Kept(Added(add)) = [Kept(x) EXCEPT !.role = "card"]
<1> DEFINE c == r.card
           y == rows[c]
<1>1. c \in Card /\ r.quantity \in Nat \ {0} /\ r.parked \in BOOLEAN
  BY LogCardFacts
<1>2. /\ ~x.maybe /\ x.quantity \in Nat \ {0} /\ x # None /\ x.role \in Role
      /\ x.slot \in {None} \cup Slot /\ x.secondary \in SUBSET Slot
      /\ r.slot = x.slot /\ r.secondary = x.secondary /\ r.role = x.role
  BY RowIs DEF Did
<1>3. /\ add.card = c /\ add.quantity = r.quantity /\ add.role = "card"
      /\ Present(c) => add.slot = Keep /\ add.secondary = {Keep}
      /\ ~Present(c) => /\ add.slot = IF x.slot \in Live THEN x.slot ELSE None
                        /\ add.secondary = (x.secondary \cap Live) \ {x.slot}
  BY <1>2 DEF Add
<1> DEFINE primary == IF x.slot \in Live THEN x.slot ELSE None
           z == [maybe |-> FALSE, quantity |-> x.quantity, role |-> "card",
                 slot |-> primary, secondary |-> x.secondary \cap Live]
<1>4. Kept(x) = [maybe |-> FALSE, quantity |-> x.quantity, role |-> x.role,
                 slot |-> primary, secondary |-> x.secondary \cap Live]
  BY <1>2, KeptIs
<1>5. [Kept(x) EXCEPT !.role = "card"] = z
  <2> DEFINE other == x.secondary \cap Live
             no == FALSE
             w(role) == [maybe |-> no, quantity |-> x.quantity, role |-> role, slot |-> primary,
                         secondary |-> other]
  <2> HIDE DEF primary, other, no
  <2>1. [w(x.role) EXCEPT !.role = "card"] = w("card")
    OBVIOUS
  <2>2. QED  BY <1>4, <2>1 DEF other, no
<1>6. \/ r.parked /\ r.quantity = x.quantity
         /\ y = [x EXCEPT !.maybe = TRUE, !.quantity = 1, !.role = "card"]
      \/ ~r.parked /\ r.quantity = x.quantity /\ y = None
      \/ ~r.parked /\ r.quantity < x.quantity /\ y = [x EXCEPT !.quantity = @ - r.quantity]
  BY DEF Did
<1>7. CASE r.quantity = x.quantity /\ y = [x EXCEPT !.maybe = TRUE, !.quantity = 1, !.role = "card"]
  <2>1. /\ y = [maybe |-> TRUE, quantity |-> 1, role |-> "card", slot |-> x.slot,
                secondary |-> x.secondary]
        /\ y \in Row
    <3>1. 1 \in Nat \ {0} /\ "card" \in Role
      BY DEF Role
    <3>2. QED  BY <1>7, <3>1 DEF Row
  <2>2. Present(c) /\ Shortlisted(c) /\ ~InDeck(c)
    BY <2>1, RowIs DEF Present, Shortlisted, InDeck
  <2>3. PrimaryFor(add) = x.slot
    BY <1>3, <2>1, <2>2 DEF PrimaryFor
  <2>4. SecondaryFor(add) = x.secondary
    BY <1>3, <2>1, <2>2, <2>3 DEF SecondaryFor
  <2>5. Added(add) = [maybe |-> FALSE, quantity |-> x.quantity, role |-> "card",
                      slot |-> x.slot, secondary |-> x.secondary]
    <3>1. Added(add) = [y EXCEPT !.maybe = FALSE, !.quantity = add.quantity,
                           !.role = IF add.role = "card" THEN @ ELSE add.role,
                           !.slot = PrimaryFor(add), !.secondary = SecondaryFor(add)]
      BY <1>3, <2>2 DEF Added
    <3>2. Added(add) = [y EXCEPT !.maybe = FALSE, !.quantity = x.quantity, !.role = "card",
                           !.slot = x.slot, !.secondary = x.secondary]
      BY <1>3, <1>7, <2>1, <2>3, <2>4, <3>1
    <3> HIDE DEF y
    <3>3. QED  BY <2>1, <3>2
  <2>6. Added(add) \in Row
    <3>1. "card" \in Role /\ FALSE \in BOOLEAN
      BY DEF Role
    <3>2. [maybe |-> FALSE, quantity |-> x.quantity, role |-> "card", slot |-> x.slot,
           secondary |-> x.secondary] \in Row
      BY <1>2, <3>1 DEF Row
    <3>3. QED  BY <2>5, <3>2
  <2>7. Kept(Added(add)) = z
    BY <2>5, <2>6, KeptIs
  <2>8. QED  BY <1>5, <2>2, <2>5, <2>6, <2>7, RowIs
<1>8. CASE r.quantity = x.quantity /\ y = None
  <2>1. ~Present(c) /\ ~Shortlisted(c) /\ ~InDeck(c)
    BY <1>8 DEF Present, Shortlisted, InDeck
  <2>2. PrimaryFor(add) = (IF x.slot \in Live THEN x.slot ELSE None)
    <3>1. add.slot # Keep
      BY <1>2, <1>3, <2>1, DataAssumption
    <3>2. QED  BY <1>3, <2>1, <3>1 DEF PrimaryFor
  <2>3. SecondaryFor(add) = x.secondary \cap Live
    <3>1. Keep \notin add.secondary
      BY <1>2, <1>3, <2>1, DataAssumption
    <3>2. add.secondary = x.secondary \cap Live
      BY <1>3, <2>1
    <3>3. QED  BY <3>1, <3>2 DEF SecondaryFor
  <2>4. Added(add) = z
    BY <1>3, <1>8, <2>1, <2>2, <2>3 DEF Added
  <2>5. z \in Row
    <3>1. "card" \in Role /\ (IF x.slot \in Live THEN x.slot ELSE None) \in {None} \cup Slot
          /\ x.secondary \cap Live \in SUBSET Slot
      BY <1>2 DEF Role
    <3>2. QED  BY <1>2, <3>1 DEF Row
  <2>6. Kept(z) = z
    <3>1. Kept(z) = [maybe |-> FALSE, quantity |-> x.quantity, role |-> "card",
                     slot |-> IF z.slot \in Live THEN z.slot ELSE None,
                     secondary |-> z.secondary \cap Live]
      BY <2>5, KeptIs
    <3>2. (IF z.slot \in Live THEN z.slot ELSE None) = z.slot /\ z.secondary \cap Live = z.secondary
      OBVIOUS
    <3>3. QED  BY <3>1, <3>2
  <2>7. QED  BY <1>5, <2>1, <2>4, <2>5, <2>6, RowIs
<1>9. CASE r.quantity < x.quantity /\ y = [x EXCEPT !.quantity = @ - r.quantity]
  <2>1. y \in Row /\ ~y.maybe /\ y.quantity = x.quantity - r.quantity
    BY <1>1, <1>2, <1>9 DEF Row
  <2>2. InDeck(c) /\ ~Shortlisted(c)
    BY <2>1, RowIs DEF InDeck, Present, Shortlisted
  <2>3. Added(add) = [y EXCEPT !.quantity = y.quantity + r.quantity]
    BY <1>3, <2>2 DEF Added
  <2>4. y.quantity + r.quantity = x.quantity
    BY <1>1, <1>2, <2>1
  <2>5. [y EXCEPT !.quantity = x.quantity] = x
    BY <1>9 DEF Row
  <2>6. QED  BY <2>2, <2>3, <2>4, <2>5
<1>10. QED  BY <1>6, <1>7, <1>8, <1>9

\* A role given back to a row that lacks nothing else.
LEMMA RoleRestored ==
    ASSUME NEW x \in Row, NEW y \in Row, ~x.maybe, ~y.maybe,
           Kept(y) = [Kept(x) EXCEPT !.role = "card"]
    PROVE  Kept([y EXCEPT !.role = x.role]) = Kept(x)
<1> DEFINE z == [y EXCEPT !.role = x.role]
           primary(r) == IF ~r.maybe /\ r.slot \in Live THEN r.slot ELSE None
           other(r) == IF r.maybe THEN {} ELSE r.secondary \cap Live
           kept(r, role) == [maybe |-> r.maybe, quantity |-> r.quantity, role |-> role,
                             slot |-> primary(r), secondary |-> other(r)]
<1>1. z \in Row /\ z = [maybe |-> y.maybe, quantity |-> y.quantity, role |-> x.role,
                        slot |-> y.slot, secondary |-> y.secondary]
  BY RowIs DEF Row
<1>2. Kept(z) = kept(y, x.role)
  <2>1. Kept(z) = kept(z, z.role)
    BY <1>1, KeptIs
  <2>2. /\ z.maybe = y.maybe /\ z.quantity = y.quantity /\ z.role = x.role
        /\ z.slot = y.slot /\ z.secondary = y.secondary
    BY <1>1
  <2> HIDE DEF z
  <2>3. QED  BY <2>1, <2>2
<1>3. Kept(y) = kept(y, y.role) /\ Kept(x) = kept(x, x.role)
  BY KeptIs
<1>4. kept(y, y.role) = kept(x, "card")
  <2> HIDE DEF primary, other
  <2>1. QED  BY <1>3, InRole
<1>5. kept(y, x.role) = kept(x, x.role)
  <2> HIDE DEF primary, other
  <2>1. y.maybe = x.maybe /\ y.quantity = x.quantity /\ primary(y) = primary(x) /\ other(y) = other(x)
    BY <1>4
  <2>2. QED  BY <2>1
<1>6. QED  BY <1>2, <1>3, <1>5

\* The row a step leaves, as undo is to leave it.
LEMMA KeptStays ==
    ASSUME slots' = slots, last' = last, NEW c, NEW y, rows'[c] = y
    PROVE  Kept(rows[c])' = Kept(y) /\ Kept(last.before[c])' = Kept(last.before[c])
  BY DEF Kept, Live

LEMMA CurrentIs == ASSUME NEW k, NEW y, First = At(k, y) PROVE Current = y
  BY AtFacts DEF Current

\* What the three ways to apply a change make of its card's row.
LEMMA AppliedRow ==
    ASSUME IInv
    PROVE  /\ ApplyAdd => /\ Current.action = "add"
                          /\ rows' = [rows EXCEPT ![Current.card] = Added(Current)]
           /\ ApplyCut => /\ Current.action = "cut"
                          /\ rows' = [rows EXCEPT ![Current.card] = CutTo(Current)]
           /\ ApplyRole => /\ Current.action = "role"
                           /\ rows' = [rows EXCEPT ![Current.card] =
                                          [rows[Current.card] EXCEPT !.role = Current.role]]
  BY RoleDid DEF ApplyAdd, ApplyCut, ApplyRole

\* The change brings its card a step back.
LEMMA CurrentGoesBack ==
    ASSUME IInv, LastIsExplained, Reversing, OnceEach(Newest), NEW c, c = Current.card,
           GoesBack(c), ApplyAdd \/ ApplyCut \/ ApplyRole, last' = last
    PROVE  GoesBack(c)'
<1> DEFINE was == last.before[c]
           now == rows[c]
           n == Len(Newest)
<1>1. Applying /\ Applied /\ Current \in Change /\ c \in Card
  BY FirstFacts, ChangeFacts DEF ApplyAdd, ApplyCut, ApplyRole, IInv
<1>2. /\ log' = log /\ slots' = slots /\ Newest' = Newest
      /\ First \in Todo(c) /\ Todo(c)' = Todo(c) \ {First}
      /\ \A z \in Todo(c) : First.at <= z.at
  BY <1>1, TodoShrinks, FirstFacts DEF IInv, Todo
<1>3. /\ Newest \in Seq(LogCard) /\ DOMAIN Newest = 1 .. n /\ n \in Nat /\ log # <<>>
      /\ rows \in [Card -> {None} \cup Row] /\ now \in {None} \cup Row
  BY <1>1, NewestFacts DEF IInv, TypeOK
<1>4. /\ was \in {None} \cup Row
      /\ was # None => /\ was \in Row /\ was.slot \notin was.secondary
                       /\ was.maybe => was.quantity = 1 /\ was.role = "card"
  BY <1>1, <1>3, BeforeFacts
<1>5. /\ ApplyAdd => Current.action = "add" /\ rows'[c] = Added(Current)
      /\ ApplyCut => Current.action = "cut" /\ rows'[c] = CutTo(Current)
      /\ ApplyRole => /\ Current.action = "role"
                      /\ rows'[c] = [now EXCEPT !.role = Current.role]
  BY <1>1, <1>3, AppliedRow
<1>6. ASSUME NEW z, rows'[c] = z, Kept(z) = Kept(was), Todo(c) \subseteq {First}
      PROVE  GoesBack(c)'
  <2>1. Todo(c)' = {}
    BY <1>2, <1>6
  <2>2. Kept(rows[c])' = Kept(last.before[c])'
    BY <1>2, <1>6, KeptStays
  <2>3. QED  BY <2>1, <2>2 DEF GoesBack
<1>7. PICK i \in DOMAIN Newest :
         /\ Newest[i].card = c
         /\ \/ now = last.after[c] /\ Todo(c) = WholeReversal(i)
            \/ /\ now # None /\ ~now.maybe /\ was # None /\ ~was.maybe
               /\ Kept(now) = [Kept(was) EXCEPT !.role = "card"]
               /\ Todo(c) = {At(3 * n + 1 - i, Become(c, was.role))}
  BY <1>2 DEF GoesBack
<1>8. CASE /\ now # None /\ ~now.maybe /\ was # None /\ ~was.maybe
           /\ Kept(now) = [Kept(was) EXCEPT !.role = "card"]
           /\ Todo(c) = {At(3 * n + 1 - i, Become(c, was.role))}
  <2>1. First = At(3 * n + 1 - i, Become(c, was.role))
    BY <1>2, <1>8
  <2>2. Current.action = "role" /\ Current.role = was.role
    <3>1. Current = Become(c, was.role)
      BY <2>1, CurrentIs
    <3> HIDE DEF was
    <3>2. QED  BY <3>1 DEF Become
  <2>3. rows'[c] = [now EXCEPT !.role = was.role]
    BY <1>5, <2>2
  <2>4. Kept([now EXCEPT !.role = was.role]) = Kept(was)
    BY <1>3, <1>4, <1>8, RoleRestored
  <2>5. QED  BY <1>2, <1>6, <1>8, <2>3, <2>4
<1>9. CASE now = last.after[c] /\ Todo(c) = WholeReversal(i)
  <2> DEFINE r == Newest[i]
  <2>1. r \in LogCard /\ r.card = c /\ Did(r, was, now)
    BY <1>3, <1>7, <1>9, NewestDid
  <2>2. CASE r.action = "add"
    <3> DEFINE cut == IF r.wasMaybe THEN Cut(r.card, 1, TRUE, None)
                      ELSE Cut(r.card, r.quantity, FALSE, None)
    <3>1. InDeck(c)
      BY <2>1, <2>2 DEF Did, InDeck, Present
    <3>2. Todo(c) = {At(n + 1 - i, cut)}
      BY <1>9, <2>1, <2>2, <3>1, AddedGoesOut
    <3>3. First = At(n + 1 - i, cut)
      BY <1>2, <3>2
    <3>4. Current = cut
      BY <3>3, CurrentIs
    <3>5. Current.action = "cut"
      BY <3>4 DEF Cut
    <3>6. rows'[c] = CutTo(cut)
      BY <1>5, <3>4, <3>5
    <3>7. Kept(CutTo(cut)) = Kept(was)
      <4>1. Did(r, was, rows[r.card])
        BY <2>1
      <4> HIDE DEF was
      <4>2. QED  BY <1>4, <2>1, <2>2, <4>1, OutAgain
    <3>8. QED  BY <1>2, <1>6, <3>2, <3>6, <3>7
  <2>3. CASE r.action = "cut"
    <3> DEFINE add == IF Present(r.card) THEN Add(r.card, r.quantity, Keep, {Keep}, "card", None)
                      ELSE Add(r.card, r.quantity, IF r.slot \in Live THEN r.slot ELSE None,
                               (r.secondary \cap Live) \ {r.slot}, "card", None)
               rest == IF ~InDeck(c) /\ r.role # "card"
                       THEN {At(3 * n + 1 - i, Become(c, r.role))} ELSE {}
    <3>1. was # None /\ was \in Row /\ ~was.maybe /\ r.role = was.role /\ was.slot \notin was.secondary
      <4>1. was # None /\ ~was.maybe /\ r.role = was.role
        BY <2>1, <2>3 DEF Did
      <4>2. QED  BY <1>4, <4>1
    <3>2. InDeck(c) => ~r.parked
      BY <2>1, <2>3, <3>1 DEF Did, InDeck, Present, Row
    <3>3. Todo(c) = {At(n + 1 - i, add)} \cup rest
      BY <1>9, <2>1, <2>3, <3>2, CutComesBack
    <3>4. First = At(n + 1 - i, add)
      <4>1. At(n + 1 - i, add).at < At(3 * n + 1 - i, Become(c, r.role)).at
        BY <1>3, AtFacts
      <4>2. First.at <= At(n + 1 - i, add).at
        BY <1>2, <3>3
      <4>3. First.at \in Int
        BY <1>2, <1>3, <3>3, AtFacts
      <4> HIDE DEF add, n
      <4>4. QED  BY <1>2, <1>3, <3>3, <4>1, <4>2, AtFacts
    <3>5. Current = add
      BY <3>4, CurrentIs
    <3>6. Current.action = "add"
      BY <3>5 DEF Add
    <3>7. rows'[c] = Added(add)
      BY <1>5, <3>5, <3>6
    <3>8. IF InDeck(r.card) THEN Added(add) = was
          ELSE /\ Added(add) # None /\ ~Added(add).maybe
               /\ Kept(Added(add)) = [Kept(was) EXCEPT !.role = "card"]
      BY <2>1, <2>3, <3>1, BackIn
    <3>9. Todo(c)' = rest \ {First}
      BY <1>2, <3>3, <3>4
    <3> HIDE DEF add
    <3>10. CASE InDeck(c)
      BY <1>6, <2>1, <3>3, <3>4, <3>7, <3>8, <3>10
    <3>11. CASE ~InDeck(c) /\ was.role = "card"
      <4>1. Kept(was).role = "card" /\ [Kept(was) EXCEPT !.role = "card"] = Kept(was)
        BY <3>1, <3>11, KeptIs
      <4>2. QED  BY <1>6, <2>1, <3>1, <3>3, <3>4, <3>7, <3>8, <3>11, <4>1
    <3>12. CASE ~InDeck(c) /\ was.role # "card"
      <4>1. Todo(c)' = {At(3 * n + 1 - i, Become(c, was.role))}
        <5>1. At(n + 1 - i, add) # At(3 * n + 1 - i, Become(c, r.role))
          BY <1>3, AtFacts
        <5>2. QED  BY <3>1, <3>4, <3>9, <3>12, <5>1
      <4>2. Kept(rows[c])' = Kept(Added(add)) /\ Kept(last.before[c])' = Kept(was)
        BY <1>2, <3>7, KeptStays
      <4>3. rows'[c] # None /\ ~rows'[c].maybe
            /\ Kept(rows[c])' = [Kept(last.before[c])' EXCEPT !.role = "card"]
        BY <2>1, <3>7, <3>8, <3>12, <4>2
      <4>4. i \in DOMAIN Newest' /\ Newest'[i].card = c /\ Len(Newest') = n
            /\ last'.before[c] = was
        BY <1>2, <2>1
      <4>5. QED  BY <3>1, <4>1, <4>3, <4>4 DEF GoesBack
    <3>13. QED  BY <3>10, <3>11, <3>12
  <2>4. CASE r.action = "role"
    <3>1. was # None /\ ~was.maybe /\ r.from = was.role /\ now # None /\ ~now.maybe
          /\ now = [was EXCEPT !.role = now.role] /\ was \in Row
      <4>1. /\ was # None /\ ~was.maybe /\ r.from = was.role
            /\ now # None /\ now = [was EXCEPT !.role = now.role]
        BY <2>1, <2>4 DEF Did
      <4>2. was \in Row
        BY <1>4, <4>1
      <4>3. now.maybe = was.maybe
        BY <4>1, <4>2 DEF Row
      <4>4. QED  BY <4>1, <4>2, <4>3
    <3>2. InDeck(c)
      BY <3>1 DEF InDeck, Present
    <3>3. PICK k : Todo(c) = {At(k, Become(c, was.role))}
      BY <1>9, <2>1, <2>4, <3>1, <3>2, RoleComesBack
    <3>4. First = At(k, Become(c, was.role))
      BY <1>2, <3>3
    <3>5. Current.action = "role" /\ Current.role = was.role
      <4>1. Current = Become(c, was.role)
        BY <3>4, CurrentIs
      <4> HIDE DEF was
      <4>2. QED  BY <4>1 DEF Become
    <3>6. rows'[c] = [now EXCEPT !.role = was.role]
      BY <1>5, <3>5
    <3>7. [now EXCEPT !.role = was.role] = was
      <4> HIDE DEF was, now
      <4>1. QED  BY <3>1 DEF Row
    <3>8. QED  BY <1>2, <1>6, <3>3, <3>6, <3>7
  <2>5. QED  BY <2>1, <2>2, <2>3, <2>4, LogCardFacts
<1>10. QED  BY <1>7, <1>8, <1>9

-----------------------------------------------------------------------------
(* What the sum of a list of integers is, for every list *)

\* TLA+ folds by recursion over the sets of positions.  That some function
\* satisfies the recursion, and only one, is shown by the least number of
\* positions for which it were not so.

\* The function the fold is defined by.
Folds(f, m, g) ==
    g = [T \in SUBSET (1 .. m) |-> IF T = {} THEN 0 ELSE g[T \ {Max(T)}] + f[Max(T)]]

LEMMA TotalIsFold ==
    ASSUME NEW f, NEW n \in Nat, DOMAIN f = 1 .. n
    PROVE  Total(f) = (CHOOSE g : Folds(f, n, g))[1 .. n]
  BY DEF Total, FoldLeft, MapThenFoldSet, Folds

LEMMA MaxFacts ==
    ASSUME NEW m \in Nat, NEW T \in SUBSET (1 .. m), T # {}
    PROVE  Max(T) \in T /\ \A i \in T : i <= Max(T)
<1>1. IsFiniteSet(T)
  <2>1. IsFiniteSet(1 .. m)
    BY FS_Interval
  <2>2. QED  BY <2>1, FS_Subset
<1> DEFINE f == [i \in T |-> i]
<1>2. f \in [T -> Int]
  OBVIOUS
<1>3. PICK s \in T : \A t \in T : f[t] <= f[s]
  <2> HIDE DEF f
  <2> QED  BY <1>1, <1>2, GreatestExists
<1>4. s \in T /\ \A t \in T : s >= t
  BY <1>3
<1>5. QED  BY <1>4 DEF Max

\* Two functions that satisfy the recursion agree where both are defined.
LEMMA FoldsAgree ==
    ASSUME NEW f, NEW m \in Nat, NEW k \in Nat, NEW g, NEW h, Folds(f, m, g), Folds(f, k, h)
    PROVE  \A T \in SUBSET (1 .. m) : T \in SUBSET (1 .. k) => g[T] = h[T]
<1> DEFINE Bad == {j \in Nat : \E T \in SUBSET (1 .. j) :
                      T \subseteq 1 .. m /\ T \subseteq 1 .. k /\ g[T] # h[T]}
<1>1. SUFFICES ASSUME NEW T0 \in SUBSET (1 .. m), T0 \in SUBSET (1 .. k), g[T0] # h[T0]
               PROVE  FALSE
  OBVIOUS
<1>2. m \in Bad
  BY <1>1
<1>3. PICK j \in Bad : \A i \in Bad : j <= i
  <2>1. Bad \in SUBSET Nat
    OBVIOUS
  <2> HIDE DEF Bad
  <2> QED  BY <1>2, <2>1, LeastNat
<1>4. PICK T \in SUBSET (1 .. j) : T \subseteq 1 .. m /\ T \subseteq 1 .. k /\ g[T] # h[T]
  OBVIOUS
<1>5. T # {}
  BY <1>4 DEF Folds
<1>6. /\ g[T] = g[T \ {Max(T)}] + f[Max(T)]
      /\ h[T] = h[T \ {Max(T)}] + f[Max(T)]
  BY <1>4, <1>5 DEF Folds
<1>7. j \in Nat /\ Max(T) \in T /\ \A i \in T : i <= Max(T)
  BY <1>4, <1>5, MaxFacts
<1>8. T \ {Max(T)} \in SUBSET (1 .. j - 1) /\ j - 1 \in Nat
  <2> DEFINE top == Max(T)
  <2>1. top \in 1 .. j /\ top \in T /\ \A i \in T : i \in 1 .. j /\ i <= top
    BY <1>4, <1>7
  <2> HIDE DEF top
  <2>2. j - 1 \in Nat /\ \A i \in T \ {top} : i \in 1 .. j - 1
    BY <1>7, <2>1
  <2>3. QED  BY <2>2 DEF top
<1>9. g[T \ {Max(T)}] = h[T \ {Max(T)}]
  <2>1. j - 1 \notin Bad
    <3> HIDE DEF Bad
    <3> QED  BY <1>3, <1>7
  <2>2. QED  BY <1>4, <1>8, <2>1
<1>10. QED  BY <1>4, <1>6, <1>9

\* There is such a function, and its values are integers.
LEMMA FoldExists ==
    ASSUME NEW n \in Nat, NEW f \in [1 .. n -> Int]
    PROVE  \E g \in [SUBSET (1 .. n) -> Int] : Folds(f, n, g)
<1> DEFINE Folded(m) == \E g \in [SUBSET (1 .. m) -> Int] : Folds(f, m, g)
           Bad == {m \in 0 .. n : ~Folded(m)}
<1>1. SUFFICES ASSUME Bad # {} PROVE FALSE
  <2>1. n \in 0 .. n
    OBVIOUS
  <2>2. n \notin Bad => Folded(n)
    BY <2>1
  <2>3. QED  BY <2>2
<1>2. PICK m \in Bad : \A i \in Bad : m <= i
  <2>1. Bad \in SUBSET Nat
    OBVIOUS
  <2> HIDE DEF Bad
  <2> QED  BY <1>1, <2>1, LeastNat
<1>3. CASE m = 0
  <2> DEFINE g == [T \in SUBSET (1 .. 0) |-> 0]
  <2>1. SUBSET (1 .. 0) = {{}}
    OBVIOUS
  <2>2. g \in [SUBSET (1 .. 0) -> Int]
    OBVIOUS
  <2>3. Folds(f, 0, g)
    BY <2>1 DEF Folds
  <2>4. Folded(0)
    <3> HIDE DEF g
    <3> QED  BY <2>2, <2>3
  <2>5. QED  BY <1>3, <2>4
<1>4. CASE m # 0
  <2>1. m \in 1 .. n /\ m - 1 \in 0 .. n /\ m - 1 \notin Bad
    <3>1. m \in 0 .. n
      OBVIOUS
    <3> HIDE DEF Bad
    <3>2. QED  BY <1>2, <1>4, <3>1
  <2>2. PICK h \in [SUBSET (1 .. m - 1) -> Int] : Folds(f, m - 1, h)
    BY <2>1
  <2> DEFINE g == [T \in SUBSET (1 .. m) |-> IF m \in T THEN h[T \ {m}] + f[m] ELSE h[T]]
  <2>3. \A T \in SUBSET (1 .. m) : /\ m \notin T => T \in SUBSET (1 .. m - 1)
                                   /\ T \ {m} \in SUBSET (1 .. m - 1)
    BY <2>1
  <2>4. g \in [SUBSET (1 .. m) -> Int]
    <3>1. \A T \in SUBSET (1 .. m - 1) : h[T] \in Int
      OBVIOUS
    <3>2. f[m] \in Int
      BY <2>1
    <3>3. \A T \in SUBSET (1 .. m) : (IF m \in T THEN h[T \ {m}] + f[m] ELSE h[T]) \in Int
      BY <2>3, <3>1, <3>2
    <3>4. QED  BY <3>3
  <2>5. ASSUME NEW T \in SUBSET (1 .. m), T # {}
        PROVE  g[T] = g[T \ {Max(T)}] + f[Max(T)]
    <3>1. Max(T) \in T /\ \A i \in T : i <= Max(T)
      <4>1. m \in Nat
        BY <2>1
      <4>2. QED  BY <2>5, <4>1, MaxFacts
    <3>2. CASE m \in T
      <4>1. Max(T) = m
        <5> DEFINE top == Max(T)
        <5>1. top \in 1 .. m /\ m <= top
          BY <3>1, <3>2
        <5> HIDE DEF top
        <5>2. top = m
          BY <2>1, <5>1
        <5>3. QED  BY <5>2 DEF top
      <4>2. g[T] = h[T \ {m}] + f[m] /\ g[T \ {m}] = h[T \ {m}]
        BY <3>2, <2>3
      <4>3. QED  BY <4>1, <4>2
    <3>3. CASE m \notin T
      <4>1. T \in SUBSET (1 .. m - 1) /\ T \ {Max(T)} \in SUBSET (1 .. m)
        BY <2>3, <3>3
      <4>2. h[T] = h[T \ {Max(T)}] + f[Max(T)]
        BY <2>2, <2>5, <4>1 DEF Folds
      <4>3. g[T] = h[T] /\ g[T \ {Max(T)}] = h[T \ {Max(T)}]
        BY <3>3, <4>1
      <4>4. QED  BY <4>2, <4>3
    <3>4. QED  BY <3>2, <3>3
  <2>6. g[{}] = 0
    <3>1. m \notin {} /\ {} \in SUBSET (1 .. m - 1) /\ {} \in SUBSET (1 .. m)
      OBVIOUS
    <3>2. h[{}] = 0
      BY <2>2, <3>1 DEF Folds
    <3>3. QED  BY <3>1, <3>2
  <2>7. Folds(f, m, g)
    <3>1. g = [T \in SUBSET (1 .. m) |-> g[T]]
      OBVIOUS
    <3> HIDE DEF g
    <3>2. \A T \in SUBSET (1 .. m) :
             g[T] = IF T = {} THEN 0 ELSE g[T \ {Max(T)}] + f[Max(T)]
      BY <2>5, <2>6
    <3>3. QED  BY <3>1, <3>2 DEF Folds
  <2>8. Folded(m)
    <3> HIDE DEF g
    <3> QED  BY <2>4, <2>7
  <2>9. QED  BY <2>8
<1>5. QED  BY <1>3, <1>4

\* Nothing sums up to 0, and one more number to that much more.
LEMMA TotalFacts ==
    ASSUME NEW f \in Seq(Int)
    PROVE  /\ f = <<>> => Total(f) = 0
           /\ Total(f) \in Int
           /\ \A x \in Int : Total(Append(f, x)) = Total(f) + x
<1>1. Len(f) \in Nat /\ f \in [1 .. Len(f) -> Int] /\ DOMAIN f = 1 .. Len(f)
  OBVIOUS
<1> DEFINE n == Len(f)
<1>2. PICK g \in [SUBSET (1 .. n) -> Int] : Folds(f, n, g)
  BY <1>1, FoldExists
<1>3. Total(f) = g[1 .. n] /\ Total(f) \in Int
  <2> DEFINE c == CHOOSE h : Folds(f, n, h)
  <2>1. Folds(f, n, c)
    BY <1>2
  <2>2. Total(f) = c[1 .. n]
    BY <1>1, TotalIsFold
  <2> HIDE DEF c
  <2>3. 1 .. n \in SUBSET (1 .. n)
    OBVIOUS
  <2>4. c[1 .. n] = g[1 .. n]
    BY <1>1, <1>2, <2>1, <2>3, FoldsAgree
  <2>5. g[1 .. n] \in Int
    BY <1>2, <2>3
  <2>6. QED  BY <2>2, <2>4, <2>5
<1>4. ASSUME f = <<>> PROVE Total(f) = 0
  <2>1. 1 .. n = {}
    BY <1>4
  <2>2. QED  BY <1>2, <1>3, <2>1 DEF Folds
<1>5. ASSUME NEW x \in Int PROVE Total(Append(f, x)) = Total(f) + x
  <2> DEFINE more == Append(f, x)
  <2>1. /\ more \in [1 .. n + 1 -> Int] /\ DOMAIN more = 1 .. n + 1 /\ n + 1 \in Nat
        /\ more[n + 1] = x /\ \A i \in 1 .. n : more[i] = f[i]
    <3>1. more \in Seq(Int) /\ Len(more) = n + 1
      OBVIOUS
    <3>2. more[n + 1] = x /\ \A i \in 1 .. n : more[i] = f[i]
      OBVIOUS
    <3> HIDE DEF more
    <3>3. more \in [1 .. Len(more) -> Int] /\ DOMAIN more = 1 .. Len(more)
      BY <3>1
    <3>4. n + 1 \in Nat
      BY <1>1
    <3>5. QED  BY <3>1, <3>2, <3>3, <3>4
  <2> HIDE DEF more
  <2>2. PICK h \in [SUBSET (1 .. n + 1) -> Int] : Folds(more, n + 1, h)
    BY <2>1, FoldExists
  <2> DEFINE c == CHOOSE k : Folds(more, n + 1, k)
             less == [T \in SUBSET (1 .. n) |-> c[T]]
  <2>3. Folds(more, n + 1, c)
    BY <2>2
  <2>4. Total(more) = c[1 .. n + 1]
    BY <2>1, TotalIsFold
  <2> HIDE DEF c
  <2>5. Max(1 .. n + 1) = n + 1 /\ (1 .. n + 1) \ {n + 1} = 1 .. n /\ 1 .. n + 1 # {}
    <3>1. 1 .. n + 1 # {} /\ n + 1 \in 1 .. n + 1
      <4> HIDE DEF n
      <4>1. n \in Nat
        BY <1>1 DEF n
      <4>2. n + 1 \in 1 .. n + 1
        BY <4>1
      <4>3. QED  BY <4>2
    <3>2. Max(1 .. n + 1) \in 1 .. n + 1 /\ \A i \in 1 .. n + 1 : i <= Max(1 .. n + 1)
      BY <2>1, <3>1, MaxFacts
    <3>3. QED  BY <1>1, <3>1, <3>2
  <2>6. c[1 .. n + 1] = c[1 .. n] + x
    <3> DEFINE T == 1 .. n + 1
    <3>1. T \in SUBSET (1 .. n + 1) /\ T # {} /\ Max(T) = n + 1 /\ T \ {n + 1} = 1 .. n
      BY <2>5
    <3> HIDE DEF T, n
    <3>2. c[T] = c[T \ {Max(T)}] + more[Max(T)]
      BY <2>3, <3>1 DEF Folds
    <3>3. QED  BY <2>1, <3>1, <3>2 DEF T
  <2>7. Folds(f, n, less)
    <3>1. ASSUME NEW T \in SUBSET (1 .. n)
          PROVE  c[T] = IF T = {} THEN 0 ELSE less[T \ {Max(T)}] + f[Max(T)]
      <4>1. T \in SUBSET (1 .. n + 1)
        BY <1>1
      <4>2. CASE T = {}
        BY <2>3, <4>1, <4>2 DEF Folds
      <4>3. CASE T # {}
        <5>1. Max(T) \in 1 .. n
          BY <1>1, <4>3, MaxFacts
        <5>2. c[T] = c[T \ {Max(T)}] + more[Max(T)]
          BY <2>3, <4>1, <4>3 DEF Folds
        <5>3. less[T \ {Max(T)}] = c[T \ {Max(T)}]
          OBVIOUS
        <5>4. QED  BY <2>1, <4>3, <5>1, <5>2, <5>3
      <4>4. QED  BY <4>2, <4>3
    <3>2. QED  BY <3>1 DEF Folds
  <2>8. less[1 .. n] = c[1 .. n] /\ less[1 .. n] = g[1 .. n]
    <3>1. 1 .. n \in SUBSET (1 .. n)
      OBVIOUS
    <3>2. less[1 .. n] = c[1 .. n]
      BY <3>1
    <3> HIDE DEF less
    <3>3. QED  BY <1>1, <1>2, <2>7, <3>1, <3>2, FoldsAgree
  <2>9. QED  BY <1>3, <2>4, <2>6, <2>8 DEF more
<1>6. QED  BY <1>3, <1>4, <1>5

-----------------------------------------------------------------------------
(* What the log adds up to *)

\* A list that another one continues by x has a sum greater by x.
LEMMA OneMore ==
    ASSUME NEW f \in Seq(Int), NEW x \in Int, NEW n \in Nat, n = Len(f),
           NEW g \in [1 .. n + 1 -> Int], g[n + 1] = x, \A i \in 1 .. n : g[i] = f[i]
    PROVE  Total(g) = Total(f) + x
<1>1. g \in Seq(Int) /\ Len(g) = n + 1
  OBVIOUS
<1>2. Append(f, x) \in Seq(Int) /\ Len(Append(f, x)) = n + 1
      /\ \A i \in 1 .. n + 1 : Append(f, x)[i] = IF i = n + 1 THEN x ELSE f[i]
  OBVIOUS
<1>3. \A i \in 1 .. n + 1 : Append(f, x)[i] = g[i]
  BY <1>2
<1>4. g = Append(f, x)
  BY <1>1, <1>2, <1>3, SeqEqual
<1>5. QED  BY <1>4, TotalFacts

LEMMA MovedIsInt ==
    ASSUME NEW c, NEW r \in LogCard PROVE Moved(c, r) \in Int
<1>1. r.quantity \in Int
  BY LogCardFacts
<1>2. QED  BY <1>1 DEF Moved

LEMMA NetFacts ==
    ASSUME NEW c, NEW cards \in Seq(LogCard)
    PROVE  /\ cards = <<>> => Net(c, cards) = 0
           /\ Net(c, cards) \in Int
           /\ \A r \in LogCard : Net(c, Append(cards, r)) = Net(c, cards) + Moved(c, r)
<1> DEFINE amounts == [i \in DOMAIN cards |-> Moved(c, cards[i])]
<1>1. Len(cards) \in Nat /\ DOMAIN cards = 1 .. Len(cards) /\ \A i \in DOMAIN cards : cards[i] \in LogCard
  OBVIOUS
<1>2. amounts \in [1 .. Len(cards) -> Int]
  BY <1>1, MovedIsInt
<1>3. amounts \in Seq(Int) /\ Len(amounts) = Len(cards) /\ Net(c, cards) = Total(amounts)
  <2> HIDE DEF amounts
  <2>1. amounts \in Seq(Int) /\ Len(amounts) = Len(cards)
    BY <1>1, <1>2
  <2>2. QED  BY <2>1 DEF Net, amounts
<1>4. ASSUME cards = <<>> PROVE Net(c, cards) = 0
  <2>1. amounts = <<>>
    <3> HIDE DEF amounts
    <3> QED  BY <1>3, <1>4
  <2> HIDE DEF amounts
  <2>2. QED  BY <1>3, <2>1, TotalFacts
<1>5. ASSUME NEW r \in LogCard
      PROVE  Net(c, Append(cards, r)) = Net(c, cards) + Moved(c, r)
  <2> DEFINE more == Append(cards, r)
             then == [i \in DOMAIN more |-> Moved(c, more[i])]
  <2>1. /\ DOMAIN more = 1 .. Len(cards) + 1 /\ more[Len(cards) + 1] = r
        /\ \A i \in 1 .. Len(cards) : more[i] = cards[i]
    BY <1>1
  <2>2. Moved(c, r) \in Int
    BY MovedIsInt
  <2>3. then \in [1 .. Len(cards) + 1 -> Int] /\ then[Len(cards) + 1] = Moved(c, r)
        /\ \A i \in 1 .. Len(cards) : then[i] = amounts[i]
    <3> HIDE DEF more
    <3>1. DOMAIN then = 1 .. Len(cards) + 1 /\ Len(cards) + 1 \in 1 .. Len(cards) + 1
      BY <1>1, <2>1
    <3>2. \A i \in 1 .. Len(cards) + 1 : then[i] \in Int
      <4>1. \A i \in 1 .. Len(cards) + 1 : i = Len(cards) + 1 \/ i \in 1 .. Len(cards)
        BY <1>1
      <4>2. QED  BY <1>1, <2>1, <2>2, <4>1, MovedIsInt
    <3>3. QED  BY <1>1, <2>1, <3>1, <3>2
  <2>4. Net(c, more) = Total(then)
    BY DEF Net
  <2> HIDE DEF then, amounts
  <2>5. Total(then) = Total(amounts) + Moved(c, r)
    BY <1>1, <1>3, <2>2, <2>3, OneMore
  <2>6. QED  BY <1>3, <2>4, <2>5 DEF more
<1>6. Net(c, cards) \in Int
  <2> HIDE DEF amounts
  <2> QED  BY <1>3, TotalFacts
<1>7. QED  BY <1>4, <1>5, <1>6

\* A log that another one continues by an entry that changes cards.
Longer(entries, longer) ==
    /\ Len(longer) = Len(entries) + 1
    /\ longer[Len(entries) + 1].kind # "reject"
    /\ \A i \in 1 .. Len(entries) : /\ longer[i].kind = entries[i].kind
                                    /\ longer[i].cards = entries[i].cards

\* What one entry stands for.
LEMMA EntryAmount ==
    ASSUME NEW c, NEW e \in Entry
    PROVE  (IF e.kind = "reject" THEN 0 ELSE Net(c, e.cards)) \in Int
<1>1. CASE e.kind = "reject"
  BY <1>1
<1>2. CASE e.kind # "reject"
  <2>1. e.cards \in Seq(LogCard)
    BY <1>2 DEF Entry, Entries
  <2>2. QED  BY <1>2, <2>1, NetFacts
<1>3. QED  BY <1>1, <1>2

\* A log records a number of copies, and the log with one more entry, the others
\* meaning what they did, as many more as that entry stands for.
LEMMA RecordedFacts ==
    ASSUME NEW c, NEW entries \in Seq(Entry)
    PROVE  /\ entries = <<>> => Recorded(c, entries) = 0
           /\ Recorded(c, entries) \in Int
           /\ \A longer \in Seq(Entry) :
                 Longer(entries, longer) =>
                     Recorded(c, longer)
                         = Recorded(c, entries) + Net(c, longer[Len(entries) + 1].cards)
<1> DEFINE Amount(e) == IF e.kind = "reject" THEN 0 ELSE Net(c, e.cards)
           amounts == [i \in DOMAIN entries |-> Amount(entries[i])]
           n == Len(entries)
<1>1. n \in Nat /\ DOMAIN entries = 1 .. n /\ \A i \in 1 .. n : entries[i] \in Entry
  OBVIOUS
<1>2. \A e \in Entry : Amount(e) \in Int
  BY EntryAmount
<1>3. Recorded(c, entries) = Total(amounts)
  BY DEF Recorded
<1> HIDE DEF Amount
<1>4. amounts \in [1 .. n -> Int]
  BY <1>1, <1>2
<1>5. amounts \in Seq(Int) /\ Len(amounts) = n
  <2> HIDE DEF amounts, n
  <2> QED  BY <1>1, <1>4
<1>6. ASSUME entries = <<>> PROVE Recorded(c, entries) = 0
  <2>1. n = 0
    BY <1>6
  <2>2. amounts = <<>>
    <3> HIDE DEF amounts
    <3> QED  BY <1>5, <2>1
  <2> HIDE DEF amounts
  <2>3. QED  BY <1>3, <1>5, <2>2, TotalFacts
<1>7. ASSUME NEW longer \in Seq(Entry), Longer(entries, longer)
      PROVE  Recorded(c, longer) = Recorded(c, entries) + Net(c, longer[n + 1].cards)
  <2>0. /\ Len(longer) = n + 1 /\ longer[n + 1].kind # "reject"
        /\ \A i \in 1 .. n : longer[i].kind = entries[i].kind /\ longer[i].cards = entries[i].cards
    BY <1>7 DEF Longer
  <2> DEFINE then == [i \in DOMAIN longer |-> Amount(longer[i])]
             x == Amount(longer[n + 1])
  <2>1. Recorded(c, longer) = Total(then)
    BY DEF Recorded, Amount
  <2>2. DOMAIN longer = 1 .. n + 1 /\ longer[n + 1] \in Entry
    <3> HIDE DEF n
    <3>1. DOMAIN longer = 1 .. n + 1
      BY <2>0
    <3>2. n + 1 \in 1 .. n + 1
      BY <1>1
    <3>3. QED  BY <2>0, <3>1, <3>2
  <2>3. x \in Int /\ x = Net(c, longer[n + 1].cards)
    <3>1. x \in Int
      BY <1>2, <2>2
    <3>2. QED  BY <2>0, <3>1 DEF Amount
  <2>4. \A i \in 1 .. n : Amount(longer[i]) = Amount(entries[i])
    BY <2>0 DEF Amount
  <2>5. then \in [1 .. n + 1 -> Int] /\ then[n + 1] = x
        /\ \A i \in 1 .. n : then[i] = amounts[i]
    <3> HIDE DEF n
    <3>1. n + 1 \in 1 .. n + 1 /\ DOMAIN then = 1 .. n + 1
      BY <1>1, <2>2
    <3>2. \A i \in 1 .. n + 1 : then[i] \in Int
      BY <1>2, <3>1
    <3>3. QED  BY <1>1, <2>2, <2>4, <3>1, <3>2
  <2> HIDE DEF then, amounts, x, n
  <2>6. Total(then) = Total(amounts) + x
    <3>1. n \in Nat
      BY <1>1 DEF n
    <3>2. QED  BY <1>5, <2>3, <2>5, <3>1, OneMore
  <2>7. QED  BY <1>3, <2>1, <2>3, <2>6
<1>8. Recorded(c, entries) \in Int
  <2> HIDE DEF amounts
  <2> QED  BY <1>3, <1>5, TotalFacts
<1>9. QED  BY <1>6, <1>7, <1>8

\* A log row moves as many copies as the card's row says.
LEMMA DidMoves ==
    ASSUME NEW r \in LogCard, NEW x \in {None} \cup Row, NEW y \in {None} \cup Row, Did(r, x, y)
    PROVE  (IF y # None /\ ~y.maybe THEN y.quantity ELSE 0)
              = (IF x # None /\ ~x.maybe THEN x.quantity ELSE 0) + Moved(r.card, r)
<1> DEFINE Q(z) == IF z # None /\ ~z.maybe THEN z.quantity ELSE 0
<1>1. \A z \in {None} \cup Row : Q(z) \in Int /\ (z # None => z \in Row /\ z.quantity \in Int)
  BY RowIs
<1>2. r.quantity \in Int
  BY LogCardFacts
<1>3. Moved(r.card, r) = IF r.action = "add" THEN r.quantity
                         ELSE IF r.action = "cut" THEN -r.quantity ELSE 0
  BY DEF Moved
<1>4. CASE r.action = "add"
  <2>1. y # None /\ ~y.maybe
    BY <1>4 DEF Did
  <2>2. \/ x # None /\ x.maybe /\ y.quantity = r.quantity
        \/ x = None /\ y.quantity = r.quantity
        \/ x # None /\ ~x.maybe /\ y = [x EXCEPT !.quantity = @ + r.quantity]
    BY <1>4 DEF Did
  <2>3. CASE x # None /\ ~x.maybe /\ y = [x EXCEPT !.quantity = @ + r.quantity]
    <3>1. y.quantity = x.quantity + r.quantity
      BY <1>1, <2>3 DEF Row
    <3>2. QED  BY <1>1, <1>2, <1>3, <1>4, <2>1, <2>3, <3>1
  <2>4. CASE x # None /\ x.maybe /\ y.quantity = r.quantity
    BY <1>2, <1>3, <1>4, <2>1, <2>4
  <2>5. CASE x = None /\ y.quantity = r.quantity
    BY <1>2, <1>3, <1>4, <2>1, <2>5
  <2>6. QED  BY <2>2, <2>3, <2>4, <2>5
<1>5. CASE r.action = "cut"
  <2>1. x # None /\ ~x.maybe /\ x \in Row
    BY <1>1, <1>5 DEF Did
  <2>2. \/ r.quantity = x.quantity /\ y = [x EXCEPT !.maybe = TRUE, !.quantity = 1, !.role = "card"]
        \/ r.quantity = x.quantity /\ y = None
        \/ r.quantity < x.quantity /\ y = [x EXCEPT !.quantity = @ - r.quantity]
    BY <1>5 DEF Did
  <2>3. CASE r.quantity = x.quantity /\ y = [x EXCEPT !.maybe = TRUE, !.quantity = 1, !.role = "card"]
    <3>1. y.maybe
      BY <2>1, <2>3 DEF Row
    <3>2. QED  BY <1>2, <1>3, <1>5, <2>1, <2>3, <3>1
  <2>4. CASE r.quantity = x.quantity /\ y = None
    BY <1>2, <1>3, <1>5, <2>1, <2>4
  <2>5. CASE r.quantity < x.quantity /\ y = [x EXCEPT !.quantity = @ - r.quantity]
    <3>1. y.quantity = x.quantity - r.quantity /\ ~y.maybe
      BY <2>1, <2>5 DEF Row
    <3>2. y \in Row
      <4>1. x.quantity \in Nat \ {0} /\ r.quantity \in Nat \ {0}
        BY <2>1, RowIs, LogCardFacts
      <4>2. x.quantity - r.quantity \in Nat \ {0}
        BY <2>5, <4>1
      <4>3. QED  BY <2>1, <2>5, <4>2 DEF Row
    <3>3. y # None
      BY <3>2, RowIs
    <3>4. QED  BY <1>1, <1>2, <1>3, <1>5, <2>1, <3>1, <3>3
  <2>6. QED  BY <2>2, <2>3, <2>4, <2>5
<1>6. CASE r.action = "role"
  <2>1. x # None /\ ~x.maybe /\ x \in Row /\ y # None /\ y = [x EXCEPT !.role = y.role]
    BY <1>1, <1>6 DEF Did
  <2>2. y.quantity = x.quantity /\ ~y.maybe
    BY <2>1 DEF Row
  <2>3. QED  BY <1>1, <1>3, <1>6, <2>1, <2>2
<1>7. QED  BY <1>4, <1>5, <1>6, LogCardFacts

\* One more logged row accounts for one more changed row.
LEMMA CopiesMove ==
    ASSUME IInv, CopiesAreLogged, NEW r \in LogCard, NEW y \in {None} \cup Row,
           logged' = Append(logged, r), rows' = [rows EXCEPT ![r.card] = y],
           Did(r, rows[r.card], y), NEW c \in Card, log' = log
    PROVE  Recorded(c, log') + Net(c, logged') = Held(rows', c)
<1>1. /\ logged \in Seq(LogCard) /\ log \in Seq(Entry) /\ rows \in [Card -> {None} \cup Row]
      /\ r.card \in Card
  BY LogCardFacts DEF IInv, TypeOK
<1>2. /\ Net(c, logged') = Net(c, logged) + Moved(c, r)
      /\ Net(c, logged) \in Int /\ Moved(c, r) \in Int /\ Recorded(c, log) \in Int
  BY <1>1, NetFacts, MovedIsInt, RecordedFacts
<1>3. Recorded(c, log) + Net(c, logged) = Held(rows, c)
  BY DEF CopiesAreLogged
<1>4. Held(rows', c) = Held(rows, c) + Moved(c, r)
  <2>1. CASE c = r.card
    <3>1. rows[c] \in {None} \cup Row /\ rows'[c] = y
      BY <1>1, <2>1
    <3> DEFINE x == rows[r.card]
    <3>2. x \in {None} \cup Row /\ Did(r, x, y)
      BY <1>1
    <3> HIDE DEF x
    <3>3. (IF y # None /\ ~y.maybe THEN y.quantity ELSE 0)
             = (IF x # None /\ ~x.maybe THEN x.quantity ELSE 0) + Moved(r.card, r)
      BY <3>2, DidMoves
    <3>4. QED  BY <2>1, <3>1, <3>3 DEF Held, x
  <2>2. CASE c # r.card
    <3>1. rows'[c] = rows[c] /\ Moved(c, r) = 0
      BY <1>1, <2>2 DEF Moved
    <3>2. Held(rows, c) \in Int
      BY <1>2, <1>3
    <3>3. QED  BY <3>1, <3>2 DEF Held
  <2>3. QED  BY <2>1, <2>2
<1>5. QED  BY <1>2, <1>3, <1>4

\* The row r is logged, and its card has the row y it tells of.
Tells(r, y) ==
    /\ logged' = Append(logged, r) /\ rows' = [rows EXCEPT ![r.card] = y]
    /\ Did(r, rows[r.card], y)

LEMMA CopiesKept ==
    ASSUME IInv, CopiesAreLogged, Next
    PROVE  CopiesAreLogged'
<1> SUFFICES ASSUME NEW c \in Card
             PROVE  /\ Recorded(c, log') + Net(c, logged') = Held(rows', c)
                    /\ ~Idle' => Recorded(c, saved'.log) = Held(saved'.rows, c)
  BY DEF CopiesAreLogged
<1>1. /\ Recorded(c, log) + Net(c, logged) = Held(rows, c)
      /\ ~Idle => Recorded(c, saved.log) = Held(saved.rows, c)
      /\ log \in Seq(Entry) /\ logged \in Seq(LogCard) /\ rows \in [Card -> {None} \cup Row]
      /\ Recorded(c, log) \in Int /\ Net(c, logged) \in Int
      /\ Net(c, <<>>) = 0 /\ (Idle => logged = <<>>)
  <2>1. log \in Seq(Entry) /\ logged \in Seq(LogCard) /\ rows \in [Card -> {None} \cup Row]
        /\ (Idle => logged = <<>>)
    BY DEF IInv, TypeOK, IdentityFollows
  <2>2. <<>> \in Seq(LogCard)
    OBVIOUS
  <2>3. QED  BY <2>1, <2>2, NetFacts, RecordedFacts DEF CopiesAreLogged
<1>2. ASSUME ~Idle, Restore
      PROVE  /\ Recorded(c, log') + Net(c, logged') = Held(rows', c) /\ Idle'
  <2>1. log' = saved.log /\ rows' = saved.rows /\ logged' = <<>> /\ Idle'
    BY <1>2 DEF Restore, Done, Idle
  <2>2. saved.log \in Seq(Entry)
    BY <1>2 DEF IInv, TypeOK, Deck
  <2>3. Recorded(c, saved.log) \in Int
    BY <2>2, RecordedFacts
  <2>4. QED  BY <1>1, <1>2, <2>1, <2>3
<1>3. CASE Request
  <2>1. PICK act : Begin(<<act>>)
    BY <1>3 DEF Request, AddCard, RemoveCard, MoveCard, SetRole, SetQuantity, EditOne,
                EditCards, Edit, Undo
  <2>2. /\ rows' = rows /\ log' = log /\ logged' = <<>> /\ logged = <<>>
        /\ saved' = [rows |-> rows, revision |-> revision, identity |-> identity, log |-> log]
    BY <1>1, <2>1 DEF Begin, deck
  <2>3. saved'.rows = rows /\ saved'.log = log
    BY <2>2
  <2>4. QED  BY <1>1, <2>2, <2>3
<1>4. CASE Organisation
  <2>1. Idle /\ Idle' /\ log' = log /\ logged' = logged
    BY <1>4 DEF Organisation, CreateSlot, DeleteSlot, OrganizeCard, ShortlistCard,
                UnshortlistCard, SetDeckCategory, Organising, running, deck, Idle
  <2>2. Held(rows', c) = Held(rows, c)
    <3>1. CASE \E s \in Slot : CreateSlot(s)
      BY <3>1 DEF CreateSlot
    <3>2. CASE \E s \in Slot : DeleteSlot(s)
      <4>1. PICK s \in Slot : rows' = [k \in Card |-> IF ~Present(k) THEN None
                ELSE [rows[k] EXCEPT !.slot = IF @ = s THEN None ELSE @, !.secondary = @ \ {s}]]
        BY <3>2 DEF DeleteSlot
      <4>2. CASE ~Present(c)
        BY <4>1, <4>2 DEF Held, Present
      <4>3. CASE Present(c)
        <5>1. rows[c] \in Row /\ rows[c] # None
          BY <1>1, <4>3 DEF Present
        <5>2. rows'[c] = [rows[c] EXCEPT !.slot = IF @ = s THEN None ELSE @, !.secondary = @ \ {s}]
          BY <4>1, <4>3
        <5>3. rows'[c].maybe = rows[c].maybe /\ rows'[c].quantity = rows[c].quantity /\ rows'[c] \in Row
          BY <5>1, <5>2 DEF Row
        <5>4. rows'[c] # None
          BY <5>3, RowIs
        <5>5. QED  BY <5>1, <5>3, <5>4 DEF Held
      <4>4. QED  BY <4>2, <4>3
    <3>3. CASE \E k \in Card, p \in Live \cup {None}, ss \in SUBSET Live : OrganizeCard(k, p, ss)
      <4>1. PICK k \in Card, p \in Live \cup {None}, ss \in SUBSET Live : OrganizeCard(k, p, ss)
        BY <3>3
      <4>2. rows' = [rows EXCEPT ![k].slot = p, ![k].secondary = ss] /\ Present(k)
        BY <4>1 DEF OrganizeCard
      <4>3. CASE c # k
        BY <1>1, <4>2, <4>3 DEF Held
      <4>4. CASE c = k
        <5>1. rows[c] \in Row /\ rows[c] # None
          BY <1>1, <4>2, <4>4 DEF Present
        <5>2. rows'[c] = [rows[c] EXCEPT !.slot = p, !.secondary = ss]
          BY <1>1, <4>2, <4>4
        <5>3. /\ rows'[c].maybe = rows[c].maybe /\ rows'[c].quantity = rows[c].quantity
              /\ rows'[c] \in Row
          BY <5>1, <5>2 DEF Row, Live
        <5>4. rows'[c] # None
          BY <5>3, RowIs
        <5>5. QED  BY <5>1, <5>3, <5>4 DEF Held
      <4>5. QED  BY <4>3, <4>4
    <3>4. CASE \E k \in Card : ShortlistCard(k)
      <4>1. PICK k \in Card : /\ ~Present(k)
                              /\ rows' = [rows EXCEPT ![k] = [maybe |-> TRUE, quantity |-> 1,
                                            role |-> "card", slot |-> None, secondary |-> {}]]
        BY <3>4 DEF ShortlistCard
      <4>2. CASE c # k
        BY <1>1, <4>1, <4>2 DEF Held
      <4>3. CASE c = k
        <5>1. rows[c] = None /\ rows'[c].maybe
          BY <1>1, <4>1, <4>3 DEF Present
        <5>2. QED  BY <5>1 DEF Held
      <4>4. QED  BY <4>2, <4>3
    <3>5. CASE \E k \in Card : UnshortlistCard(k)
      <4>1. PICK k \in Card : Shortlisted(k) /\ rows' = [rows EXCEPT ![k] = None]
        BY <3>5 DEF UnshortlistCard
      <4>2. CASE c # k
        BY <1>1, <4>1, <4>2 DEF Held
      <4>3. CASE c = k
        BY <1>1, <4>1, <4>3 DEF Held, Shortlisted
      <4>4. QED  BY <4>2, <4>3
    <3>6. CASE \E new \in Category : SetDeckCategory(new)
      BY <3>6 DEF SetDeckCategory, deck
    <3>7. QED  BY <1>4, <3>1, <3>2, <3>3, <3>4, <3>5, <3>6 DEF Organisation
  <2>3. QED  BY <1>1, <2>1, <2>2
<1>5. CASE ApplyAdd \/ ApplyCut \/ ApplyRole
  <2>1. Applying /\ Applied /\ ~Idle /\ log' = log /\ saved' = saved
    BY <1>5 DEF ApplyAdd, ApplyCut, ApplyRole, Applying, Applied
  <2>2. TypeOK'
    BY NextKeeps DEF IInv
  <2>3. \A k \in Card : rows'[k] \in {None} \cup Row
    BY <2>2 DEF TypeOK
  <2>4. CASE \E r \in LogCard : \E y : Tells(r, y)
    <3>0. PICK r \in LogCard : \E y : Tells(r, y)
      BY <2>4
    <3>1. PICK y : Tells(r, y)
      BY <3>0
    <3>2. r.card \in Card
      BY LogCardFacts
    <3>3. y = rows'[r.card]
      BY <1>1, <3>1, <3>2 DEF Tells
    <3>4. y \in {None} \cup Row
      BY <2>3, <3>2, <3>3
    <3>5. QED  BY <1>1, <2>1, <3>1, <3>4, CopiesMove DEF Tells
  <2>5. CASE logged' = logged /\ rows' = rows
    BY <1>1, <2>1, <2>5
  <2>6. CASE ApplyAdd
    BY <2>4, <2>6, AddDid DEF Tells
  <2>7. CASE ApplyCut
    BY <2>4, <2>7, CutDid DEF Tells
  <2>8. CASE ApplyRole
    <3>1. \/ logged' = logged /\ rows' = rows
          \/ \E r \in LogCard : \E y : Tells(r, y)
      BY <2>8, RoleDid DEF Tells
    <3>2. QED  BY <2>4, <2>5, <3>1
  <2>9. QED  BY <1>5, <2>6, <2>7, <2>8
<1>6. CASE Refuse \/ Crash
  <2>1. ~Idle /\ Restore
    BY <1>6 DEF Refuse, Crash, Applying
  <2>2. QED  BY <1>2, <2>1
<1>7. CASE Land
  <2>1. ~Idle
    BY <1>7 DEF Land
  <2>2. CASE Restore
    BY <1>2, <2>1, <2>2
  <2>3. CASE ~Restore /\ logged = <<>>
    <3>1. /\ log' = log /\ rows' = rows /\ logged' = <<>> /\ acts' = Tail(acts)
          /\ saved' = IF Tail(acts) = <<>> THEN None ELSE saved
      BY <1>7, <2>3 DEF Land
    <3>2. QED  BY <1>1, <2>1, <2>3, <3>1 DEF Idle
  <2>4. CASE logged # <<>>
    <3>1. /\ log' = Append(Marked(acts[1]), EntryOf(acts[1])) /\ rows' = rows /\ logged' = <<>>
          /\ acts' = Tail(acts) /\ saved' = IF Tail(acts) = <<>> THEN None ELSE saved
      BY <1>7, <2>4 DEF Land
    <3>2. /\ log' \in Seq(Entry) /\ Len(log') = Len(log) + 1
          /\ log'[Len(log) + 1] = EntryOf(acts[1])
          /\ \A i \in 1 .. Len(log) :
                /\ log'[i].kind = log[i].kind
                /\ log'[i] = IF i = acts[1].undoOf THEN [log[i] EXCEPT !.undoneBy = Len(log) + 1]
                             ELSE log[i]
      BY <2>1, <3>1, LandedLog
    <3>3. \A i \in 1 .. Len(log) : log'[i].cards = log[i].cards
      <4>1. \A i \in 1 .. Len(log) : log[i] \in Entry
        BY <1>1
      <4>2. \A e \in Entry : \A n : [e EXCEPT !.undoneBy = n].cards = e.cards
        BY DEF Entry, Entries
      <4>3. ASSUME NEW i \in 1 .. Len(log) PROVE log'[i].cards = log[i].cards
        <5>1. log[i] \in Entry
          BY <4>1
        <5>2. CASE i = acts[1].undoOf
          <6>1. log'[i] = [log[i] EXCEPT !.undoneBy = Len(log) + 1]
            BY <3>2, <5>2
          <6>2. QED  BY <4>2, <5>1, <6>1
        <5>3. CASE i # acts[1].undoOf
          BY <3>2, <5>3
        <5>4. QED  BY <5>2, <5>3
      <4>4. QED  BY <4>3
    <3>4. log'[Len(log) + 1].cards = logged /\ log'[Len(log) + 1].kind # "reject"
      <4>1. acts[1].kind # "reject"
        BY <2>1 DEF IInv, TypeOK, Idle, ActsAreSound
      <4>2. QED  BY <3>2, <4>1 DEF EntryOf
    <3>5. Recorded(c, log') = Recorded(c, log) + Net(c, logged)
      <4>1. Longer(log, log')
        BY <3>2, <3>3, <3>4 DEF Longer
      <4>2. QED  BY <1>1, <3>2, <3>4, <4>1, RecordedFacts
    <3>6. QED  BY <1>1, <2>1, <3>1, <3>5 DEF Idle
  <2>5. QED  BY <2>2, <2>3, <2>4
<1>8. QED  BY <1>3, <1>4, <1>5, <1>6, <1>7 DEF Next, Working

-----------------------------------------------------------------------------
(* The invariant *)

\* Applying a change of an undo brings its card back and no other anywhere.
LEMMA ApplyingGoesBack ==
    ASSUME IInv, LastIsExplained, UndoGoesBack, ApplyAdd \/ ApplyCut \/ ApplyRole, last' = last
    PROVE  UndoGoesBack'
<1>1. Applying /\ Applied
  BY DEF ApplyAdd, ApplyCut, ApplyRole
<1>2. SUFFICES ASSUME Reversing', OnceEach(Newest'), NEW c \in Card PROVE GoesBack(c)'
  BY DEF UndoGoesBack
<1>3. Reversing /\ OnceEach(Newest) /\ GoesBack(c)
  <2>1. Reversing /\ Newest' = Newest
    BY <1>1, <1>2, TodoShrinks DEF IInv
  <2>2. QED  BY <1>2, <2>1 DEF UndoGoesBack
<1>4. CASE c = Current.card
  BY <1>3, <1>4, CurrentGoesBack
<1>5. CASE c # Current.card
  <2>1. rows'[c] = rows[c]
    <3>1. rows \in [Card -> {None} \cup Row]
      BY DEF IInv, TypeOK
    <3>2. QED  BY <1>5, <3>1, AppliedRow
  <2>2. QED  BY <1>1, <1>3, <1>5, <2>1, OthersStay DEF IInv
<1>6. QED  BY <1>4, <1>5

LEMMA HInitIsSound == HInit => HInv
<1> SUFFICES ASSUME HInit PROVE HInv
  OBVIOUS
<1>1. IInv
  BY InitIsSound DEF HInit
<1>2. log = <<>> /\ Idle
  BY DEF HInit, Init, Idle
<1>3. OneAct /\ LastIsExplained /\ UndoGoesBack
  BY <1>2 DEF OneAct, LastIsExplained, UndoGoesBack, Reversing
<1>4. CopiesAreLogged
  <2> SUFFICES ASSUME NEW c \in Card
               PROVE  Recorded(c, log) + Net(c, logged) = Held(rows, c)
    BY <1>2 DEF CopiesAreLogged
  <2>1. log = <<>> /\ logged = <<>> /\ rows[c] = None
    BY DEF HInit, Init
  <2>2. <<>> \in Seq(Entry) /\ <<>> \in Seq(LogCard)
    OBVIOUS
  <2>3. Recorded(c, <<>>) = 0 /\ Net(c, <<>>) = 0
    BY <2>2, RecordedFacts, NetFacts
  <2>4. QED  BY <2>1, <2>3 DEF Held
<1>5. QED  BY <1>1, <1>3, <1>4 DEF HInv

\* A step that leaves the deck idle, and the log alone, leaves nothing to explain.
LEMMA IdleIsExplained ==
    ASSUME LastIsExplained, Idle', log' = log, last' = last
    PROVE  LastIsExplained' /\ UndoGoesBack'
  BY DEF LastIsExplained, UndoGoesBack, Reversing, Newest

LEMMA HNextKeeps == HInv /\ [HNext]_hvars => HInv'
<1> SUFFICES ASSUME HInv, [HNext]_hvars PROVE HInv'
  OBVIOUS
<1>1. IInv /\ OneAct /\ LastIsExplained /\ UndoGoesBack /\ CopiesAreLogged
  BY DEF HInv
<1>2. IInv' /\ OneAct' /\ CopiesAreLogged'
  <2>1. [Next]_vars
    BY DEF HNext, hvars
  <2>2. CopiesAreLogged'
    <3>1. CASE Next
      BY <1>1, <3>1, CopiesKept
    <3>2. CASE UNCHANGED vars
      BY <1>1, <3>2 DEF vars, deck, running, CopiesAreLogged, Held, Idle
    <3>3. QED  BY <2>1, <3>1, <3>2
  <2>3. QED  BY <1>1, <2>1, <2>2, NextKeeps, OneActHolds
<1>3. CASE UNCHANGED hvars
  <2>1. UNCHANGED <<category, slots, rows, revision, identity, log, acts, logged, saved, last>>
    BY <1>3 DEF hvars, vars, deck, running
  <2>2. LastIsExplained'
    BY <1>1, <2>1 DEF LastIsExplained, Newest, Idle
  <2>3. UndoGoesBack'
    <3> SUFFICES ASSUME Reversing', OnceEach(Newest'), NEW c \in Card PROVE GoesBack(c)'
      BY DEF UndoGoesBack
    <3>1. Newest' = Newest /\ Reversing
      BY <2>1 DEF Newest, Reversing, Idle
    <3>2. GoesBack(c)
      BY <1>1, <3>1 DEF UndoGoesBack
    <3>3. Todo(c)' = Todo(c)
      BY <2>1 DEF Todo
    <3>4. \A i : Newest[i].card = c => WholeReversal(i)' = WholeReversal(i)
      <4> TAKE i
      <4>1. QED  BY <2>1, WholeReversalStays
    <3>5. Kept(rows[c])' = Kept(rows[c]) /\ Kept(last.before[c])' = Kept(last.before[c])
      BY <2>1 DEF Kept, Live
    <3>6. QED  BY <2>1, <3>1, <3>2, <3>3, <3>4, <3>5 DEF GoesBack
  <2>4. QED  BY <1>2, <2>2, <2>3 DEF HInv
<1>4. CASE HNext
  <2>1. /\ Next
        /\ last' = IF Len(log') > Len(log) THEN [before |-> saved.rows, after |-> rows] ELSE last
        /\ Len(log) \in Nat
    BY <1>1, <1>4 DEF HNext, IInv, TypeOK
  <2>2. log' = log => last' = last
    BY <2>1
  <2>3. CASE Request
    <3>1. PICK act : Begin(<<act>>)
      BY <2>3 DEF Request, AddCard, RemoveCard, MoveCard, SetRole, SetQuantity, EditOne,
                  EditCards, Edit, Undo
    <3>2. last' = last
      BY <2>2, <3>1 DEF Begin, deck
    <3>3. LastIsExplained'
      BY <1>1, <3>1, <3>2, BeginningExplains
    <3>4. UndoGoesBack'
      <4>1. CASE \E u \in DOMAIN log : Undo(u)
        BY <1>1, <1>2, <3>2, <4>1, UndoBegins
      <4>2. CASE ~\E u \in DOMAIN log : Undo(u)
        <5>1. PICK via, changes : Begin(<<Plan("edit", via, changes)>>)
          BY <2>3, <4>2 DEF Request, AddCard, RemoveCard, MoveCard, SetRole, SetQuantity,
                            EditOne, EditCards, Edit
        <5>2. acts' = <<Plan("edit", via, changes)>>
          BY <5>1 DEF Begin
        <5>3. acts'[1].kind = "edit"
          BY <5>2 DEF Plan
        <5>4. QED  BY <5>3 DEF UndoGoesBack, Reversing
      <4>3. QED  BY <4>1, <4>2
    <3>5. QED  BY <1>2, <3>3, <3>4 DEF HInv
  <2>4. CASE Organisation
    <3>1. Idle' /\ log' = log
      BY <2>4 DEF Organisation, CreateSlot, DeleteSlot, OrganizeCard, ShortlistCard,
                  UnshortlistCard, SetDeckCategory, Organising, running, deck, Idle
    <3>2. QED  BY <1>1, <1>2, <2>2, <3>1, IdleIsExplained DEF HInv
  <2>5. CASE ApplyAdd \/ ApplyCut \/ ApplyRole
    <3>1. log' = log
      BY <2>5 DEF ApplyAdd, ApplyCut, ApplyRole, Applied
    <3>2. QED  BY <1>1, <1>2, <2>2, <2>5, <3>1, ApplyingExplains, ApplyingGoesBack DEF HInv
  <2>6. CASE Refuse \/ Crash
    <3>1. ~Idle /\ Restore
      BY <2>6 DEF Refuse, Crash, Applying
    <3>2. Idle' /\ log' = log
      BY <1>1, <3>1 DEF Restore, Done, Idle, OneAct
    <3>3. QED  BY <1>1, <1>2, <2>2, <3>2, IdleIsExplained DEF HInv
  <2>7. CASE Land
    <3>1. LastIsExplained' /\ Idle'
      BY <1>1, <2>1, <2>7, LandingExplains
    <3>2. QED  BY <1>2, <3>1 DEF HInv, UndoGoesBack, Reversing
  <2>8. QED  BY <2>1, <2>3, <2>4, <2>5, <2>6, <2>7 DEF Next, Working
<1>5. QED  BY <1>3, <1>4

-----------------------------------------------------------------------------
(* The theorems *)

\* The log of one act per request says, for every card, what each entry made
\* of it, an undo of the newest entry is card by card on its way back, and what
\* the log and the running act have moved is what the deck holds.
THEOREM DeckHistoryInvariance == HSpec => []HInv
<1>1. QED  BY HInitIsSound, HNextKeeps, PTL DEF HSpec

\* "This log is the version history": what the entries of the log put in and took
\* out is, card by card, what the deck holds, for every request and every number
\* of acts (applyChanges, undoEntry of membership.ts).
THEOREM LogAlwaysExplainsDeck == HSpec => []LogExplainsDeck
<1>1. HInv => LogExplainsDeck
  <2> SUFFICES ASSUME HInv, Idle, NEW c \in Card
               PROVE  Recorded(c, log) = IF InDeck(c) THEN rows[c].quantity ELSE 0
    BY DEF LogExplainsDeck
  <2>1. log \in Seq(Entry) /\ logged = <<>> /\ Recorded(c, log) + Net(c, logged) = Held(rows, c)
    BY DEF HInv, IInv, TypeOK, IdentityFollows, CopiesAreLogged
  <2>2. <<>> \in Seq(LogCard)
    OBVIOUS
  <2>3. Recorded(c, log) \in Int /\ Net(c, <<>>) = 0
    BY <2>1, <2>2, RecordedFacts, NetFacts
  <2>4. QED  BY <2>1, <2>3 DEF Held, InDeck, Present
<1>2. QED  BY <1>1, DeckHistoryInvariance, PTL

\* Every undo that lands, of the newest entry and with nothing changed since,
\* brings every row back: copies, role, deck or maybe list, and the slots that
\* still exist (reverseCard, reverseRole and undoEntry of membership.ts).
THEOREM UndoAlwaysRestores == HSpec => UndoRestores
<1>1. HInv /\ [HNext]_hvars => [RowsComeBack]_hvars
  <2> SUFFICES ASSUME HInv, HNext, Reversing, Len(log') > Len(log),
                      OnceEach(log[Len(log)].cards), NEW c \in Card
               PROVE  Kept(rows[c]) = Kept(last.before[c])
    BY DEF RowsComeBack
  <2>1. IInv /\ OneAct /\ LastIsExplained /\ GoesBack(c) /\ OnceEach(Newest)
    BY DEF HInv, UndoGoesBack, Newest
  <2>2. Todo(c) = {}
    <3>1. Len(log) \in Nat /\ ~(log' = log)
      BY <2>1 DEF IInv, TypeOK
    <3>2. Land
      BY <2>1, <3>1
      DEF HNext, Next, Working, Request, AddCard, RemoveCard, MoveCard, SetRole, SetQuantity,
          EditOne, EditCards, Edit, Undo, Begin, Organisation, CreateSlot, DeleteSlot,
          OrganizeCard, ShortlistCard, UnshortlistCard, SetDeckCategory, Organising, deck,
          ApplyAdd, ApplyCut, ApplyRole, Applied, Refuse, Crash, Restore, OneAct, Reversing
    <3>3. QED  BY <3>2 DEF Land, Todo
  <2>3. \A i \in DOMAIN Newest : Newest[i].card = c /\ rows[c] = last.after[c]
                                    => WholeReversal(i) # {}
    BY <2>1, WholeReversalIsSome
  <2>4. QED  BY <2>1, <2>2, <2>3 DEF GoesBack
<1>2. QED  BY <1>1, DeckHistoryInvariance, PTL DEF HSpec, UndoRestores
=============================================================================
