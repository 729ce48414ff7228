-------------------------- MODULE PriorityStack_proofs --------------------------
(***************************************************************************)
(* The safety of PriorityStack for every number of seats, every set of     *)
(* cards and every stack limit: IInv holds initially and every action      *)
(* preserves it, and the round of passes and the mana of the table are     *)
(* kept besides.  Then what the kernel's two memories stand for: the       *)
(* passes it counts were made on the table as it is, and a cast that is    *)
(* given up leaves the table it began on.                                  *)
(***************************************************************************)
EXTENDS PriorityStackHistoryInvariant, FiniteOrders, TLAPS, SequenceTheorems

-----------------------------------------------------------------------------
(* What the helpers compute: the top of a stack, the next live player      *)

\* Game::top is an instance of the stack, and none has a later StackId.
LEMMA TopIsLast ==
    ASSUME NEW st \in SUBSET StackInstance, IsFiniteSet(st), st # {}
    PROVE  TopOf(st) \in st /\ \A t \in st : t.id <= TopOf(st).id
<1> DEFINE f == [s \in st |-> s.id]
<1>1. f \in [st -> Int]
  BY DEF StackInstance
<1>2. PICK s \in st : \A t \in st : f[t] <= f[s]
  <2> HIDE DEF f
  <2> QED  BY <1>1, GreatestExists
<1>3. \A t \in st : t.id <= s.id
  BY <1>2
<1>4. QED  BY <1>3 DEF TopOf

\* With unique StackIds, the instance with the greatest one is the top.
LEMMA LastIsTop ==
    ASSUME NEW st \in SUBSET StackInstance, NEW s \in st,
           \A t \in st : t.id <= s.id,
           \A t, u \in st : t.id = u.id => t = u
    PROVE  TopOf(st) = s
<1> DEFINE IsLast(t) == t \in st /\ \A u \in st : u.id <= t.id
<1>1. IsLast(TopOf(st))
  BY DEF TopOf
<1>2. TopOf(st).id = s.id
  BY <1>1 DEF StackInstance
<1>3. QED  BY <1>1, <1>2

\* There are finitely many seats.
LEMMA SeatsFinite == \A L \in SUBSET Seat : IsFiniteSet(L)
<1>1. IsFiniteSet(0 .. N - 1)
  BY FS_Interval, SeatAssumption
<1>2. IsFiniteSet(Seat)
  BY <1>1 DEF Seat
<1>3. QED  BY <1>2, FS_Subset

\* Game::next_live names a player who is at the table.
LEMMA NextLiveIsLive ==
    ASSUME NEW a \in Seat, NEW L \in SUBSET Seat, L # {}
    PROVE  NextLive(a, L) \in L /\ \A q \in L : Ahead(a, NextLive(a, L)) <= Ahead(a, q)
<1> DEFINE f == [q \in L |-> 0 - Ahead(a, q)]
<1>1. IsFiniteSet(L)
  BY SeatsFinite
<1>2. \A q \in L : Ahead(a, q) \in Int
  BY SeatAssumption DEF Seat, Ahead
<1>3. f \in [L -> Int]
  BY <1>2
<1>4. PICK p \in L : \A q \in L : f[q] <= f[p]
  <2> HIDE DEF f
  <2> QED  BY <1>1, <1>3, GreatestExists
<1>5. \A q \in L : Ahead(a, p) <= Ahead(a, q)
  BY <1>2, <1>4
<1>6. QED  BY <1>5 DEF NextLive

\* A finite set of instances with unique StackIds and cards.
IsStack(st) ==
    /\ st \in SUBSET StackInstance /\ IsFiniteSet(st)
    /\ \A s, t \in st : s.id = t.id \/ s.card = t.card => s = t

\* Taking instances off a stack leaves a stack, with the same top if that stays.
LEMMA StackShrinks ==
    ASSUME NEW st, IsStack(st), NEW less \in SUBSET st
    PROVE  /\ IsStack(less)
           /\ Cardinality(less) \in Nat /\ Cardinality(less) <= Cardinality(st)
           /\ TopOf(st) \in less => TopOf(less) = TopOf(st)
<1>1. IsStack(less)
  BY FS_Subset DEF IsStack
<1>2. Cardinality(less) \in Nat /\ Cardinality(less) <= Cardinality(st)
  BY FS_Subset, FS_CardinalityType DEF IsStack
<1>3. ASSUME TopOf(st) \in less PROVE TopOf(less) = TopOf(st)
  <2>1. \A t \in less : t.id <= TopOf(st).id
    BY <1>3, TopIsLast DEF IsStack
  <2>2. QED  BY <1>1, <1>3, <2>1, LastIsTop DEF IsStack
<1>4. QED  BY <1>1, <1>2, <1>3

\* Putting an instance with a later StackId on a stack makes it the top.
LEMMA StackGrows ==
    ASSUME NEW st, IsStack(st), NEW s \in StackInstance,
           \A t \in st : t.id < s.id /\ t.card # s.card
    PROVE  /\ IsStack(st \cup {s}) /\ TopOf(st \cup {s}) = s
           /\ Cardinality(st) \in Nat /\ Cardinality(st \cup {s}) = Cardinality(st) + 1
           /\ {t.card : t \in st \cup {s}} = {t.card : t \in st} \cup {s.card}
<1>1. s \notin st
  BY DEF IsStack, StackInstance
<1>2. IsFiniteSet(st \cup {s}) /\ Cardinality(st \cup {s}) = Cardinality(st) + 1
  BY <1>1, FS_AddElement DEF IsStack
<1>3. IsStack(st \cup {s})
  BY <1>2 DEF IsStack, StackInstance
<1>4. \A t \in st \cup {s} : t.id <= s.id
  BY DEF IsStack, StackInstance
<1>5. TopOf(st \cup {s}) = s
  BY <1>3, <1>4, LastIsTop DEF IsStack
<1>6. {t.card : t \in st \cup {s}} = {t.card : t \in st} \cup {s.card}
  OBVIOUS
<1>7. Cardinality(st) \in Nat
  BY FS_CardinalityType DEF IsStack
<1>8. QED  BY <1>2, <1>3, <1>5, <1>6, <1>7

\* Rewriting the target or the payment of the top changes nothing else.
LEMMA TopRewritten ==
    ASSUME NEW st, IsStack(st), st # {}, NEW s \in StackInstance,
           s.id = TopOf(st).id, s.card = TopOf(st).card
    PROVE  LET new == (st \ {TopOf(st)}) \cup {s}
           IN  /\ IsStack(new) /\ TopOf(new) = s
               /\ Cardinality(new) = Cardinality(st)
               /\ {t.card : t \in new} = {t.card : t \in st}
<1> DEFINE rest == st \ {TopOf(st)}
<1>1. TopOf(st) \in st /\ \A t \in st : t.id <= TopOf(st).id
  BY TopIsLast DEF IsStack
<1>2. IsStack(rest)
  BY StackShrinks
<1>3. \A t \in rest : t.id < s.id /\ t.card # s.card
  BY <1>1 DEF IsStack, StackInstance
<1>4. Cardinality(rest) = Cardinality(st) - 1 /\ Cardinality(st) \in Nat
  BY <1>1, FS_RemoveElement, FS_CardinalityType DEF IsStack
<1>5. /\ IsStack(rest \cup {s}) /\ TopOf(rest \cup {s}) = s
      /\ Cardinality(rest \cup {s}) = Cardinality(rest) + 1
  <2> HIDE DEF rest
  <2> QED  BY <1>2, <1>3, StackGrows
<1>6. {t.card : t \in rest \cup {s}} = {t.card : t \in st}
  BY <1>1
<1>7. Cardinality(rest \cup {s}) = Cardinality(st)
  BY <1>4, <1>5
<1>8. QED  BY <1>5, <1>6, <1>7, Zenon

\* The stack without its top.
LEMMA TopTaken ==
    ASSUME NEW st, IsStack(st), st # {}
    PROVE  {t.card : t \in st \ {TopOf(st)}} = {t.card : t \in st} \ {TopOf(st).card}
<1>1. TopOf(st) \in st
  BY TopIsLast DEF IsStack
<1>2. QED  BY <1>1 DEF IsStack

-----------------------------------------------------------------------------
(* What the invariant says of the stack, a cast and an accepted input *)

\* The top of a stack that is not empty.
LEMMA StackFacts ==
    ASSUME TypeOK, TableIsSound, StackMatchesZones, stack # {}
    PROVE  /\ Top \in stack /\ Top \in StackInstance
           /\ \A t \in stack : t.id <= Top.id
           /\ zone[Top.card] = "stack"
           /\ \A t \in stack : t.card = Top.card => t = Top
<1>1. stack \in SUBSET StackInstance
  BY DEF TypeOK
<1>2. Top \in stack /\ \A t \in stack : t.id <= Top.id
  BY <1>1, TopIsLast DEF Top, TableIsSound
<1>3. QED  BY <1>1, <1>2 DEF StackMatchesZones

LEMMA StackIsStack == IInv => IsStack(stack)
  BY DEF IInv, TypeOK, TableIsSound, StackMatchesZones, IsStack

\* While a spell is being cast it is the top of the stack, its owner is at the
\* table and holds priority.
LEMMA CastFacts ==
    ASSUME IInv, frame \in CastFrames
    PROVE  /\ Top \in stack /\ Top \in StackInstance
           /\ Top.card = cast.source /\ cast.source \in Spells
           /\ Owner[cast.source] = priority /\ priority \in live
           /\ zone[cast.source] = "stack" /\ ~Top.paid
           /\ \A t \in stack : t.id <= Top.id
           /\ \A t \in stack : t.card = cast.source => t = Top
<1>1. stack # {} /\ Top.card = cast.source /\ ~Top.paid /\ Owner[cast.source] = priority
  BY DEF IInv, CastingIsOnTop
<1>2. Top \in stack /\ Top \in StackInstance /\ zone[cast.source] = "stack"
      /\ (\A t \in stack : t.id <= Top.id) /\ (\A t \in stack : t.card = cast.source => t = Top)
  BY <1>1, StackFacts DEF IInv
<1>3. cast.source \in Spells
  BY <1>1, <1>2 DEF StackInstance
<1>4. QED  BY <1>1, <1>2, <1>3 DEF IInv, DepartedHoldNothing

\* The mana that taking a cast back would cost is a number.
LEMMA ActivatedIsNat == TypeOK => \A k \in Colours : ActivatedOf(k) \in Nat
<1> SUFFICES ASSUME TypeOK, NEW k \in Colours PROVE ActivatedOf(k) \in Nat
  OBVIOUS
<1>1. {l \in cast.activated : Produces[l] = k} \in SUBSET Lands
  BY DEF TypeOK, Casting
<1>2. QED  BY <1>1, FS_Subset, FS_CardinalityType, CardAssumption DEF ActivatedOf

\* An accepted input is a valid answer to the frame it waits in.
LEMMA PendingFacts ==
    ASSUME IInv, pending.kind # "None", frame # "Fault"
    PROVE  pending \in Input /\ pending.player \in live
           /\ Valid(pending, frame, priority, zone, tapped, stack)
  BY DEF IInv, TypeOK, NoInput, PendingStillValid, DepartedHoldNothing

-----------------------------------------------------------------------------

LEMMA SubmitKeeps == IInv /\ Submit => IInv'
<1> SUFFICES ASSUME IInv, Submit PROVE IInv'
  OBVIOUS
<1>1. PICK in \in Input : /\ pending' = in /\ Valid(in, frame, priority, zone, tapped, stack)
                          /\ in.player = Asked
  BY DEF Submit, AwaitsDecision, Answers, Input, IInv, DepartedHoldNothing, TypeOK
<1>2. TypeOK'
  BY <1>1 DEF IInv, Submit, TypeOK, table
<1>3. QueueIsSound' /\ TableIsSound' /\ CastIsReversible' /\ ResolvingIsTargeted'
  BY DEF IInv, Submit, QueueIsSound, TableIsSound, CastIsReversible, ResolvingIsTargeted,
         SomeLegal, ActivatedOf, table
<1>4. DepartedHoldNothing'
  BY <1>1 DEF IInv, Submit, DepartedHoldNothing, Queued, table, AwaitsDecision
<1>5. StackMatchesZones' /\ CastingIsOnTop' /\ ResolvingIsFrozenTop'
  BY DEF IInv, Submit, StackMatchesZones, CastingIsOnTop, ResolvingIsFrozenTop,
         Top, CompletionFails, SourcePresent, Drained, Leaver, table
<1>6. PendingStillValid'
  BY <1>1 DEF Submit, AwaitsDecision, PendingStillValid, table
<1>7. QED  BY <1>2, <1>3, <1>4, <1>5, <1>6 DEF IInv

LEMMA ConcedeKeeps == ASSUME NEW p \in Seat PROVE IInv /\ Concede(p) => IInv'
<1> SUFFICES ASSUME IInv, Concede(p) PROVE IInv'
  OBVIOUS
<1>1. concessions \in Seq(Seat) /\ concessions' = Append(concessions, p) /\ p \in live
      /\ \A i \in DOMAIN concessions : concessions[i] # p
  BY DEF IInv, TypeOK, Concede
<1>2. /\ concessions' \in Seq(Seat) /\ Len(concessions') = Len(concessions) + 1
      /\ DOMAIN concessions' = 1 .. Len(concessions) + 1
      /\ \A i \in 1 .. Len(concessions) : concessions'[i] = concessions[i]
      /\ concessions'[Len(concessions) + 1] = p
  BY <1>1
<1>3. TypeOK'
  BY <1>2 DEF IInv, Concede, TypeOK, table
<1>4. QueueIsSound'
  <2>1. Len(concessions') < Cardinality(live')
    <3>1. IsFiniteSet(live)
      BY SeatsFinite DEF IInv, TypeOK
    <3>2. QED  BY <1>1, <1>2, <3>1, FS_CardinalityType DEF Concede
  <2>2. QED  BY <1>1, <1>2, <2>1 DEF IInv, QueueIsSound
<1>5. TableIsSound' /\ CastIsReversible' /\ ResolvingIsTargeted'
  BY DEF IInv, Concede, TableIsSound, CastIsReversible, ResolvingIsTargeted,
         SomeLegal, ActivatedOf, table
<1>6. DepartedHoldNothing'
  <2>1. Queued' \subseteq live'
    BY <1>1, <1>2 DEF IInv, DepartedHoldNothing, Queued, Concede
  <2>2. QED  BY <2>1 DEF IInv, Concede, DepartedHoldNothing, table
<1>7. StackMatchesZones' /\ CastingIsOnTop' /\ ResolvingIsFrozenTop'
  BY DEF IInv, Concede, StackMatchesZones, CastingIsOnTop, ResolvingIsFrozenTop, Ended,
         Top, CompletionFails, SourcePresent, table
<1>8. PendingStillValid'
  BY DEF IInv, Concede, PendingStillValid, table
<1>9. QED  BY <1>3, <1>4, <1>5, <1>6, <1>7, <1>8 DEF IInv

LEMMA ActivateManaKeeps == IInv /\ ActivateMana => IInv'
<1> SUFFICES ASSUME IInv, ActivateMana PROVE IInv'
  OBVIOUS
<1>1. pending \in Input /\ frame = "Priority" /\ pending.card \in Lands
      /\ pending.player \in Seat /\ zone[pending.card] = "battlefield"
  BY PendingFacts DEF ActivateMana, Applies, CanActivate, Input
<1>2. TypeOK'
  <2>1. mana' \in [Seat -> [Colours -> Nat]]
    BY <1>1, ManaAssumption DEF IInv, ActivateMana, TypeOK, Tap
  <2>2. QED  BY <1>1, <2>1 DEF IInv, ActivateMana, TypeOK, Tap
<1>3. QueueIsSound' /\ TableIsSound' /\ CastIsReversible' /\ ResolvingIsTargeted'
  BY <1>1 DEF IInv, ActivateMana, Tap, QueueIsSound, TableIsSound, CastIsReversible,
         ResolvingIsTargeted, CastFrames
<1>4. DepartedHoldNothing'
  BY DEF IInv, ActivateMana, DepartedHoldNothing, Queued
<1>5. StackMatchesZones' /\ CastingIsOnTop' /\ ResolvingIsFrozenTop'
  BY <1>1 DEF IInv, ActivateMana, StackMatchesZones, CastingIsOnTop, ResolvingIsFrozenTop,
         CastFrames, Top
<1>6. PendingStillValid'
  BY DEF ActivateMana, PendingStillValid
<1>7. QED  BY <1>2, <1>3, <1>4, <1>5, <1>6 DEF IInv

LEMMA ActivateWhileCastingKeeps == IInv /\ ActivateWhileCasting => IInv'
<1> SUFFICES ASSUME IInv, ActivateWhileCasting PROVE IInv'
  OBVIOUS
<1>1. pending \in Input /\ frame = "Mana" /\ pending.card \in Lands
      /\ pending.player \in Seat /\ zone[pending.card] = "battlefield"
      /\ pending.player = priority /\ Controller[pending.card] = priority
  BY PendingFacts, CastFacts
     DEF ActivateWhileCasting, Applies, CanActivate, Input, Valid, Top, CastFrames
<1>2. TypeOK'
  <2>1. mana' \in [Seat -> [Colours -> Nat]]
    BY <1>1, ManaAssumption DEF IInv, ActivateWhileCasting, TypeOK, Tap
  <2>2. QED  BY <1>1, <2>1 DEF IInv, ActivateWhileCasting, TypeOK, Tap, Casting
<1>3. QueueIsSound' /\ TableIsSound' /\ ResolvingIsTargeted'
  BY <1>1 DEF IInv, ActivateWhileCasting, Tap, QueueIsSound, TableIsSound, ResolvingIsTargeted
<1>4. DepartedHoldNothing'
  BY DEF IInv, ActivateWhileCasting, DepartedHoldNothing, Queued
<1>5. StackMatchesZones' /\ ResolvingIsFrozenTop'
  BY <1>1 DEF IInv, ActivateWhileCasting, StackMatchesZones, ResolvingIsFrozenTop,
         Top
<1>6. CastingIsOnTop'
  <2>1. cast'.source = cast.source /\ cast'.activated = cast.activated \cup {pending.card}
    BY DEF IInv, TypeOK, Casting, ActivateWhileCasting
  <2>2. frame' = "Mana" /\ stack' = stack /\ zone' = zone /\ priority' = priority
        /\ live' = live /\ tapped' = tapped \cup {pending.card}
    BY <1>1 DEF ActivateWhileCasting, Tap
  <2>3. QED  BY <1>1, <2>1, <2>2 DEF IInv, CastingIsOnTop, CastFrames, Top
<1>7. CastIsReversible'
  <2>1. ASSUME NEW k \in Colours PROVE ActivatedOf(k)' <= mana'[priority'][k]
    <3> DEFINE Old == {l \in cast.activated : Produces[l] = k}
    <3>1. IsFiniteSet(Old)
      <4>1. Old \in SUBSET Lands
        BY DEF IInv, TypeOK, Casting
      <4>2. QED  BY <4>1, FS_Subset, CardAssumption
    <3>2. Cardinality(Old) \in Nat /\ Cardinality(Old \cup {pending.card}) <= Cardinality(Old) + 1
      <4> HIDE DEF Old
      <4>1. Cardinality(Old) \in Nat
        BY <3>1, FS_CardinalityType
      <4>2. Cardinality(Old \cup {pending.card}) =
              IF pending.card \in Old THEN Cardinality(Old) ELSE Cardinality(Old) + 1
        BY <3>1, FS_AddElement
      <4>3. QED  BY <4>1, <4>2
    <3>3. Cardinality(Old) <= mana[priority][k] /\ mana[priority][k] \in Nat
      BY <1>1 DEF IInv, TypeOK, CastIsReversible, ActivatedOf, CastFrames
    <3>4. CASE Produces[pending.card] = k
      <4>1. {l \in cast'.activated : Produces[l] = k} = Old \cup {pending.card}
        BY <3>4 DEF IInv, TypeOK, Casting, ActivateWhileCasting
      <4>2. mana'[priority'][k] = mana[priority][k] + 1
        BY <1>1, <3>4 DEF IInv, TypeOK, ActivateWhileCasting, Tap
      <4>3. ActivatedOf(k)' = Cardinality(Old \cup {pending.card})
        BY <4>1 DEF ActivatedOf
      <4>4. Cardinality(Old \cup {pending.card}) \in Nat
        BY <3>1, FS_AddElement, FS_CardinalityType
      <4> HIDE DEF Old
      <4>5. QED  BY <4>2, <4>3, <4>4, <3>2, <3>3
    <3>5. CASE Produces[pending.card] # k
      <4>1. {l \in cast'.activated : Produces[l] = k} = Old
        BY <3>5 DEF IInv, TypeOK, Casting, ActivateWhileCasting
      <4>2. mana'[priority'][k] = mana[priority][k]
        BY <1>1, <3>5 DEF IInv, TypeOK, ActivateWhileCasting, Tap
      <4>3. QED  BY <4>1, <4>2, <3>3 DEF ActivatedOf
    <3>6. QED  BY <3>4, <3>5
  <2>2. QED  BY <1>1, <2>1 DEF IInv, TypeOK, Casting, ActivateWhileCasting, CastIsReversible
<1>8. PendingStillValid'
  BY DEF ActivateWhileCasting, PendingStillValid
<1>9. QED  BY <1>2, <1>3, <1>4, <1>5, <1>6, <1>7, <1>8 DEF IInv

LEMMA FinishManaKeeps == IInv /\ FinishMana => IInv'
<1> SUFFICES ASSUME IInv, FinishMana PROVE IInv'
  OBVIOUS
<1>1. pending \in Input /\ frame = "Mana"
  BY PendingFacts DEF FinishMana, Applies
<1>2. TypeOK'
  BY <1>1 DEF IInv, FinishMana, TypeOK, Casting, Input, Frames, CastFrames, table
<1>3. QueueIsSound' /\ TableIsSound' /\ CastIsReversible' /\ ResolvingIsTargeted'
  BY <1>1 DEF IInv, TypeOK, Casting, FinishMana, QueueIsSound, TableIsSound, CastIsReversible,
         ResolvingIsTargeted, CastFrames, ActivatedOf, table
<1>4. DepartedHoldNothing'
  BY DEF IInv, FinishMana, DepartedHoldNothing, Queued, table
<1>5. StackMatchesZones' /\ CastingIsOnTop' /\ ResolvingIsFrozenTop'
  BY <1>1 DEF IInv, TypeOK, Casting, FinishMana, StackMatchesZones, CastingIsOnTop,
         ResolvingIsFrozenTop, CastFrames, Top, table
<1>6. PendingStillValid'
  BY DEF FinishMana, PendingStillValid
<1>7. QED  BY <1>2, <1>3, <1>4, <1>5, <1>6 DEF IInv

LEMMA CastKeeps == IInv /\ Cast => IInv'
<1> SUFFICES ASSUME IInv, Cast PROVE IInv'
  OBVIOUS
<1> DEFINE c == pending.card
<1> DEFINE new == [id |-> NextStackId, card |-> c, target |-> None, paid |-> FALSE]
<1>1. /\ frame = "Priority" /\ c \in Spells /\ zone[c] = "hand"
      /\ Owner[c] = priority /\ priority \in live
      /\ Cardinality(stack) < MaxStack /\ SomeLegal(zone)
  BY PendingFacts DEF Cast, Applies, Valid, CanCast, IInv, DepartedHoldNothing
<1>2. /\ zone' = [zone EXCEPT ![c] = "stack"] /\ stack' = stack \cup {new}
      /\ cast' = [source |-> c, prior |-> passes, activated |-> {}, undo |-> FALSE]
      /\ passes' = {} /\ frame' = "Targets" /\ pending' = NoInput
      /\ UNCHANGED <<live, active, priority, tapped, mana, resolving, concessions>>
  BY DEF Cast
<1>3. NextStackId \in Nat /\ \A t \in stack : t.id < NextStackId
  BY StackFacts DEF NextStackId, IInv, StackInstance, TypeOK
<1>4. new \in StackInstance
  BY <1>1, <1>3 DEF StackInstance
<1>5. \A t \in stack : t.card # c
  BY <1>1 DEF IInv, StackMatchesZones
<1>6. IsStack(stack') /\ Top' = new /\ Cardinality(stack') \in Nat
      /\ Cardinality(stack') = Cardinality(stack) + 1 /\ Cardinality(stack) \in Nat
      /\ {s.card : s \in stack'} = {s.card : s \in stack} \cup {c}
  <2>0. new.card = c
    OBVIOUS
  <2> HIDE DEF c
  <2>1. \A t \in stack : t.id < new.id /\ t.card # new.card
    BY <1>3, <1>5
  <2> HIDE DEF new
  <2>2. IsStack(stack \cup {new}) /\ TopOf(stack \cup {new}) = new
        /\ Cardinality(stack) \in Nat /\ Cardinality(stack \cup {new}) = Cardinality(stack) + 1
        /\ {s.card : s \in stack \cup {new}} = {s.card : s \in stack} \cup {new.card}
    BY <1>4, <2>1, StackIsStack, StackGrows
  <2>3. QED  BY <1>2, <2>0, <2>2 DEF Top
<1>7. TypeOK'
  BY <1>1, <1>2, <1>6 DEF IInv, TypeOK, Card, Zones, Casting, Frames, CastFrames, IsStack
<1>8. QueueIsSound' /\ ResolvingIsTargeted'
  BY <1>2 DEF IInv, QueueIsSound, ResolvingIsTargeted
<1>9. TableIsSound'
  BY <1>1, <1>2, <1>6, CardAssumption DEF IInv, TypeOK, TableIsSound, IsStack, Card
<1>10. DepartedHoldNothing'
  BY <1>1, <1>2 DEF IInv, TypeOK, DepartedHoldNothing, Queued
<1>11. StackMatchesZones'
  <2>1. {s.card : s \in stack'} = {d \in Card : zone'[d] = "stack"}
    <3>1. {d \in Card : zone'[d] = "stack"} = {d \in Card : zone[d] = "stack"} \cup {c}
      BY <1>1, <1>2 DEF IInv, TypeOK, Card
    <3>2. QED  BY <1>6, <3>1 DEF IInv, StackMatchesZones
  <2>2. Cardinality(stack') <= MaxStack
    BY <1>1, <1>6, StackAssumption
  <2>3. \A s \in stack' : (s.paid /\ s.target # None) \/ s = new
    BY <1>1, <1>2 DEF IInv, StackMatchesZones, CastFrames
  <2>4. QED  BY <1>2, <1>6, <2>1, <2>2, <2>3 DEF StackMatchesZones, IsStack, CastFrames
<1>12. CastingIsOnTop'
  BY <1>1, <1>2, <1>6 DEF CastingIsOnTop, CastFrames
<1>13. CastIsReversible'
  <2>1. SomeLegal(zone')
    BY <1>1, <1>2, CardAssumption DEF IInv, TypeOK, SomeLegal, Legal, Card
  <2>2. \A k \in Colours : ActivatedOf(k)' = 0
    BY <1>2, FS_EmptySet DEF ActivatedOf
  <2>3. QED  BY <1>1, <1>2, <2>1, <2>2 DEF IInv, TypeOK, CastIsReversible
<1>14. ResolvingIsFrozenTop' /\ PendingStillValid'
  BY <1>1, <1>2 DEF IInv, ResolvingIsFrozenTop, PendingStillValid
<1>15. QED  BY <1>7, <1>8, <1>9, <1>10, <1>11, <1>12, <1>13, <1>14 DEF IInv

LEMMA PassKeeps == IInv /\ Pass => IInv'
<1> SUFFICES ASSUME IInv, Pass PROVE IInv'
  OBVIOUS
<1>1. frame = "Priority" /\ pending \in Input /\ pending.player \in live /\ live \in SUBSET Seat
  BY PendingFacts DEF Pass, Applies, IInv, TypeOK
<1>2. /\ UNCHANGED <<live, active, zone, tapped, mana, stack, cast, concessions>>
      /\ pending' = NoInput
  BY DEF Pass, table
<1>3. CASE AllPassed(passes \cup {pending.player}, live)
  <2>1. /\ stack # {} /\ passes' = {} /\ frame' = "Resolve" /\ priority' = priority
        /\ resolving' = [spell |-> Top, legal |-> Legal(Top.target, zone), cursor |-> 0]
    BY <1>3 DEF Pass, BeginResolution, Top
  <2>2. Top \in stack /\ Top \in StackInstance /\ zone[Top.card] = "stack"
    BY <2>1, StackFacts DEF IInv
  <2>3. Top.paid /\ Top.target # None
    BY <1>1, <2>2 DEF IInv, StackMatchesZones, CastFrames
  <2>4. TypeOK'
    BY <1>2, <2>1, <2>2 DEF IInv, TypeOK, Frames, Resolving, Legal
  <2>5. QueueIsSound' /\ TableIsSound' /\ CastIsReversible' /\ ResolvingIsTargeted'
    BY <1>2, <2>1, <2>3 DEF IInv, QueueIsSound, TableIsSound, CastIsReversible,
           ResolvingIsTargeted, CastFrames
  <2>6. DepartedHoldNothing'
    BY <1>2, <2>1 DEF IInv, DepartedHoldNothing, Queued
  <2>7. StackMatchesZones' /\ CastingIsOnTop' /\ PendingStillValid'
    BY <1>1, <1>2, <2>1 DEF IInv, StackMatchesZones, CastingIsOnTop,
           PendingStillValid, CastFrames, Top
  <2>8. ResolvingIsFrozenTop'
    <3>1. ~CompletionFails'
      BY <1>2, <2>1, <2>2 DEF CompletionFails, SourcePresent, Top
    <3>2. resolving' \in Resolving
      BY <2>1, <2>2 DEF Resolving, Legal
    <3>3. QED  BY <2>1, <2>3, <3>1, <3>2 DEF ResolvingIsFrozenTop
  <2>9. QED  BY <2>4, <2>5, <2>6, <2>7, <2>8 DEF IInv
<1>4. CASE ~AllPassed(passes \cup {pending.player}, live)
  <2>1. /\ passes' = passes \cup {pending.player} /\ priority' = NextLive(pending.player, live)
        /\ UNCHANGED <<frame, resolving>>
    BY <1>4 DEF Pass
  <2>2. priority' \in live
    BY <1>1, <2>1, NextLiveIsLive DEF Input
  <2>3. TypeOK'
    BY <1>1, <1>2, <2>1, <2>2 DEF IInv, TypeOK
  <2>4. QueueIsSound' /\ TableIsSound' /\ CastIsReversible' /\ ResolvingIsTargeted'
    BY <1>1, <1>2, <2>1 DEF IInv, QueueIsSound, TableIsSound, CastIsReversible,
           ResolvingIsTargeted, CastFrames
  <2>5. DepartedHoldNothing'
    BY <1>1, <1>2, <2>1, <2>2 DEF IInv, DepartedHoldNothing, Queued
  <2>6. StackMatchesZones' /\ CastingIsOnTop' /\ PendingStillValid'
        /\ ResolvingIsFrozenTop'
    BY <1>1, <1>2, <2>1 DEF IInv, StackMatchesZones, CastingIsOnTop,
           PendingStillValid, CastFrames, ResolvingIsFrozenTop, Top
  <2>7. QED  BY <2>3, <2>4, <2>5, <2>6 DEF IInv
<1>5. QED  BY <1>3, <1>4

LEMMA ChooseTargetsKeeps == IInv /\ ChooseTargets => IInv'
<1> SUFFICES ASSUME IInv, ChooseTargets PROVE IInv'
  OBVIOUS
<1> DEFINE new == [Top EXCEPT !.target = pending.card]
<1>1. frame = "Targets" /\ frame \in CastFrames /\ Legal(pending.card, zone)
  BY PendingFacts DEF ChooseTargets, Applies, Valid, CastFrames
<1>2. /\ stack' = (stack \ {Top}) \cup {new} /\ frame' = "Mana" /\ pending' = NoInput
      /\ UNCHANGED <<live, active, priority, passes, zone, tapped, mana, cast, resolving, concessions>>
  BY DEF ChooseTargets
<1>3. Top \in stack /\ Top \in StackInstance /\ ~Top.paid /\ pending.card \in Creatures
      /\ stack # {} /\ cast.source = Top.card /\ Owner[cast.source] = priority
  BY <1>1, CastFacts DEF Legal
<1>4. new \in StackInstance /\ new.id = Top.id /\ new.card = Top.card
      /\ new.target = pending.card /\ new.paid = Top.paid
  BY <1>3 DEF StackInstance
<1>5. IsStack(stack') /\ Top' = new /\ Cardinality(stack') = Cardinality(stack)
      /\ {t.card : t \in stack'} = {t.card : t \in stack}
  <2> HIDE DEF new
  <2> QED  BY <1>2, <1>3, <1>4, StackIsStack, TopRewritten DEF Top
<1>6. TypeOK'
  BY <1>2, <1>5 DEF IInv, TypeOK, Frames, CastFrames, IsStack
<1>7. QueueIsSound' /\ TableIsSound' /\ ResolvingIsTargeted'
  BY <1>2, <1>5 DEF IInv, QueueIsSound, TableIsSound, ResolvingIsTargeted, IsStack
<1>8. DepartedHoldNothing'
  BY <1>2 DEF IInv, DepartedHoldNothing, Queued
<1>9. StackMatchesZones'
  <2>1. \A s \in stack' : (s.paid /\ s.target # None) \/ s = new
    BY <1>1, <1>2 DEF IInv, StackMatchesZones
  <2>2. QED  BY <1>1, <1>2, <1>3, <1>4, <1>5, <2>1 DEF IInv, StackMatchesZones, IsStack, CastFrames
<1>10. CastingIsOnTop'
  BY <1>1, <1>2, <1>3, <1>4, <1>5 DEF IInv, CastingIsOnTop, CastFrames, IsStack
<1>11. CastIsReversible'
  BY <1>1, <1>2 DEF IInv, CastIsReversible, CastFrames, ActivatedOf
<1>12. ResolvingIsFrozenTop' /\ PendingStillValid'
  BY <1>1, <1>2 DEF IInv, ResolvingIsFrozenTop, PendingStillValid
<1>13. QED  BY <1>6, <1>7, <1>8, <1>9, <1>10, <1>11, <1>12 DEF IInv

LEMMA PayKeeps == IInv /\ Pay => IInv'
<1> SUFFICES ASSUME IInv, Pay PROVE IInv'
  OBVIOUS
<1> DEFINE new == [Top EXCEPT !.paid = TRUE]
<1>1. frame = "Payment" /\ frame \in CastFrames /\ pending = NoInput
  BY DEF Pay, CastFrames, IInv, PendingStillValid, Answers
<1>2. Top \in stack /\ Top \in StackInstance /\ stack # {} /\ cast.source = Top.card
      /\ Owner[Top.card] = priority /\ priority \in live
  BY <1>1, CastFacts
<1>3. /\ mana' = [mana EXCEPT ![priority][Cost] = @ - 1] /\ mana[priority][Cost] >= 1
      /\ stack' = (stack \ {Top}) \cup {new} /\ frame' = "Priority" /\ cast' = NoCast
      /\ UNCHANGED <<live, active, priority, passes, zone, tapped, resolving, pending, concessions>>
  BY <1>2 DEF Pay, Payable
<1>4. new \in StackInstance /\ new.id = Top.id /\ new.card = Top.card
      /\ new.target = Top.target /\ new.paid
  BY <1>2 DEF StackInstance
<1>5. IsStack(stack') /\ Top' = new /\ Cardinality(stack') = Cardinality(stack)
      /\ {t.card : t \in stack'} = {t.card : t \in stack}
  <2> HIDE DEF new
  <2> QED  BY <1>2, <1>3, <1>4, StackIsStack, TopRewritten DEF Top
<1>6. Top.target # None
  BY <1>1, NoneAssumption DEF IInv, CastingIsOnTop, Legal, Card
<1>7. TypeOK'
  <2>1. mana' \in [Seat -> [Colours -> Nat]]
    BY <1>3, ManaAssumption DEF IInv, TypeOK
  <2>2. QED  BY <1>3, <1>5, <2>1 DEF IInv, TypeOK, Frames, NoCast, Casting, IsStack
<1>8. QueueIsSound' /\ TableIsSound' /\ ResolvingIsTargeted' /\ CastIsReversible'
  BY <1>3, <1>5 DEF IInv, QueueIsSound, TableIsSound, ResolvingIsTargeted, CastIsReversible,
         CastFrames, IsStack
<1>9. DepartedHoldNothing'
  BY <1>3 DEF IInv, DepartedHoldNothing, Queued
<1>10. StackMatchesZones'
  <2>1. \A s \in stack' : s.paid /\ s.target # None
    BY <1>1, <1>3, <1>4, <1>6 DEF IInv, StackMatchesZones
  <2>2. QED  BY <1>3, <1>5, <2>1 DEF IInv, StackMatchesZones, IsStack
<1>11. CastingIsOnTop' /\ ResolvingIsFrozenTop' /\ PendingStillValid'
  BY <1>1, <1>3 DEF IInv, CastingIsOnTop, ResolvingIsFrozenTop, PendingStillValid,
         CastFrames
<1>12. QED  BY <1>7, <1>8, <1>9, <1>10, <1>11 DEF IInv

\* Game::reverse_cast takes exactly the spell being cast off what is left of the
\* stack, and gives back no more mana than there is.
LEMMA ReverseCastFacts ==
    ASSUME IInv, frame \in CastFrames, NEW undo \in BOOLEAN, NEW z, NEW t,
           NEW st \in SUBSET stack, Top \in st, ReverseCast(undo, z, t, st)
    PROVE  /\ mana' \in [Seat -> [Colours -> Nat]]
           /\ tapped' \subseteq t
           /\ zone' = [z EXCEPT ![cast.source] = "hand"]
           /\ cast' = NoCast
           /\ stack' = st \ {Top} /\ IsStack(stack')
           /\ Cardinality(stack') <= MaxStack
           /\ {s.card : s \in stack'} = {s.card : s \in st} \ {cast.source}
           /\ \A s \in stack' : s.paid /\ s.target # None
<1>1. IsStack(st) /\ TopOf(st) = Top /\ st # {}
  BY StackIsStack, StackShrinks DEF Top
<1>2. stack' = st \ {Top} /\ zone' = [z EXCEPT ![cast.source] = "hand"] /\ cast' = NoCast
      /\ tapped' \subseteq t
  BY <1>1 DEF ReverseCast
<1>3. mana' \in [Seat -> [Colours -> Nat]]
  <2> DEFINE p == Owner[cast.source]
  <2>1. p = priority /\ p \in Seat
    BY CastFacts DEF IInv, TypeOK
  <2>2. ASSUME NEW k \in Colours
        PROVE ActivatedOf(k) \in Nat /\ ActivatedOf(k) <= mana[p][k]
    BY <2>1, ActivatedIsNat DEF IInv, CastIsReversible
  <2>3. [k \in Colours |-> mana[p][k] - ActivatedOf(k)] \in [Colours -> Nat]
    BY <2>1, <2>2 DEF IInv, TypeOK
  <2>4. CASE ~undo
    BY <2>4 DEF ReverseCast, IInv, TypeOK
  <2>5. CASE undo
    BY <2>1, <2>3, <2>5 DEF ReverseCast, IInv, TypeOK
  <2>6. QED  BY <2>4, <2>5
<1>4. stack' \in SUBSET stack
  BY <1>2
<1>5. IsStack(stack') /\ Cardinality(stack') <= MaxStack
  <2>1. IsStack(stack') /\ Cardinality(stack') \in Nat /\ Cardinality(stack') <= Cardinality(stack)
    BY <1>4, StackIsStack, StackShrinks
  <2>2. Cardinality(stack) \in Nat /\ Cardinality(stack) <= MaxStack
    BY FS_CardinalityType DEF IInv, TableIsSound, StackMatchesZones
  <2>3. QED  BY <2>1, <2>2, StackAssumption
<1>6. {s.card : s \in stack'} = {s.card : s \in st} \ {cast.source}
  BY <1>1, <1>2, CastFacts, TopTaken
<1>7. \A s \in stack' : s.paid /\ s.target # None
  BY <1>2 DEF IInv, StackMatchesZones
<1>8. QED  BY <1>2, <1>3, <1>5, <1>6, <1>7

LEMMA CannotPayKeeps == IInv /\ CannotPay => IInv'
<1> SUFFICES ASSUME IInv, CannotPay PROVE IInv'
  OBVIOUS
<1>1. frame = "Payment" /\ frame \in CastFrames /\ cast.undo \in BOOLEAN
      /\ tapped \in SUBSET Lands /\ zone \in [Card -> Zones]
  BY DEF CannotPay, CastFrames, IInv, TypeOK, Casting
<1>2. cast.source \in Spells /\ Owner[cast.source] = priority /\ priority \in live
      /\ Top \in stack /\ zone[cast.source] = "stack"
  BY <1>1, CastFacts
<1>3. /\ mana' \in [Seat -> [Colours -> Nat]]
      /\ tapped' \subseteq tapped
      /\ zone' = [zone EXCEPT ![cast.source] = "hand"] /\ cast' = NoCast
      /\ stack' = stack \ {Top} /\ IsStack(stack') /\ Cardinality(stack') <= MaxStack
      /\ {s.card : s \in stack'} = {s.card : s \in stack} \ {cast.source}
      /\ \A s \in stack' : s.paid /\ s.target # None
  <2>1. ReverseCast(cast.undo, zone, tapped, stack)
    BY DEF CannotPay
  <2>2. QED  BY <1>1, <1>2, <2>1, ReverseCastFacts
<1>4. /\ passes' \subseteq live /\ priority' = priority /\ frame' = "Priority" /\ pending' = NoInput
      /\ UNCHANGED <<live, active, resolving, concessions>>
  BY <1>2 DEF CannotPay, RestoredPasses
<1>5. TypeOK'
  BY <1>1, <1>2, <1>3, <1>4 DEF IInv, TypeOK, Zones, Frames, NoCast, Casting, IsStack
<1>6. QueueIsSound' /\ ResolvingIsTargeted' /\ CastIsReversible'
  BY <1>3, <1>4 DEF IInv, QueueIsSound, ResolvingIsTargeted, CastIsReversible, CastFrames
<1>7. TableIsSound'
  <2>1. \A l \in tapped' : l # cast.source /\ l \in Card
    BY <1>1, <1>2, <1>3, CardAssumption DEF Card
  <2>2. QED  BY <1>1, <1>3, <2>1 DEF IInv, TableIsSound, IsStack
<1>8. DepartedHoldNothing'
  BY <1>1, <1>2, <1>3, <1>4 DEF IInv, DepartedHoldNothing, Queued
<1>9. StackMatchesZones'
  <2>1. {d \in Card : zone'[d] = "stack"} = {d \in Card : zone[d] = "stack"} \ {cast.source}
    BY <1>1, <1>3
  <2>2. QED  BY <1>3, <2>1 DEF IInv, StackMatchesZones, IsStack
<1>10. CastingIsOnTop' /\ ResolvingIsFrozenTop' /\ PendingStillValid'
  BY <1>1, <1>3, <1>4 DEF IInv, CastingIsOnTop, ResolvingIsFrozenTop, PendingStillValid,
         CastFrames
<1>11. QED  BY <1>5, <1>6, <1>7, <1>8, <1>9, <1>10 DEF IInv

LEMMA ReturnTargetKeeps == IInv /\ ReturnTarget => IInv'
<1> SUFFICES ASSUME IInv, ReturnTarget PROVE IInv'
  OBVIOUS
<1>1. frame = "Resolve" /\ pending = NoInput /\ resolving \in Resolving
  BY DEF ReturnTarget, IInv, PendingStillValid, Answers, ResolvingIsFrozenTop
<1>2. /\ resolving' = [resolving EXCEPT !.cursor = 1]
      /\ UNCHANGED <<live, active, priority, passes, tapped, mana, stack, frame, cast,
                     pending, concessions>>
  BY DEF ReturnTarget
<1>3. resolving' \in Resolving /\ resolving'.spell = resolving.spell
      /\ resolving'.spell.card \in Spells
  BY <1>1, <1>2 DEF Resolving, StackInstance
<1>4. /\ zone' \in [Card -> Zones]
      /\ \A d \in Card : zone'[d] # zone[d] =>
            d \in Creatures /\ zone[d] = "battlefield" /\ zone'[d] = "hand"
  BY DEF IInv, TypeOK, ReturnTarget, Legal, Zones
<1>5. TypeOK'
  BY <1>2, <1>3, <1>4 DEF IInv, TypeOK
<1>6. QueueIsSound' /\ ResolvingIsTargeted' /\ CastIsReversible'
  BY <1>1, <1>2, <1>3 DEF IInv, QueueIsSound, ResolvingIsTargeted, CastIsReversible, CastFrames
<1>7. TableIsSound'
  <2>1. \A l \in tapped : zone'[l] = zone[l]
    BY <1>4, CardAssumption DEF IInv, TypeOK, Card
  <2>2. QED  BY <1>2, <2>1 DEF IInv, TableIsSound
<1>8. DepartedHoldNothing'
  BY <1>2, <1>4 DEF IInv, DepartedHoldNothing, Queued
<1>9. StackMatchesZones'
  <2>1. {d \in Card : zone'[d] = "stack"} = {d \in Card : zone[d] = "stack"}
    BY <1>4
  <2>2. QED  BY <1>1, <1>2, <2>1 DEF IInv, StackMatchesZones, Top, CastFrames
<1>10. ResolvingIsFrozenTop'
  <2>1. zone'[resolving.spell.card] = zone[resolving.spell.card]
    BY <1>3, <1>4, CardAssumption DEF Card
  <2>2. QED  BY <1>1, <1>2, <1>3, <2>1 DEF IInv, ResolvingIsFrozenTop, CompletionFails,
                  SourcePresent, Top
<1>11. CastingIsOnTop' /\ PendingStillValid'
  BY <1>1, <1>2 DEF IInv, CastingIsOnTop, PendingStillValid, CastFrames
<1>12. QED  BY <1>5, <1>6, <1>7, <1>8, <1>9, <1>10, <1>11 DEF IInv

LEMMA FinishSpellKeeps == IInv /\ FinishSpell => IInv'
<1> SUFFICES ASSUME IInv, FinishSpell PROVE IInv'
  OBVIOUS
<1> DEFINE c == resolving.spell.card
<1>1. frame = "Resolve" /\ pending = NoInput /\ resolving \in Resolving /\ c \in Spells
  BY DEF FinishSpell, IInv, PendingStillValid, Answers, ResolvingIsFrozenTop, Resolving, StackInstance
<1>2. /\ frame' = "Priority" /\ resolving' = NoResolving
      /\ priority' = IF active # None THEN active ELSE NextLive(0, live)
      /\ UNCHANGED <<live, active, passes, tapped, mana, cast, pending, concessions>>
  BY DEF FinishSpell
<1>3. priority' \in live /\ live \in SUBSET Seat
  <2>1. 0 \in Seat /\ live # {} /\ live \in SUBSET Seat
    BY SeatAssumption DEF Seat, IInv, TypeOK, DepartedHoldNothing
  <2>2. NextLive(0, live) \in live
    BY <2>1, NextLiveIsLive
  <2>3. QED  BY <1>2, <2>1, <2>2 DEF IInv, DepartedHoldNothing
<1>4. \A s \in stack : s.paid /\ s.target # None
  BY <1>1 DEF IInv, StackMatchesZones, CastFrames
<1>5. /\ stack' \in SUBSET stack /\ zone' \in [Card -> Zones]
      /\ \A d \in Card : zone'[d] = IF d = c /\ SourcePresent THEN "graveyard" ELSE zone[d]
      /\ {s.card : s \in stack'} = {d \in Card : zone'[d] = "stack"}
  <2>1. CASE SourcePresent
    <3>1. Top.card = c /\ stack # {}
      <4>1. Top = resolving.spell
        BY <2>1 DEF FinishSpell, CompletionFails
      <4>2. c \in {s.card : s \in stack}
        BY <1>1, <2>1 DEF SourcePresent, IInv, StackMatchesZones, Card
      <4>3. QED  BY <4>1, <4>2
    <3>2. zone' = [zone EXCEPT ![c] = "graveyard"] /\ stack' = stack \ {Top}
      BY <2>1 DEF FinishSpell
    <3>3. {s.card : s \in stack'} = {s.card : s \in stack} \ {c}
      BY <3>1, <3>2, StackIsStack, TopTaken DEF Top
    <3>4. {d \in Card : zone'[d] = "stack"} = {d \in Card : zone[d] = "stack"} \ {c}
      BY <1>1, <3>2 DEF IInv, TypeOK, Card
    <3>5. zone' \in [Card -> Zones]
          /\ \A d \in Card : zone'[d] = IF d = c /\ SourcePresent THEN "graveyard" ELSE zone[d]
      BY <1>1, <2>1, <3>2 DEF IInv, TypeOK, Card, Zones
    <3>6. QED  BY <3>2, <3>3, <3>4, <3>5 DEF IInv, StackMatchesZones
  <2>2. CASE ~SourcePresent
    BY <2>2 DEF FinishSpell, IInv, StackMatchesZones, TypeOK
  <2>3. QED  BY <2>1, <2>2
<1>6. IsStack(stack') /\ Cardinality(stack') <= MaxStack
  <2>1. IsStack(stack') /\ Cardinality(stack') \in Nat /\ Cardinality(stack') <= Cardinality(stack)
    BY <1>5, StackIsStack, StackShrinks
  <2>2. Cardinality(stack) \in Nat /\ Cardinality(stack) <= MaxStack
    BY FS_CardinalityType DEF IInv, TableIsSound, StackMatchesZones
  <2>3. QED  BY <2>1, <2>2, StackAssumption
<1>7. TypeOK'
  BY <1>2, <1>3, <1>5, <1>6 DEF IInv, TypeOK, Frames, IsStack
<1>8. QueueIsSound' /\ ResolvingIsTargeted' /\ CastIsReversible'
  BY <1>2 DEF IInv, QueueIsSound, ResolvingIsTargeted, CastIsReversible, CastFrames
<1>9. TableIsSound'
  BY <1>1, <1>2, <1>5, <1>6, CardAssumption DEF IInv, TypeOK, TableIsSound, IsStack, Card
<1>10. DepartedHoldNothing'
  <2>1. \A d \in Card : (zone'[d] = "gone" <=> zone[d] = "gone")
                      /\ (zone'[d] = "battlefield" => zone[d] = "battlefield")
    BY <1>5 DEF SourcePresent
  <2>2. QED  BY <1>2, <1>3, <2>1 DEF IInv, DepartedHoldNothing, Queued
<1>11. StackMatchesZones'
  BY <1>4, <1>5, <1>6 DEF StackMatchesZones, IsStack
<1>12. CastingIsOnTop' /\ ResolvingIsFrozenTop' /\ PendingStillValid'
  BY <1>1, <1>2 DEF IInv, CastingIsOnTop, ResolvingIsFrozenTop, PendingStillValid,
         CastFrames
<1>13. QED  BY <1>7, <1>8, <1>9, <1>10, <1>11, <1>12 DEF IInv

-----------------------------------------------------------------------------
(* Departures *)

\* The first of the queue is at the table, the others stay queued, and somebody
\* stays at the table who is not.
LEMMA QueueFacts ==
    ASSUME IInv, ~Drained
    PROVE  /\ Leaver \in live /\ Leaver \in Seat
           /\ Staying \in SUBSET Seat /\ Staying # {} /\ Staying \subseteq live
           /\ Tail(concessions) \in Seq(Seat)
           /\ \A i \in DOMAIN Tail(concessions) : Tail(concessions)[i] \in Staying
           /\ \A i, j \in DOMAIN Tail(concessions) :
                 Tail(concessions)[i] = Tail(concessions)[j] => i = j
           /\ Len(Tail(concessions)) < Cardinality(Staying)
<1>1. concessions \in Seq(Seat) /\ concessions # <<>> /\ live \in SUBSET Seat
  BY DEF IInv, TypeOK, Drained
<1>2. /\ Tail(concessions) \in Seq(Seat) /\ Len(Tail(concessions)) = Len(concessions) - 1
      /\ \A i \in 1 .. Len(Tail(concessions)) : Tail(concessions)[i] = concessions[i + 1]
      /\ Leaver = concessions[1] /\ Len(concessions) \in Nat /\ Len(concessions) >= 1
      /\ DOMAIN concessions = 1 .. Len(concessions)
      /\ DOMAIN Tail(concessions) = 1 .. Len(Tail(concessions))
  BY <1>1, HeadTailProperties DEF Leaver
<1>3. \A i \in DOMAIN concessions : concessions[i] \in live
  BY DEF IInv, DepartedHoldNothing, Queued
<1>4. Leaver \in live /\ Leaver \in Seat
  BY <1>1, <1>2, <1>3
<1>5. \A i, j \in 1 .. Len(concessions) : concessions[i] = concessions[j] => i = j
  BY <1>2 DEF IInv, QueueIsSound
<1>6. \A i \in DOMAIN Tail(concessions) : i + 1 \in 1 .. Len(concessions) /\ i + 1 # 1 /\ i \in Int
  BY <1>2
<1>7. \A i \in DOMAIN Tail(concessions) : Tail(concessions)[i] \in Staying
  BY <1>2, <1>3, <1>5, <1>6 DEF Staying
<1>8. \A i, j \in DOMAIN Tail(concessions) :
        Tail(concessions)[i] = Tail(concessions)[j] => i = j
  <2> SUFFICES ASSUME NEW i \in DOMAIN Tail(concessions), NEW j \in DOMAIN Tail(concessions),
                      Tail(concessions)[i] = Tail(concessions)[j]
               PROVE  i = j
    OBVIOUS
  <2>1. concessions[i + 1] = concessions[j + 1]
    BY <1>2
  <2>2. i + 1 = j + 1
    BY <1>5, <1>6, <2>1
  <2>3. QED  BY <1>6, <2>2
<1>9. Len(Tail(concessions)) < Cardinality(Staying)
  <2>1. IsFiniteSet(live)
    BY <1>1, SeatsFinite
  <2>2. Cardinality(Staying) = Cardinality(live) - 1 /\ Cardinality(live) \in Nat
    BY <1>4, <2>1, FS_RemoveElement, FS_CardinalityType DEF Staying
  <2>3. QED  BY <1>2, <2>2 DEF IInv, QueueIsSound
<1>10. Staying # {}
  BY <1>2, <1>9, FS_EmptySet
<1>11. QED  BY <1>1, <1>2, <1>4, <1>7, <1>8, <1>9, <1>10 DEF Staying

\* What a departure does to the zones (Game::begin_departure).
LEMMA ZoneLeftFacts ==
    ASSUME IInv, ~Drained
    PROVE  /\ ZoneLeft \in [Card -> Zones]
           /\ \A c \in Card : ZoneLeft[c] = "gone" <=> Owner[c] \notin Staying
           /\ \A c \in Card : ZoneLeft[c] = "battlefield" <=>
                /\ zone[c] = "battlefield" /\ Owner[c] # Leaver /\ Controller[c] \in Staying
           /\ \A c \in Card : ZoneLeft[c] = "stack" <=> zone[c] = "stack" /\ Owner[c] # Leaver
<1>1. \A c \in Card : Owner[c] \in Seat /\ zone[c] \in Zones
  BY CardAssumption DEF IInv, TypeOK
<1>2. ZoneLeft \in [Card -> Zones]
  BY <1>1 DEF ZoneLeft, Zones
<1>3. \A c \in Card : zone[c] = "gone" <=> Owner[c] \notin live
  BY DEF IInv, DepartedHoldNothing
<1>4. ASSUME NEW c \in Card
      PROVE  /\ ZoneLeft[c] = "gone" <=> Owner[c] \notin Staying
             /\ ZoneLeft[c] = "battlefield" <=>
                  /\ zone[c] = "battlefield" /\ Owner[c] # Leaver /\ Controller[c] \in Staying
             /\ ZoneLeft[c] = "stack" <=> zone[c] = "stack" /\ Owner[c] # Leaver
  BY <1>1, <1>3 DEF ZoneLeft, Staying
<1>5. QED  BY <1>2, <1>4

\* What it leaves of the stack (Game::finish_departure, lost_stack).
LEMMA StackLeftFacts ==
    ASSUME IInv, ~Drained
    PROVE  /\ StackLeft \in SUBSET stack /\ IsStack(StackLeft)
           /\ Cardinality(StackLeft) <= MaxStack
           /\ {s.card : s \in StackLeft} = {c \in Card : ZoneLeft[c] = "stack"}
           /\ Top \in StackLeft => TopOf(StackLeft) = Top
<1>1. StackLeft \in SUBSET stack
  BY DEF StackLeft
<1>2. IsStack(StackLeft) /\ Cardinality(StackLeft) \in Nat
      /\ Cardinality(StackLeft) <= Cardinality(stack)
      /\ (Top \in StackLeft => TopOf(StackLeft) = Top)
  BY <1>1, StackIsStack, StackShrinks DEF Top
<1>3. Cardinality(stack) \in Nat /\ Cardinality(stack) <= MaxStack
  BY FS_CardinalityType DEF IInv, TableIsSound, StackMatchesZones
<1>4. {s.card : s \in StackLeft} = {c \in Card : ZoneLeft[c] = "stack"}
  BY ZoneLeftFacts DEF IInv, StackMatchesZones, StackLeft
<1>5. QED  BY <1>1, <1>2, <1>3, <1>4, StackAssumption

\* A cast that survives a departure keeps its caster, its place and its priority.
LEMMA CastLeftFacts ==
    ASSUME IInv, ~Drained, frame \in CastFrames, ~CastLost
    PROVE  /\ Owner[cast.source] \in Staying /\ priority # Leaver /\ PriorityLeft = priority
           /\ Top \in StackLeft /\ TopOf(StackLeft) = Top
<1>1. ZoneLeft[cast.source] = "stack" /\ cast.source \in Card
  BY CastFacts DEF CastLost, Card
<1>2. Owner[cast.source] # Leaver /\ priority # Leaver /\ priority \in live
  BY <1>1, ZoneLeftFacts, CastFacts
<1>3. Top \in StackLeft
  BY <1>1, CastFacts DEF StackLeft
<1>4. QED  BY <1>2, <1>3, CastFacts, StackLeftFacts DEF PriorityLeft, Staying

LEMMA LastDepartureKeeps == IInv /\ LastDeparture => IInv'
<1> SUFFICES ASSUME IInv, LastDeparture PROVE IInv'
  OBVIOUS
<1>1. ~Drained /\ frame \notin {"Fault", "Finished"}
  BY DEF LastDeparture, Departs, Ended
<1>2. /\ live' = Staying /\ active' = (IF active = Leaver THEN None ELSE active)
      /\ concessions' = Tail(concessions)
      /\ zone' = ZoneLeft /\ tapped' = TappedLeft /\ stack' = StackLeft
      /\ passes' = passes \cap Staying /\ priority' \in Staying
      /\ frame' = "Finished" /\ pending' = NoInput /\ cast' = NoCast /\ resolving' = NoResolving
      /\ mana' = mana
  BY DEF LastDeparture, Departs
<1>3. TypeOK'
  BY <1>1, <1>2, QueueFacts, ZoneLeftFacts, StackLeftFacts
     DEF IInv, TypeOK, TappedLeft, Frames, NoCast, Casting, IsStack
<1>4. QueueIsSound'
  BY <1>1, <1>2, QueueFacts DEF QueueIsSound
<1>5. TableIsSound' /\ CastIsReversible' /\ ResolvingIsTargeted'
  BY <1>1, <1>2, StackLeftFacts
     DEF TableIsSound, TappedLeft, IsStack, CastIsReversible, ResolvingIsTargeted, CastFrames
<1>6. DepartedHoldNothing'
  <2>1. active' \in live' \cup {None}
    BY <1>2 DEF IInv, DepartedHoldNothing, Staying
  <2>2. Queued' \subseteq live'
    BY <1>1, <1>2, QueueFacts DEF Queued
  <2>3. \A c \in Card : zone'[c] = "battlefield" => c \notin Spells /\ Controller[c] \in live'
    BY <1>1, <1>2, ZoneLeftFacts DEF IInv, DepartedHoldNothing
  <2>4. QED  BY <1>1, <1>2, <2>1, <2>2, <2>3, ZoneLeftFacts DEF DepartedHoldNothing
<1>7. StackMatchesZones'
  <2>1. ASSUME NEW s \in stack', ~(s.paid /\ s.target # None) PROVE s = Top' /\ ~s.paid
    <3>1. s \in stack /\ s = Top /\ ~s.paid
      BY <1>1, <1>2, <2>1, StackLeftFacts DEF IInv, StackMatchesZones
    <3>2. QED  BY <1>1, <1>2, <3>1, StackLeftFacts DEF Top
  <2>2. QED  BY <1>1, <1>2, <2>1, StackLeftFacts DEF StackMatchesZones, IsStack
<1>8. CastingIsOnTop' /\ ResolvingIsFrozenTop' /\ PendingStillValid'
  BY <1>2 DEF CastingIsOnTop, ResolvingIsFrozenTop, PendingStillValid,
         CastFrames
<1>9. QED  BY <1>3, <1>4, <1>5, <1>6, <1>7, <1>8 DEF IInv

\* The frame of a cast stays only if its spell does and still has its target.
LEMMA FrameLeftFacts ==
    ASSUME IInv, ~Drained, frame \notin {"Fault", "Finished"}
    PROVE  /\ FrameLeft \in Frames /\ FrameLeft \notin {"Fault", "Finished"}
           /\ FrameLeft = "Priority" \/ FrameLeft = frame
           /\ FrameLeft = "Resolve" <=> frame = "Resolve"
           /\ CastLost => frame \in CastFrames /\ FrameLeft = "Priority" /\ ~CastSpoiled
           /\ CastSpoiled => frame \in CastFrames /\ FrameLeft = "Priority" /\ ~CastLost
           /\ FrameLeft \in CastFrames <=> frame \in CastFrames /\ ~CastLost /\ ~CastSpoiled
           /\ PriorityLeft \in Staying
           /\ PassesLeft \in SUBSET Staying
           /\ InputLeft \in Input \cup {NoInput}
           /\ InputLeft # NoInput => /\ InputLeft = pending /\ pending.player \in Staying
                                     /\ ~CastLost /\ ~CastSpoiled
<1>1. frame \in Frames
  BY DEF IInv, TypeOK
<1>2. PriorityLeft \in Staying
  <2>1. NextLive(Leaver, Staying) \in Staying
    BY QueueFacts, NextLiveIsLive
  <2>2. QED  BY <2>1 DEF PriorityLeft, Staying, IInv, DepartedHoldNothing
<1>3. PassesLeft \in SUBSET Staying
  BY DEF PassesLeft, RestoredPasses
<1>4. CastLost => frame \in CastFrames
  BY DEF CastLost
<1>5. CastSpoiled => frame \in CastFrames /\ ~CastLost
  BY DEF CastSpoiled
<1>6. InputLeft \in Input \cup {NoInput}
      /\ (InputLeft # NoInput => /\ InputLeft = pending /\ pending.player \in Staying
                                 /\ ~CastLost /\ ~CastSpoiled)
  <2>1. pending \in Input \cup {NoInput} /\ (pending # NoInput => pending.player \in live)
    BY DEF IInv, TypeOK, DepartedHoldNothing
  <2>2. QED  BY <2>1 DEF InputLeft, PendingLeft, Staying
<1>7. QED  BY <1>1, <1>2, <1>3, <1>4, <1>5, <1>6 DEF FrameLeft, Frames, CastFrames

\* The table after a departure that does not end the game.
LEMMA DepartureTable ==
    ASSUME IInv, Departure
    PROVE  /\ ~Drained /\ frame \notin {"Fault", "Finished"}
           /\ mana' \in [Seat -> [Colours -> Nat]]
           /\ zone' \in [Card -> Zones]
           /\ \A c \in Card : zone'[c] = "gone" <=> ZoneLeft[c] = "gone"
           /\ \A c \in Card : zone'[c] = "battlefield" <=> ZoneLeft[c] = "battlefield"
           /\ tapped' \subseteq TappedLeft
           /\ stack' = StackSettled /\ IsStack(stack') /\ Cardinality(stack') <= MaxStack
           /\ {s.card : s \in stack'} = {c \in Card : zone'[c] = "stack"}
           /\ priority' \in Staying
           /\ cast' = (IF FrameLeft \in CastFrames THEN cast ELSE NoCast)
           /\ \A s \in stack' : ~(s.paid /\ s.target # None) =>
               FrameLeft \in CastFrames /\ s = Top' /\ ~s.paid
           /\ ~CastSpoiled => /\ zone' = ZoneLeft /\ tapped' = TappedLeft /\ stack' = StackLeft
                              /\ mana' = mana /\ priority' = PriorityLeft
<1>1. ~Drained /\ frame \notin {"Fault", "Finished"} /\ ~LastOneStanding /\ ~DepartureFails
  BY DEF Departure, Departs, Ended
<1>2. ASSUME NEW s \in StackLeft, ~(s.paid /\ s.target # None)
      PROVE  s = Top /\ ~s.paid /\ frame \in CastFrames /\ ~CastLost
  <2>1. s \in stack /\ s = Top /\ ~s.paid /\ frame \in CastFrames
    BY <1>1, <1>2, StackLeftFacts DEF IInv, StackMatchesZones
  <2>2. ZoneLeft[cast.source] = "stack"
    BY <2>1, CastFacts DEF StackLeft
  <2>3. QED  BY <2>1, <2>2 DEF CastLost
<1>3. CASE CastSpoiled
  <2>1. frame \in CastFrames /\ ~CastLost /\ FrameLeft = "Priority"
        /\ Top \in StackLeft /\ TopOf(StackLeft) = Top /\ Owner[cast.source] \in Staying
        /\ cast.source \in Spells
    BY <1>1, <1>3, FrameLeftFacts, CastLeftFacts, CastFacts
  <2>2. ZoneLeft[cast.source] = "stack"
    BY <2>1 DEF CastLost
  <2>3. /\ mana' \in [Seat -> [Colours -> Nat]]
        /\ tapped' \subseteq TappedLeft
        /\ zone' = [ZoneLeft EXCEPT ![cast.source] = "hand"] /\ cast' = NoCast
        /\ stack' = StackLeft \ {Top} /\ IsStack(stack') /\ Cardinality(stack') <= MaxStack
        /\ {s.card : s \in stack'} = {s.card : s \in StackLeft} \ {cast.source}
        /\ \A s \in stack' : s.paid /\ s.target # None
    <3>1. ReverseCast(TRUE, ZoneLeft, TappedLeft, StackLeft)
      BY <1>3 DEF Departure
    <3>2. StackLeft \in SUBSET stack
      BY <1>1, StackLeftFacts
    <3>3. QED  BY <2>1, <3>1, <3>2, ReverseCastFacts
  <2>4. zone' \in [Card -> Zones]
        /\ (\A c \in Card : zone'[c] = "gone" <=> ZoneLeft[c] = "gone")
        /\ (\A c \in Card : zone'[c] = "battlefield" <=> ZoneLeft[c] = "battlefield")
        /\ {c \in Card : zone'[c] = "stack"} = {c \in Card : ZoneLeft[c] = "stack"} \ {cast.source}
    BY <1>1, <2>1, <2>2, <2>3, ZoneLeftFacts DEF Zones, Card
  <2>5. stack' = StackSettled
    BY <1>3, <2>1, <2>3 DEF StackSettled
  <2>6. priority' \in Staying
    BY <1>3, <2>1 DEF Departure
  <2>7. {s.card : s \in stack'} = {c \in Card : zone'[c] = "stack"}
    BY <1>1, <2>3, <2>4, StackLeftFacts
  <2>8. cast' = (IF FrameLeft \in CastFrames THEN cast ELSE NoCast)
    BY <2>1, <2>3 DEF CastFrames
  <2>9. \A s \in stack' : ~(s.paid /\ s.target # None) =>
               FrameLeft \in CastFrames /\ s = Top' /\ ~s.paid
    BY <2>3
  <2>10. IsStack(stack') /\ Cardinality(stack') <= MaxStack /\ tapped' \subseteq TappedLeft
         /\ mana' \in [Seat -> [Colours -> Nat]]
    BY <2>3
  <2>11. QED  BY <1>1, <1>3, <2>4, <2>5, <2>6, <2>7, <2>8, <2>9, <2>10
<1>4. CASE ~CastSpoiled
  <2>1. /\ zone' = ZoneLeft /\ tapped' = TappedLeft /\ stack' = StackLeft /\ mana' = mana
        /\ priority' = PriorityLeft /\ cast' = IF CastLost THEN NoCast ELSE cast
    BY <1>4 DEF Departure
  <2>2. cast' = IF FrameLeft \in CastFrames THEN cast ELSE NoCast
    BY <1>1, <1>4, <2>1, FrameLeftFacts DEF IInv, CastingIsOnTop
  <2>3. ASSUME NEW s \in stack', ~(s.paid /\ s.target # None)
        PROVE  FrameLeft \in CastFrames /\ s = Top' /\ ~s.paid
    <3>1. s = Top /\ ~s.paid /\ frame \in CastFrames /\ ~CastLost
      BY <1>2, <2>1, <2>3
    <3>2. QED  BY <1>1, <1>4, <2>1, <3>1, FrameLeftFacts, StackLeftFacts DEF Top
  <2>4. stack' = StackSettled
    BY <1>4, <2>1 DEF StackSettled
  <2>5. zone' \in [Card -> Zones] /\ IsStack(stack') /\ Cardinality(stack') <= MaxStack
        /\ {s.card : s \in stack'} = {c \in Card : zone'[c] = "stack"}
    BY <1>1, <2>1, ZoneLeftFacts, StackLeftFacts
  <2>6. mana' \in [Seat -> [Colours -> Nat]]
    BY <2>1 DEF IInv, TypeOK
  <2>7. priority' \in Staying
    BY <1>1, <2>1, FrameLeftFacts
  <2>8. \A s \in stack' : ~(s.paid /\ s.target # None) =>
               FrameLeft \in CastFrames /\ s = Top' /\ ~s.paid
    BY <2>3
  <2>9. (\A c \in Card : zone'[c] = "gone" <=> ZoneLeft[c] = "gone")
        /\ (\A c \in Card : zone'[c] = "battlefield" <=> ZoneLeft[c] = "battlefield")
        /\ tapped' \subseteq TappedLeft
    BY <2>1
  <2>10. QED  BY <1>1, <1>4, <2>1, <2>2, <2>4, <2>5, <2>6, <2>7, <2>8, <2>9
<1>5. QED  BY <1>3, <1>4

LEMMA DepartureKeeps == IInv /\ Departure => IInv'
<1> SUFFICES ASSUME IInv, Departure PROVE IInv'
  OBVIOUS
<1>1. ~Drained /\ frame \notin {"Fault", "Finished"} /\ ~DepartureFails /\ ~LastOneStanding
  BY DEF Departure, Departs, Ended
<1>2. /\ live' = Staying /\ active' = (IF active = Leaver THEN None ELSE active)
      /\ concessions' = Tail(concessions) /\ pending' = InputLeft
  BY DEF Departure, Departs
<1>3. /\ passes' \in SUBSET Staying /\ frame' \in Frames /\ frame' \notin {"Fault", "Finished"}
      /\ FrameLeft \in CastFrames => frame' = FrameLeft
  <2>1. CASE RoundEnds
    BY <2>1 DEF Departure, BeginResolution, RoundEnds, Frames, CastFrames
  <2>2. CASE ~RoundEnds
    BY <1>1, <2>2, FrameLeftFacts DEF Departure
  <2>3. QED  BY <2>1, <2>2
<1>4. QueueIsSound'
  BY <1>1, <1>2, QueueFacts DEF QueueIsSound
<1>5. TableIsSound'
  BY DepartureTable DEF TableIsSound, IsStack, TappedLeft, IInv, TypeOK, Card
<1>6. DepartedHoldNothing'
  <2>1. active' \in live' \cup {None}
    BY <1>2 DEF IInv, DepartedHoldNothing, Staying
  <2>2. Queued' \subseteq live'
    BY <1>1, <1>2, QueueFacts DEF Queued
  <2>3. \A c \in Card : zone'[c] = "battlefield" => c \notin Spells /\ Controller[c] \in live'
    BY <1>1, <1>2, DepartureTable, ZoneLeftFacts DEF IInv, DepartedHoldNothing
  <2>4. \A c \in Card : zone'[c] = "gone" <=> Owner[c] \notin live'
    BY <1>1, <1>2, DepartureTable, ZoneLeftFacts
  <2>5. pending' # NoInput => pending'.player \in live'
    BY <1>1, <1>2, FrameLeftFacts
  <2>6. QED  BY <1>2, <1>3, <2>1, <2>2, <2>3, <2>4, <2>5, DepartureTable DEF DepartedHoldNothing
<1>7. StackMatchesZones'
  BY <1>3, DepartureTable DEF StackMatchesZones, IsStack
<1>8. TypeOK' <=> resolving' \in Resolving \cup {NoResolving}
  <2>1. cast' \in Casting
    <3>1. NoCast \in Casting
      BY DEF NoCast, Casting
    <3>2. QED  BY <3>1, DepartureTable DEF IInv, TypeOK
  <2>2. pending' \in Input \cup {NoInput} /\ concessions' \in Seq(Seat) /\ live' \in SUBSET Seat
    BY <1>1, <1>2, QueueFacts, FrameLeftFacts
  <2>3. zone' \in [Card -> Zones] /\ tapped' \in SUBSET Lands /\ stack' \in SUBSET StackInstance
        /\ mana' \in [Seat -> [Colours -> Nat]] /\ priority' \in Staying
    BY DepartureTable DEF IInv, TypeOK, TappedLeft, IsStack
  <2>4. active' \in Seat \cup {None} /\ passes' \in SUBSET Seat /\ priority' \in Seat
    BY <1>1, <1>2, <1>3, <2>3, QueueFacts DEF IInv, TypeOK
  <2>5. QED  BY <1>3, <2>1, <2>2, <2>3, <2>4 DEF TypeOK
<1>9. CASE RoundEnds
  <2>1. FrameLeft = "Priority" /\ InputLeft = NoInput /\ stack' # {}
        /\ cast' = NoCast /\ \A s \in stack' : s.paid /\ s.target # None
    BY <1>1, <1>9, DepartureTable DEF RoundEnds, DepartureFails, CastFrames
  <2>2. /\ frame' = "Resolve"
        /\ resolving' = [spell |-> Top', legal |-> Legal(Top'.target, ZoneLeft), cursor |-> 0]
    BY <1>9, DepartureTable DEF Departure, BeginResolution, Top
  <2>3. Top' \in stack'
    BY <2>1, DepartureTable, TopIsLast DEF IsStack, Top
  <2>4. Top' \in StackInstance /\ zone'[Top'.card] = "stack" /\ Top'.paid /\ Top'.target # None
    BY <2>1, <2>3, DepartureTable DEF IsStack
  <2>5. resolving' \in Resolving /\ resolving'.spell = Top'
    BY <2>2, <2>4 DEF Resolving, Legal
  <2>6. CastingIsOnTop' /\ CastIsReversible' /\ ResolvingIsTargeted' /\ PendingStillValid'
    BY <1>2, <2>1, <2>2, <2>4, <2>5 DEF CastingIsOnTop, CastIsReversible, ResolvingIsTargeted,
           PendingStillValid, CastFrames
  <2>7. ResolvingIsFrozenTop'
    BY <2>2, <2>4, <2>5 DEF ResolvingIsFrozenTop, CompletionFails, SourcePresent
  <2>8. QED  BY <1>4, <1>5, <1>6, <1>7, <1>8, <2>5, <2>6, <2>7 DEF IInv
<1>10. CASE ~RoundEnds
  <2>1. frame' = FrameLeft /\ passes' = PassesLeft /\ resolving' = resolving
    BY <1>10 DEF Departure
  <2>2. ASSUME FrameLeft \in CastFrames
        PROVE  /\ frame' = frame /\ frame \in CastFrames /\ ~CastLost /\ ~CastSpoiled
               /\ zone' = ZoneLeft /\ tapped' = TappedLeft /\ mana' = mana
               /\ priority' = priority /\ priority \in Staying /\ cast' = cast
               /\ Top' = Top /\ Top \in stack' /\ TopOf(StackLeft) = Top
    <3>1. frame' = frame /\ frame \in CastFrames /\ ~CastLost /\ ~CastSpoiled
      BY <1>1, <2>1, <2>2, FrameLeftFacts DEF CastFrames
    <3>2. QED  BY <1>1, <2>2, <3>1, CastLeftFacts, DepartureTable DEF Top
  <2>3. CastingIsOnTop'
    <3>1. CASE FrameLeft \in CastFrames
      <4>1. Top.card = cast.source /\ ~Top.paid /\ Owner[cast.source] = priority
            /\ IF frame = "Targets" THEN Top.target = None /\ cast.activated = {}
                                    ELSE Legal(Top.target, zone)
        BY <2>2, <3>1 DEF IInv, CastingIsOnTop
      <4>2. frame # "Targets" => Legal(Top.target, ZoneLeft)
        BY <2>2, <3>1, <4>1, NoneAssumption DEF CastSpoiled, Legal, Card
      <4>3. ASSUME NEW l \in cast.activated
            PROVE  /\ Controller[l] = priority
                   /\ Owner[l] \in live' => zone'[l] = "battlefield" /\ l \in tapped'
        <5>1. l \in Card /\ Controller[l] = priority
              /\ (Owner[l] \in live => zone[l] = "battlefield" /\ l \in tapped)
          BY <2>2, <3>1 DEF IInv, TypeOK, Casting, Card, CastingIsOnTop
        <5>2. ASSUME Owner[l] \in Staying PROVE ZoneLeft[l] = "battlefield" /\ l \in TappedLeft
          BY <1>1, <2>2, <3>1, <5>1, <5>2, ZoneLeftFacts DEF Staying, TappedLeft
        <5>3. QED  BY <1>2, <2>2, <3>1, <5>1, <5>2
      <4>4. stack' # {}
        BY <2>2, <3>1
      <4>5. QED  BY <2>2, <3>1, <4>1, <4>2, <4>3, <4>4 DEF CastingIsOnTop
    <3>2. CASE FrameLeft \notin CastFrames
      BY <2>1, <3>2, DepartureTable DEF CastingIsOnTop
    <3>3. QED  BY <3>1, <3>2
  <2>4. CastIsReversible'
    <3>1. CASE FrameLeft \in CastFrames
      BY <2>2, <3>1 DEF IInv, CastIsReversible, ActivatedOf, CastSpoiled
    <3>2. CASE FrameLeft \notin CastFrames
      BY <2>1, <3>2 DEF CastIsReversible, CastFrames
    <3>3. QED  BY <3>1, <3>2
  <2>5. ResolvingIsFrozenTop' /\ ResolvingIsTargeted' /\ resolving' \in Resolving \cup {NoResolving}
    <3>1. CASE frame = "Resolve"
      <4> DEFINE s == resolving.spell
      <4>1. /\ frame' = "Resolve" /\ ~CastSpoiled /\ zone' = ZoneLeft /\ stack' = StackLeft
            /\ stack' \subseteq stack
        BY <1>1, <2>1, <3>1, FrameLeftFacts, DepartureTable, StackLeftFacts DEF CastFrames
      <4>2. resolving \in Resolving /\ s.paid /\ ~CompletionFails /\ s.card \in Spells /\ s.card \in Card
            /\ s.target # None
        BY <3>1 DEF IInv, ResolvingIsFrozenTop, ResolvingIsTargeted, Resolving, StackInstance, Card
      <4>3. CASE zone[s.card] = "stack"
        <5>1. s = Top /\ s.card \in {t.card : t \in stack}
          BY <4>2, <4>3 DEF CompletionFails, SourcePresent, IInv, StackMatchesZones
        <5>2. Top \in stack /\ \A t \in stack : t.id = s.id => t = s
          BY <5>1, StackFacts DEF IInv, StackMatchesZones
        <5>3. CASE Owner[s.card] = Leaver
          BY <1>1, <1>2, <3>1, <4>1, <4>2, <5>2, <5>3, <2>1, ZoneLeftFacts, QueueFacts
             DEF ResolvingIsFrozenTop, CompletionFails, SourcePresent, StackLeft, Staying,
                 ResolvingIsTargeted
        <5>4. CASE Owner[s.card] # Leaver
          <6>1. ZoneLeft[s.card] = "stack"
            BY <1>1, <4>2, <4>3, <5>4, ZoneLeftFacts
          <6>2. Top \in StackLeft
            BY <5>1, <5>2, <6>1 DEF StackLeft
          <6>3. Top' = s
            BY <1>1, <4>1, <5>1, <6>2, StackLeftFacts DEF Top
          <6>4. QED  BY <2>1, <4>1, <4>2, <6>1, <6>3
                     DEF ResolvingIsFrozenTop, CompletionFails, SourcePresent, ResolvingIsTargeted
        <5>5. QED  BY <5>3, <5>4
      <4>4. CASE zone[s.card] # "stack"
        <5>1. Owner[s.card] \notin live /\ \A t \in stack : t.id # s.id
          BY <4>2, <4>4 DEF CompletionFails, SourcePresent
        <5>2. ZoneLeft[s.card] # "stack"
          BY <1>1, <4>2, <4>4, ZoneLeftFacts
        <5>3. QED  BY <1>2, <2>1, <4>1, <4>2, <5>1, <5>2
                   DEF ResolvingIsFrozenTop, CompletionFails, SourcePresent, Staying,
                       ResolvingIsTargeted
      <4>5. QED  BY <4>3, <4>4
    <3>2. CASE frame # "Resolve"
      BY <1>1, <2>1, <3>2, FrameLeftFacts DEF IInv, ResolvingIsFrozenTop, ResolvingIsTargeted
    <3>3. QED  BY <3>1, <3>2
  <2>6. PendingStillValid'
    <3>1. SUFFICES ASSUME InputLeft # NoInput
                   PROVE  frame' \in DOMAIN Answers
                          /\ Valid(InputLeft, frame', priority', zone', tapped', stack')
      BY <1>2 DEF PendingStillValid
    <3>2. /\ InputLeft = pending /\ ~CastLost /\ ~CastSpoiled /\ PendingLeft = pending
          /\ pending # NoInput /\ frame' = frame /\ FrameLeft = frame
      BY <1>1, <2>1, <3>1, FrameLeftFacts DEF FrameLeft, InputLeft
    <3>3. frame \in DOMAIN Answers /\ Valid(pending, frame, priority, zone, tapped, stack)
      BY <1>1, <3>2 DEF IInv, PendingStillValid
    <3>4. zone' = ZoneLeft /\ tapped' = TappedLeft /\ stack' = StackLeft /\ priority' = PriorityLeft
      BY <3>2, DepartureTable
    <3>5. CASE frame \in {"Priority", "Mana"}
      BY <3>1, <3>2, <3>3, <3>4, <3>5 DEF InputLeft
    <3>6. CASE frame = "Targets"
      <4>1. pending.kind = "Targets" /\ pending.player = Owner[Top.card]
        BY <3>3, <3>6 DEF Valid, Top
      <4>2. Legal(pending.card, ZoneLeft)
        BY <3>2, <3>6, <4>1 DEF CastSpoiled, CastFrames
      <4>3. TopOf(StackLeft) = Top
        BY <1>1, <3>2, <3>6, CastLeftFacts DEF CastFrames
      <4>4. QED  BY <3>2, <3>3, <3>4, <3>6, <4>1, <4>2, <4>3 DEF Valid
    <3>7. QED  BY <3>3, <3>5, <3>6 DEF Answers
  <2>7. QED  BY <1>4, <1>5, <1>6, <1>7, <1>8, <2>3, <2>4, <2>5, <2>6 DEF IInv
<1>11. QED  BY <1>9, <1>10

-----------------------------------------------------------------------------
(* Faults *)

\* Taking a cast back never fails while its caster is at the table: the lands
\* tapped for it are there unless their owner left, and so is their mana.
LEMMA ReversalSucceeds ==
    ASSUME IInv, frame \in CastFrames, NEW undo, NEW z, NEW t, NEW st, NEW L,
           TopOf(st) = Top, priority \in L,
           \A l \in cast.activated : Owner[l] \in L => z[l] = "battlefield" /\ l \in t
    PROVE  ~ReversalFails(undo, z, t, st, L)
<1>1. Top.card = cast.source /\ Owner[cast.source] = priority
  BY CastFacts
<1>2. ASSUME NEW l \in cast.activated
      PROVE  ~(mana[priority][Produces[l]] < ActivatedOf(Produces[l]))
  <2>1. Produces[l] \in Colours /\ priority \in Seat
    BY ManaAssumption DEF IInv, TypeOK, Casting
  <2>2. mana[priority][Produces[l]] \in Nat /\ ActivatedOf(Produces[l]) \in Nat
    BY <2>1, ActivatedIsNat DEF IInv, TypeOK
  <2>3. QED  BY <2>1, <2>2 DEF IInv, CastIsReversible
<1>3. QED  BY <1>1, <1>2 DEF ReversalFails

\* The player asked is at the table, so a frame that waits with nothing queued
\* and nothing accepted is not stuck.
LEMMA AskedIsLive == IInv /\ frame \in DOMAIN Answers => Asked \in live
<1> SUFFICES ASSUME IInv, frame \in DOMAIN Answers PROVE Asked \in live
  OBVIOUS
<1>1. CASE frame = "Priority"
  BY <1>1 DEF Asked, IInv, DepartedHoldNothing
<1>2. CASE frame # "Priority"
  <2>1. frame \in CastFrames
    BY <1>2 DEF Answers, CastFrames
  <2>2. QED  BY <1>2, <2>1, CastFacts DEF Asked
<1>3. QED  BY <1>1, <1>2

\* A departure fails only by ending a round of passes on an empty stack.
LEMMA DepartureFaults ==
    ASSUME IInv, ~Drained, DepartureFails PROVE RoundEndsEmpty
<1>1. ~(CastSpoiled /\ ReversalFails(TRUE, ZoneLeft, TappedLeft, StackLeft, Staying))
  <2> SUFFICES ASSUME CastSpoiled
               PROVE  ~ReversalFails(TRUE, ZoneLeft, TappedLeft, StackLeft, Staying)
    OBVIOUS
  <2>1. frame \in CastFrames /\ ~CastLost
    BY DEF CastSpoiled
  <2>2. TopOf(StackLeft) = Top /\ priority \in Staying
    BY <2>1, CastLeftFacts, CastFacts
  <2>3. ASSUME NEW l \in cast.activated, Owner[l] \in Staying
        PROVE  ZoneLeft[l] = "battlefield" /\ l \in TappedLeft
    <3>1. l \in Card /\ Controller[l] = priority /\ zone[l] = "battlefield" /\ l \in tapped
      BY <2>1, <2>3 DEF IInv, TypeOK, Casting, Card, CastingIsOnTop, Staying
    <3>2. QED  BY <2>2, <2>3, <3>1, ZoneLeftFacts DEF Staying, TappedLeft
  <2>4. QED  BY <2>1, <2>2, <2>3, ReversalSucceeds
<1>2. QED  BY <1>1 DEF DepartureFails, RoundEndsEmpty

LEMMA FaultKeeps == IInv /\ Fault => IInv'
<1> SUFFICES ASSUME IInv, Fault PROVE IInv'
  OBVIOUS
<1>1. TypeOK'
  BY DEF IInv, Fault, TypeOK, table, Frames, NoCast, Casting
<1>2. QueueIsSound' /\ TableIsSound' /\ CastIsReversible' /\ ResolvingIsTargeted'
  BY DEF IInv, Fault, QueueIsSound, TableIsSound, CastIsReversible, ResolvingIsTargeted,
         CastFrames, table
<1>3. DepartedHoldNothing'
  BY DEF IInv, Fault, DepartedHoldNothing, Queued, table
<1>4. StackMatchesZones' /\ CastingIsOnTop' /\ ResolvingIsFrozenTop'
  BY DEF IInv, Fault, StackMatchesZones, CastingIsOnTop, ResolvingIsFrozenTop, CastFrames,
         Top, table
<1>5. PendingStillValid'
  BY DEF Fault, PendingStillValid
<1>6. QED  BY <1>1, <1>2, <1>3, <1>4, <1>5 DEF IInv

-----------------------------------------------------------------------------
(* The theorems *)

LEMMA InitIsSound == Init => IInv
<1> SUFFICES ASSUME Init PROVE IInv
  OBVIOUS
<1>1. 0 \in Seat /\ IsFiniteSet(Seat)
  BY SeatAssumption, SeatsFinite DEF Seat
<1>2. TypeOK
  BY <1>1 DEF Init, TypeOK, Zones, Frames, NoCast, Casting
<1>3. QueueIsSound
  <2>1. Cardinality(Seat) \in Nat /\ Cardinality(Seat) # 0
    BY <1>1, FS_CardinalityType, FS_EmptySet
  <2>2. QED  BY <2>1 DEF Init, QueueIsSound
<1>4. TableIsSound /\ StackMatchesZones
  <2>1. IsFiniteSet({}) /\ Cardinality({}) = 0
    BY FS_EmptySet
  <2>2. \A c \in Card : zone[c] # "stack"
    BY DEF Init
  <2>3. QED  BY <2>1, <2>2, StackAssumption DEF Init, TableIsSound, StackMatchesZones
<1>5. DepartedHoldNothing
  BY <1>1, CardAssumption DEF Init, DepartedHoldNothing, Queued, Card
<1>6. CastingIsOnTop /\ CastIsReversible /\ ResolvingIsFrozenTop /\ ResolvingIsTargeted
      /\ PendingStillValid
  BY DEF Init, CastingIsOnTop, CastIsReversible, ResolvingIsFrozenTop, ResolvingIsTargeted,
         PendingStillValid, CastFrames
<1>7. QED  BY <1>2, <1>3, <1>4, <1>5, <1>6 DEF IInv

LEMMA StutterKeeps == IInv /\ UNCHANGED vars => IInv'
  BY DEF IInv, vars, table, TypeOK, QueueIsSound, TableIsSound, DepartedHoldNothing, Queued,
         StackMatchesZones, CastingIsOnTop, CastIsReversible, SomeLegal, ActivatedOf,
         ResolvingIsFrozenTop, CompletionFails, SourcePresent, ResolvingIsTargeted,
         PendingStillValid, Top

LEMMA NextKeeps == IInv /\ [Next]_vars => IInv'
<1> SUFFICES ASSUME IInv, [Next]_vars PROVE IInv'
  OBVIOUS
<1>1. CASE Submit
  BY <1>1, SubmitKeeps
<1>2. CASE \E p \in Seat : Concede(p)
  BY <1>2, ConcedeKeeps
<1>3. CASE Advance
  BY <1>3, ActivateManaKeeps, CastKeeps, PassKeeps, ChooseTargetsKeeps,
     ActivateWhileCastingKeeps, FinishManaKeeps, PayKeeps, CannotPayKeeps,
     ReturnTargetKeeps, FinishSpellKeeps, DepartureKeeps, LastDepartureKeeps, FaultKeeps
     DEF Advance
<1>4. CASE UNCHANGED vars
  BY <1>4, StutterKeeps
<1>5. QED  BY <1>1, <1>2, <1>3, <1>4 DEF Next

\* For every number of seats, every deck of cards and every stack limit, the
\* inductive invariant holds in every state the kernel reaches (Game::new, respond,
\* concede and advance).
THEOREM Invariance == Spec => []IInv
<1>1. Init => IInv
  BY InitIsSound
<1>2. IInv /\ [Next]_vars => IInv'
  BY NextKeeps
<1>3. QED  BY <1>1, <1>2, PTL DEF Spec

\* The state always has its type: no action computes an answer, a pool or a
\* priority outside its range.
THEOREM TypeCorrect == Spec => []TypeOK
<1>1. IInv => TypeOK
  BY DEF IInv
<1>2. QED  BY <1>1, Invariance, PTL

\* Those who have left hold nothing, whatever the kernel was in the middle of
\* (finish_departure, validate_state).
THEOREM DepartedNeverHold == Spec => []DepartedHoldNothing
<1>1. IInv => DepartedHoldNothing
  BY DEF IInv
<1>2. QED  BY <1>1, Invariance, PTL

\* The stack and the zones agree, and nothing but the spell being cast is on the
\* stack unpaid or untargeted (validate_state).
THEOREM StackAgrees == Spec => []StackMatchesZones
<1>1. IInv => StackMatchesZones
  BY DEF IInv
<1>2. QED  BY <1>1, Invariance, PTL

\* An unfinished cast is the top of the stack, with a legal target and its lands
\* still there to be untapped (Game::reverse_cast, finish_departure).
THEOREM CastStaysOnTop == Spec => []CastingIsOnTop
<1>1. IInv => CastingIsOnTop
  BY DEF IInv
<1>2. QED  BY <1>1, Invariance, PTL

\* The spell that finishes is the one whose resolution began (Game::finish_spell).
THEOREM ResolvesWhatItBegan == Spec => []ResolvingIsFrozenTop
<1>1. IInv => ResolvingIsFrozenTop
  BY DEF IInv
<1>2. QED  BY <1>1, Invariance, PTL

\* The three together: no departure makes the stack lose, mix up or finish the
\* wrong spell, whatever it interrupts.
THEOREM StackStaysWhole == Spec => []StackIsWhole
<1>1. QED  BY StackAgrees, CastStaysOnTop, ResolvesWhatItBegan, PTL DEF StackIsWhole

\* An accepted answer stays valid until it is applied, whoever leaves in between
\* (Game::finish_departure, stale input).
THEOREM AnswersStayValid == Spec => []PendingStillValid
<1>1. IInv => PendingStillValid
  BY DEF IInv
<1>2. QED  BY <1>1, Invariance, PTL

\* The kernel faults only where a round of passes ends on an empty stack: in every
\* other state a rule step that fails is disabled, be it of an answer, a reversal, a
\* completion or a departure (Game::advance, Game::step).
THEOREM FaultsOnlyAtTheEnd == Spec => []FaultsOnlyOnEmptyStack
<1>1. ASSUME IInv PROVE FaultsOnlyOnEmptyStack
  <2> SUFFICES ASSUME ~Ended, ~AwaitsDecision, StepFails PROVE RoundEndsEmpty
    BY DEF FaultsOnlyOnEmptyStack
  <2>1. IInv /\ frame \notin {"Fault", "Finished"} /\ frame \in Frames
    BY <1>1 DEF Ended, IInv, TypeOK
  <2>2. CASE ~Drained
    BY <2>1, <2>2, DepartureFaults DEF StepFails
  <2>3. CASE Drained /\ frame \in DOMAIN Answers
    <3>1. pending # NoInput /\ Valid(pending, frame, priority, zone, tapped, stack)
      BY <2>1, <2>3, AskedIsLive DEF AwaitsDecision, IInv, PendingStillValid
    <3>2. pending.kind \in Answers[frame]
          /\ (pending.kind = "ActivateMana" =>
                CanActivate(pending.player, pending.card, zone, tapped))
      BY <3>1 DEF Valid, Answers
    <3>3. frame # "Payment" /\ frame # "Resolve"
      BY <2>3 DEF Answers
    <3>4. pending.kind = "Pass" /\ stack = {} /\ AllPassed(passes \cup {pending.player}, live)
      BY <2>3, <3>2, <3>3 DEF StepFails
    <3>5. frame = "Priority"
      BY <2>3, <3>2, <3>4 DEF Answers
    <3>6. QED  BY <2>3, <3>4, <3>5 DEF RoundEndsEmpty
  <2>4. CASE Drained /\ frame = "Payment"
    <3>1. ~ReversalFails(cast.undo, zone, tapped, stack, live)
      BY <2>1, <2>4, CastFacts, ReversalSucceeds DEF CastFrames, Top, IInv, CastingIsOnTop
    <3>2. QED  BY <2>4, <3>1 DEF StepFails, Answers
  <2>5. CASE Drained /\ frame = "Resolve"
    <3>1. ~CompletionFails
      BY <2>1, <2>5 DEF IInv, ResolvingIsFrozenTop
    <3>2. QED  BY <2>5, <3>1 DEF StepFails, Answers
  <2>6. QED  BY <2>1, <2>2, <2>3, <2>4, <2>5 DEF Frames, CastFrames, Answers
<1>2. QED  BY <1>1, Invariance, PTL

\* Whoever is asked is at the table and has an answer the kernel accepts
\* (Game::decision_for, validate_response).
THEOREM NobodyWaitsInVain == Spec => []SomeoneCanAnswer
<1>1. IInv => SomeoneCanAnswer
  <2> SUFFICES ASSUME IInv, frame \in DOMAIN Answers
               PROVE  /\ Asked \in live
                      /\ \E kind \in Answers[frame], card \in Card \cup {None} :
                           Valid([player |-> Asked, kind |-> kind, card |-> card, undo |-> FALSE],
                                 frame, priority, zone, tapped, stack)
    BY DEF SomeoneCanAnswer
  <2>1. Asked \in live
    BY AskedIsLive
  <2>2. CASE frame = "Priority"
    <3>1. Valid([player |-> Asked, kind |-> "Pass", card |-> None, undo |-> FALSE],
                frame, priority, zone, tapped, stack)
      BY <2>2 DEF Valid, Asked
    <3>2. "Pass" \in Answers[frame]
      BY <2>2 DEF Answers
    <3>3. QED  BY <2>1, <3>1, <3>2
  <2>3. CASE frame = "Targets"
    <3>1. PICK c \in Creatures : Legal(c, zone)
      BY <2>3 DEF IInv, CastIsReversible, SomeLegal
    <3>2. Valid([player |-> Asked, kind |-> "Targets", card |-> c, undo |-> FALSE],
                frame, priority, zone, tapped, stack)
      BY <2>3, <3>1 DEF Valid, Asked, Top
    <3>3. "Targets" \in Answers[frame] /\ c \in Card
      BY <2>3 DEF Answers, Card
    <3>4. QED  BY <2>1, <3>2, <3>3
  <2>4. CASE frame = "Mana"
    <3>1. Valid([player |-> Asked, kind |-> "FinishMana", card |-> None, undo |-> FALSE],
                frame, priority, zone, tapped, stack)
      BY <2>4 DEF Valid, Asked, Top
    <3>2. "FinishMana" \in Answers[frame]
      BY <2>4 DEF Answers
    <3>3. QED  BY <2>1, <3>1, <3>2
  <2>5. QED  BY <2>2, <2>3, <2>4 DEF Answers
<1>2. QED  BY <1>1, Invariance, PTL

\* A snapshot taken between any two rule steps passes Game::validate_state, so
\* Game::restore accepts it.
THEOREM EverySnapshotRestores == Spec => []EveryStateRestores
<1>1. IInv => EveryStateRestores
  <2> SUFFICES ASSUME IInv PROVE ValidState
    BY DEF EveryStateRestores
  <2>1. ValidSeating
    BY DEF IInv, ValidSeating, DepartedHoldNothing, StackMatchesZones
  <2>2. ValidObjects
    BY DEF IInv, ValidObjects, DepartedHoldNothing, TableIsSound
  <2>3. ValidStack
    <3>1. ASSUME NEW s \in stack PROVE s.card \in Card /\ zone[s.card] = "stack"
      BY DEF IInv, StackMatchesZones
    <3>2. ASSUME NEW s \in stack PROVE Owner[s.card] \in live
      BY <3>1 DEF IInv, DepartedHoldNothing
    <3>3. \A c \in Card : zone[c] = "stack" => \E s \in stack : s.card = c
      BY DEF IInv, StackMatchesZones
    <3>4. QED  BY <3>1, <3>2, <3>3 DEF IInv, StackMatchesZones, ValidStack
  <2>4. ValidFrame
    <3>1. CASE frame \in CastFrames
      <4>1. frame \in {"Mana", "Payment"} => Top.target # None
        BY <3>1, NoneAssumption DEF IInv, CastingIsOnTop, Legal, Card
      <4>2. \A l \in cast.activated : Controller[l] = Owner[Top.card]
        BY <3>1 DEF IInv, CastingIsOnTop
      <4>3. QED  BY <3>1, <4>1, <4>2
                 DEF IInv, ValidFrame, CastingIsOnTop, CastIsReversible, CastFrames
    <3>2. CASE frame = "Resolve"
      BY <3>2 DEF IInv, ValidFrame, ResolvingIsFrozenTop, ResolvingIsTargeted, CompletionFails,
                  SourcePresent, CastFrames
    <3>3. QED  BY <3>1, <3>2 DEF ValidFrame
  <2>5. ValidPending
    BY DEF IInv, ValidPending, PendingStillValid
  <2>6. QED  BY <2>1, <2>2, <2>3, <2>4, <2>5 DEF ValidState
<1>2. QED  BY <1>1, Invariance, PTL

-----------------------------------------------------------------------------
(* Mana *)

\* The lands of t that p tapped for the colour k, and the spells p has paid for.
TappedIn(t, p, k) == {l \in t : Controller[l] = p /\ Produces[l] = k}
PaidIn(z, st, p) == {c \in Spells : /\ Owner[c] = p
                                    /\ \/ z[c] = "graveyard"
                                       \/ \E s \in st : s.card = c /\ s.paid}

\* What the pool of p should hold.
PoolOf(t, z, st, p, k) ==
    Cardinality(TappedIn(t, p, k)) - (IF k = Cost THEN Cardinality(PaidIn(z, st, p)) ELSE 0)

LEMMA PoolFacts ==
    /\ ManaAccounted <=> \A p \in live, k \in Colours : mana[p][k] = PoolOf(tapped, zone, stack, p, k)
    /\ ManaAccounted' <=>
         \A p \in live', k \in Colours : mana'[p][k] = PoolOf(tapped', zone', stack', p, k)
  BY DEF ManaAccounted, PoolOf, TappedFor, PaidBy, TappedIn, PaidIn

LEMMA PoolIsFinite ==
    ASSUME NEW t \in SUBSET Lands, NEW p, NEW k, NEW z, NEW st
    PROVE  /\ IsFiniteSet(TappedIn(t, p, k)) /\ Cardinality(TappedIn(t, p, k)) \in Nat
           /\ IsFiniteSet(PaidIn(z, st, p)) /\ Cardinality(PaidIn(z, st, p)) \in Nat
<1>1. IsFiniteSet(TappedIn(t, p, k))
  <2>1. TappedIn(t, p, k) \in SUBSET Lands
    BY DEF TappedIn
  <2>2. QED  BY <2>1, FS_Subset, CardAssumption
<1>2. IsFiniteSet(PaidIn(z, st, p))
  <2>1. PaidIn(z, st, p) \in SUBSET Spells
    BY DEF PaidIn
  <2>2. QED  BY <2>1, FS_Subset, CardAssumption
<1>3. QED  BY <1>1, <1>2, FS_CardinalityType

\* A step that moves no mana, and for those who stay no tapped land and no paid
\* spell.
LEMMA SamePools ==
    ASSUME ManaAccounted, mana' = mana, live' \subseteq live,
           \A p \in live', k \in Colours : TappedIn(tapped', p, k) = TappedIn(tapped, p, k),
           \A p \in live' : PaidIn(zone', stack', p) = PaidIn(zone, stack, p)
    PROVE  ManaAccounted'
<1>1. ASSUME NEW p \in live', NEW k \in Colours
      PROVE  mana'[p][k] = PoolOf(tapped', zone', stack', p, k)
  <2>1. mana[p][k] = PoolOf(tapped, zone, stack, p, k)
    BY PoolFacts
  <2>2. QED  BY <2>1 DEF PoolOf
<1>2. QED  BY <1>1, PoolFacts

\* Tapping a land adds one mana to the pool of the player who controls it.
LEMMA TapKeepsAccount ==
    ASSUME IInv, ManaAccounted, pending.player \in Seat,
           CanActivate(pending.player, pending.card, zone, tapped),
           Tap(pending.card), live' = live, zone' = zone, stack' = stack
    PROVE  ManaAccounted'
<1> DEFINE l == pending.card
           a == pending.player
<1>1. l \in Lands /\ l \notin tapped /\ Controller[l] = a /\ Produces[l] \in Colours
      /\ tapped' = tapped \cup {l} /\ tapped \in SUBSET Lands
      /\ mana \in [Seat -> [Colours -> Nat]]
      /\ mana' = [mana EXCEPT ![a][Produces[l]] = @ + 1] /\ live \subseteq Seat
  BY ManaAssumption DEF CanActivate, Tap, IInv, TypeOK
<1> HIDE DEF l, a
<1>2. ASSUME NEW p \in live, NEW k \in Colours
      PROVE  mana'[p][k] = PoolOf(tapped', zone', stack', p, k)
  <2>1. mana[p][k] = PoolOf(tapped, zone, stack, p, k) /\ p \in Seat /\ mana[p][k] \in Nat
    BY <1>1, PoolFacts
  <2>2. /\ IsFiniteSet(TappedIn(tapped, p, k)) /\ Cardinality(TappedIn(tapped, p, k)) \in Nat
        /\ Cardinality(PaidIn(zone, stack, p)) \in Nat
    BY <1>1, PoolIsFinite
  <2>3. CASE p = a /\ k = Produces[l]
    <3>1. TappedIn(tapped', p, k) = TappedIn(tapped, p, k) \cup {l} /\ l \notin TappedIn(tapped, p, k)
      BY <1>1, <2>3 DEF TappedIn
    <3>2. Cardinality(TappedIn(tapped', p, k)) = Cardinality(TappedIn(tapped, p, k)) + 1
      BY <2>2, <3>1, FS_AddElement
    <3>3. mana'[p][k] = mana[p][k] + 1
      BY <1>1, <2>1, <2>3
    <3>4. QED  BY <2>1, <2>2, <3>2, <3>3 DEF PoolOf
  <2>4. CASE ~(p = a /\ k = Produces[l])
    <3>1. TappedIn(tapped', p, k) = TappedIn(tapped, p, k)
      BY <1>1, <2>4 DEF TappedIn
    <3>2. mana'[p][k] = mana[p][k]
      BY <1>1, <2>1, <2>4
    <3>3. QED  BY <2>1, <3>1, <3>2 DEF PoolOf
  <2>5. QED  BY <2>3, <2>4
<1>3. QED  BY <1>2, PoolFacts

\* Paying moves one mana from the pool to the spells that are paid for.
LEMMA PayKeepsAccount == ASSUME IInv, ManaAccounted, Pay PROVE ManaAccounted'
<1> DEFINE a == Owner[Top.card]
           new == [Top EXCEPT !.paid = TRUE]
<1>1. frame \in CastFrames
  BY DEF Pay, CastFrames
<1>2. /\ Top \in stack /\ Top \in StackInstance /\ Top.card \in Spells /\ ~Top.paid
      /\ \A s \in stack : s.card = Top.card => s = Top
      /\ zone[Top.card] = "stack" /\ a \in Seat /\ live \subseteq Seat
      /\ tapped \in SUBSET Lands /\ mana \in [Seat -> [Colours -> Nat]]
  BY <1>1, CastFacts DEF IInv, TypeOK
<1>3. /\ mana' = [mana EXCEPT ![a][Cost] = @ - 1] /\ mana[a][Cost] >= 1
      /\ stack' = (stack \ {Top}) \cup {new}
      /\ live' = live /\ zone' = zone /\ tapped' = tapped
  BY DEF Pay, Payable
<1>4. new.card = Top.card /\ new.paid
  BY <1>2 DEF StackInstance
<1> HIDE DEF a, new
<1>5. ASSUME NEW p \in live
      PROVE  PaidIn(zone', stack', p) = IF p = a THEN PaidIn(zone, stack, p) \cup {Top.card}
                                        ELSE PaidIn(zone, stack, p)
  <2>1. ASSUME NEW c \in Spells
        PROVE  (\E s \in stack' : s.card = c /\ s.paid) <=>
                  c = Top.card \/ \E s \in stack : s.card = c /\ s.paid
    BY <1>2, <1>3, <1>4
  <2>2. QED  BY <1>2, <1>3, <2>1 DEF PaidIn, a
<1>6. ASSUME NEW p \in live, NEW k \in Colours
      PROVE  mana'[p][k] = PoolOf(tapped', zone', stack', p, k)
  <2>1. mana[p][k] = PoolOf(tapped, zone, stack, p, k) /\ p \in Seat /\ mana[p][k] \in Nat
    BY <1>2, PoolFacts
  <2>2. /\ Cardinality(TappedIn(tapped, p, k)) \in Nat
        /\ IsFiniteSet(PaidIn(zone, stack, p)) /\ Cardinality(PaidIn(zone, stack, p)) \in Nat
    BY <1>2, PoolIsFinite
  <2>3. CASE p = a /\ k = Cost
    <3>1. Top.card \notin PaidIn(zone, stack, p)
      BY <1>2 DEF PaidIn
    <3>2. Cardinality(PaidIn(zone', stack', p)) = Cardinality(PaidIn(zone, stack, p)) + 1
      BY <1>5, <2>2, <2>3, <3>1, FS_AddElement
    <3>3. mana'[p][k] = mana[p][k] - 1
      BY <1>2, <1>3, <2>1, <2>3
    <3>4. QED  BY <1>3, <2>1, <2>2, <2>3, <3>2, <3>3 DEF PoolOf
  <2>4. CASE ~(p = a /\ k = Cost)
    <3>1. mana'[p][k] = mana[p][k]
      BY <1>2, <1>3, <2>1, <2>4
    <3>2. k = Cost => PaidIn(zone', stack', p) = PaidIn(zone, stack, p)
      BY <1>5, <2>4
    <3>3. QED  BY <1>3, <2>1, <3>1, <3>2 DEF PoolOf
  <2>5. QED  BY <2>3, <2>4
<1>7. QED  BY <1>3, <1>6, PoolFacts

\* Taking a cast back returns the mana of exactly the lands it untaps; the spell
\* had not been paid for.
LEMMA ReversalKeepsAccount ==
    ASSUME IInv, frame \in CastFrames, NEW undo \in BOOLEAN, NEW z, NEW t \in SUBSET Lands,
           NEW st \in SUBSET stack, Top \in st, ReverseCast(undo, z, t, st),
           z \in [Card -> Zones], z[cast.source] = "stack", cast.activated \subseteq t,
           live' \subseteq live,
           \A p \in live', k \in Colours : mana[p][k] = PoolOf(t, z, st, p, k)
    PROVE  ManaAccounted'
<1> DEFINE a == Owner[cast.source]
           act(k) == {l \in cast.activated : Produces[l] = k}
<1>1. /\ cast.source \in Spells /\ a = priority /\ ~Top.paid /\ Top.card = cast.source
      /\ \A s \in stack : s.card = cast.source => s = Top
      /\ live \subseteq Seat /\ mana \in [Seat -> [Colours -> Nat]] /\ a \in Seat
      /\ \A l \in cast.activated : Controller[l] = a
  BY CastFacts DEF IInv, CastingIsOnTop, TypeOK
<1>2. IsStack(st) /\ TopOf(st) = Top
  BY StackIsStack, StackShrinks DEF Top
<1>3. /\ stack' = st \ {Top} /\ zone' = [z EXCEPT ![cast.source] = "hand"]
      /\ undo => /\ mana' = [mana EXCEPT ![a] = [k \in Colours |-> mana[a][k] - ActivatedOf(k)]]
                 /\ tapped' = t \ cast.activated
      /\ ~undo => mana' = mana /\ tapped' = t
  BY <1>2 DEF ReverseCast
<1> HIDE DEF a
<1>4. ASSUME NEW p PROVE PaidIn(zone', stack', p) = PaidIn(z, st, p)
  <2>1. ASSUME NEW c \in Spells
        PROVE  /\ zone'[c] = "graveyard" <=> z[c] = "graveyard"
               /\ (\E s \in stack' : s.card = c /\ s.paid) <=> \E s \in st : s.card = c /\ s.paid
    <3>1. c \in Card
      BY DEF Card
    <3>2. zone'[c] = "graveyard" <=> z[c] = "graveyard"
      BY <1>3, <3>1
    <3>3. (\E s \in stack' : s.card = c /\ s.paid) <=> \E s \in st : s.card = c /\ s.paid
      BY <1>1, <1>3
    <3>4. QED  BY <3>2, <3>3
  <2>2. QED  BY <2>1 DEF PaidIn
<1>5. ASSUME NEW p \in live', NEW k \in Colours
      PROVE  mana'[p][k] = PoolOf(tapped', zone', stack', p, k)
  <2>1. mana[p][k] = PoolOf(t, z, st, p, k) /\ p \in Seat /\ mana[p][k] \in Nat
    BY <1>1
  <2>2. /\ IsFiniteSet(TappedIn(t, p, k)) /\ Cardinality(TappedIn(t, p, k)) \in Nat
        /\ Cardinality(PaidIn(z, st, p)) \in Nat
    BY PoolIsFinite
  <2>3. CASE ~undo
    BY <1>3, <1>4, <2>1, <2>3 DEF PoolOf
  <2>4. CASE undo /\ p # a
    <3>1. TappedIn(tapped', p, k) = TappedIn(t, p, k)
      BY <1>1, <1>3, <2>4 DEF TappedIn
    <3>2. mana'[p][k] = mana[p][k]
      BY <1>1, <1>3, <2>1, <2>4
    <3>3. QED  BY <1>4, <2>1, <3>1, <3>2 DEF PoolOf
  <2>5. CASE undo /\ p = a
    <3>1. TappedIn(tapped', p, k) = TappedIn(t, p, k) \ act(k) /\ act(k) \subseteq TappedIn(t, p, k)
      BY <1>1, <1>3, <2>5 DEF TappedIn
    <3>2. TappedIn(t, p, k) \cap act(k) = act(k)
      BY <3>1
    <3>3. Cardinality(TappedIn(tapped', p, k)) = Cardinality(TappedIn(t, p, k)) - Cardinality(act(k))
      BY <2>2, <3>1, <3>2, FS_Difference
    <3>4. Cardinality(act(k)) = ActivatedOf(k) /\ ActivatedOf(k) \in Nat
      BY ActivatedIsNat DEF ActivatedOf, IInv
    <3>5. mana'[p][k] = mana[p][k] - ActivatedOf(k)
      BY <1>1, <1>3, <2>1, <2>5
    <3> HIDE DEF act
    <3>6. QED  BY <1>4, <2>1, <2>2, <3>3, <3>4, <3>5 DEF PoolOf
  <2>6. QED  BY <2>3, <2>4, <2>5
<1>6. QED  BY <1>5, PoolFacts

\* In every admitted scenario each land is its owner's own (engine.rs,
\* ScenarioConfig): only then does no mana outlive the land that made it.
LandsAreOwn == \A l \in Lands : Controller[l] = Owner[l]

\* The lands and spells of those who stay survive a departure.
LEMMA DepartureKeepsPools ==
    ASSUME LandsAreOwn, IInv, ~Drained, NEW p \in Staying
    PROVE  /\ \A k \in Colours : TappedIn(TappedLeft, p, k) = TappedIn(tapped, p, k)
           /\ PaidIn(ZoneLeft, StackLeft, p) = PaidIn(zone, stack, p)
<1>1. p # Leaver /\ p \in live
  BY DEF Staying
<1>2. ASSUME NEW l \in tapped, Controller[l] = p PROVE l \in TappedLeft
  <2>1. l \in Lands /\ l \in Card /\ zone[l] = "battlefield" /\ Owner[l] = p
    BY <1>2 DEF IInv, TypeOK, TableIsSound, LandsAreOwn, Card
  <2>2. ZoneLeft[l] = "battlefield"
    BY <1>1, <1>2, <2>1, ZoneLeftFacts
  <2>3. QED  BY <2>2 DEF TappedLeft
<1>3. \A k \in Colours : TappedIn(TappedLeft, p, k) = TappedIn(tapped, p, k)
  <2>1. TappedLeft \subseteq tapped
    BY DEF TappedLeft
  <2>2. QED  BY <1>2, <2>1 DEF TappedIn
<1>4. ASSUME NEW c \in Spells, Owner[c] = p
      PROVE  /\ ZoneLeft[c] = zone[c]
             /\ (\E s \in StackLeft : s.card = c /\ s.paid) <=> \E s \in stack : s.card = c /\ s.paid
  <2>1. c \in Card /\ zone[c] # "battlefield"
    BY DEF Card, IInv, DepartedHoldNothing
  <2>2. ZoneLeft[c] = zone[c]
    BY <1>1, <1>4, <2>1 DEF ZoneLeft
  <2>3. \A s \in stack : s.card = c => s \in StackLeft
    BY <2>1, <2>2 DEF StackLeft, IInv, StackMatchesZones
  <2>4. StackLeft \subseteq stack
    BY DEF StackLeft
  <2>5. QED  BY <2>2, <2>3, <2>4
<1>5. PaidIn(ZoneLeft, StackLeft, p) = PaidIn(zone, stack, p)
  BY <1>4 DEF PaidIn
<1>6. QED  BY <1>3, <1>5

LEMMA DepartureKeepsAccount ==
    ASSUME LandsAreOwn, IInv, ManaAccounted, Departure PROVE ManaAccounted'
<1>1. ~Drained /\ live' = Staying /\ Staying \subseteq live
  BY DEF Departure, Departs, Staying
<1>2. ASSUME NEW p \in Staying, NEW k \in Colours
      PROVE  mana[p][k] = PoolOf(TappedLeft, ZoneLeft, StackLeft, p, k)
  <2>1. mana[p][k] = PoolOf(tapped, zone, stack, p, k)
    BY <1>1, PoolFacts
  <2>2. QED  BY <1>1, <2>1, DepartureKeepsPools DEF PoolOf
<1>3. CASE CastSpoiled
  <2>1. frame \in CastFrames /\ ~CastLost /\ ReverseCast(TRUE, ZoneLeft, TappedLeft, StackLeft)
    BY <1>3 DEF Departure, CastSpoiled
  <2>2. /\ Top \in StackLeft /\ StackLeft \in SUBSET stack /\ ZoneLeft \in [Card -> Zones]
        /\ ZoneLeft[cast.source] = "stack" /\ Owner[cast.source] \in Staying
        /\ TappedLeft \in SUBSET Lands
    BY <1>1, <2>1, CastLeftFacts, StackLeftFacts, ZoneLeftFacts DEF CastLost, TappedLeft, IInv, TypeOK
  <2>3. cast.activated \subseteq TappedLeft
    <3>1. SUFFICES ASSUME NEW l \in cast.activated PROVE l \in TappedLeft
      OBVIOUS
    <3>2. l \in Lands /\ l \in Card /\ Controller[l] = priority /\ Owner[l] = priority
      BY <2>1 DEF IInv, TypeOK, Casting, CastingIsOnTop, LandsAreOwn, Card
    <3>3. priority \in Staying /\ priority \in live /\ priority # Leaver
      BY <1>1, <2>1, <2>2, CastFacts, CastLeftFacts
    <3>4. zone[l] = "battlefield" /\ l \in tapped
      BY <2>1, <3>2, <3>3 DEF IInv, CastingIsOnTop
    <3>5. QED  BY <1>1, <3>2, <3>3, <3>4, ZoneLeftFacts DEF TappedLeft
  <2>4. QED  BY <1>1, <1>2, <2>1, <2>2, <2>3, ReversalKeepsAccount
<1>4. CASE ~CastSpoiled
  <2>1. zone' = ZoneLeft /\ tapped' = TappedLeft /\ stack' = StackLeft /\ mana' = mana
    BY <1>4 DEF Departure
  <2>2. QED  BY <1>1, <1>2, <2>1, PoolFacts
<1>5. QED  BY <1>3, <1>4

LEMMA LastDepartureKeepsAccount ==
    ASSUME LandsAreOwn, IInv, ManaAccounted, LastDeparture PROVE ManaAccounted'
<1>1. /\ ~Drained /\ live' = Staying /\ Staying \subseteq live /\ mana' = mana
      /\ zone' = ZoneLeft /\ tapped' = TappedLeft /\ stack' = StackLeft
  BY DEF LastDeparture, Departs, Staying
<1>2. QED  BY <1>1, DepartureKeepsPools, SamePools

LEMMA CannotPayKeepsAccount ==
    ASSUME LandsAreOwn, IInv, ManaAccounted, CannotPay PROVE ManaAccounted'
<1>1. /\ frame \in CastFrames /\ ReverseCast(cast.undo, zone, tapped, stack) /\ live' = live
      /\ cast.undo \in BOOLEAN /\ zone \in [Card -> Zones] /\ tapped \in SUBSET Lands
  BY DEF CannotPay, CastFrames, IInv, TypeOK, Casting
<1>2. Top \in stack /\ zone[cast.source] = "stack"
  BY <1>1, CastFacts
<1>3. cast.activated \subseteq tapped
  <2>1. SUFFICES ASSUME NEW l \in cast.activated PROVE l \in tapped
    OBVIOUS
  <2>2. l \in Lands /\ Controller[l] = priority /\ Owner[l] = priority /\ priority \in live
    BY <1>1, CastFacts DEF IInv, TypeOK, Casting, CastingIsOnTop, LandsAreOwn
  <2>3. QED  BY <1>1, <2>2 DEF IInv, CastingIsOnTop
<1>4. \A p \in live, k \in Colours : mana[p][k] = PoolOf(tapped, zone, stack, p, k)
  BY PoolFacts
<1>5. QED  BY <1>1, <1>2, <1>3, <1>4, ReversalKeepsAccount

\* The steps that tap and pay for nothing, and move no paid spell's card.
LEMMA OthersKeepAccount ==
    ASSUME IInv, ManaAccounted, Next, ~ActivateMana, ~ActivateWhileCasting, ~Pay, ~CannotPay,
           ~Departure, ~LastDeparture
    PROVE  ManaAccounted'
<1>1. ASSUME UNCHANGED <<live, zone, tapped, mana, stack>> PROVE ManaAccounted'
  BY <1>1, SamePools
<1>2. CASE Submit \/ (\E p \in Seat : Concede(p)) \/ FinishMana \/ Pass \/ Fault
  BY <1>1, <1>2 DEF Submit, Concede, FinishMana, Pass, Fault, table
<1>3. CASE Cast
  <2> DEFINE c == pending.card
             s == [id |-> NextStackId, card |-> c, target |-> None, paid |-> FALSE]
  <2>1. frame = "Priority" /\ pending.kind = "Cast"
    BY <1>3 DEF Cast, Applies
  <2>2. c \in Spells /\ zone[c] = "hand" /\ c \in Card
    BY <2>1, PendingFacts DEF Valid, CanCast, Card
  <2>3. /\ zone' = [zone EXCEPT ![c] = "stack"] /\ stack' = stack \cup {s}
        /\ live' = live /\ tapped' = tapped /\ mana' = mana /\ ~s.paid /\ s.card = c
        /\ zone \in [Card -> Zones]
    BY <1>3 DEF Cast, IInv, TypeOK
  <2> HIDE DEF c, s
  <2>4. ASSUME NEW d \in Spells
        PROVE  /\ zone'[d] = "graveyard" <=> zone[d] = "graveyard"
               /\ (\E u \in stack' : u.card = d /\ u.paid) <=> \E u \in stack : u.card = d /\ u.paid
    <3>1. d \in Card
      BY DEF Card
    <3>2. zone'[d] = "graveyard" <=> zone[d] = "graveyard"
      BY <2>2, <2>3, <3>1
    <3>3. (\E u \in stack' : u.card = d /\ u.paid) <=> \E u \in stack : u.card = d /\ u.paid
      BY <2>3
    <3>4. QED  BY <3>2, <3>3
  <2>5. \A p \in live : PaidIn(zone', stack', p) = PaidIn(zone, stack, p)
    BY <2>4 DEF PaidIn
  <2>6. QED  BY <2>3, <2>5, SamePools
<1>4. CASE ChooseTargets
  <2> DEFINE s == [Top EXCEPT !.target = pending.card]
  <2>1. frame \in CastFrames
    BY <1>4 DEF ChooseTargets, Applies, CastFrames
  <2>2. Top \in stack /\ Top \in StackInstance
    BY <2>1, CastFacts
  <2>3. /\ stack' = (stack \ {Top}) \cup {s} /\ s.card = Top.card /\ s.paid = Top.paid
        /\ live' = live /\ zone' = zone /\ tapped' = tapped /\ mana' = mana
    BY <1>4, <2>2 DEF ChooseTargets, StackInstance
  <2> HIDE DEF s
  <2>4. ASSUME NEW d \in Spells
        PROVE  (\E u \in stack' : u.card = d /\ u.paid) <=> \E u \in stack : u.card = d /\ u.paid
    BY <2>2, <2>3
  <2>5. \A p \in live : PaidIn(zone', stack', p) = PaidIn(zone, stack, p)
    BY <2>3, <2>4 DEF PaidIn
  <2>6. QED  BY <2>3, <2>5, SamePools
<1>5. CASE ReturnTarget
  <2>1. /\ live' = live /\ tapped' = tapped /\ mana' = mana /\ stack' = stack
        /\ \A c \in Spells : zone'[c] = zone[c]
    BY <1>5, CardAssumption DEF ReturnTarget, Legal, IInv, TypeOK, Card
  <2>2. \A p \in live : PaidIn(zone', stack', p) = PaidIn(zone, stack, p)
    BY <2>1 DEF PaidIn
  <2>3. QED  BY <2>1, <2>2, SamePools
<1>6. CASE FinishSpell
  <2>1. live' = live /\ tapped' = tapped /\ mana' = mana
    BY <1>6 DEF FinishSpell
  <2>2. CASE ~SourcePresent
    BY <1>1, <1>6, <2>1, <2>2 DEF FinishSpell
  <2>3. CASE SourcePresent
    <3> DEFINE c == resolving.spell.card
    <3>1. /\ Top = resolving.spell /\ Top.card = c /\ Top.paid
          /\ zone' = [zone EXCEPT ![c] = "graveyard"]
          /\ stack' = stack \ {Top} /\ zone[c] = "stack" /\ zone \in [Card -> Zones]
      BY <1>6, <2>3 DEF FinishSpell, CompletionFails, SourcePresent, IInv, ResolvingIsFrozenTop, TypeOK
    <3>2. /\ c \in Spells /\ c \in Card /\ Top \in stack
          /\ \A u \in stack : u.card = c => u = Top
      <4>1. resolving \in Resolving
        BY <1>6 DEF FinishSpell, IInv, ResolvingIsFrozenTop
      <4>2. c \in Spells /\ c \in Card
        BY <4>1 DEF Resolving, StackInstance, Card
      <4>3. stack # {}
        BY <3>1, <4>2 DEF IInv, StackMatchesZones
      <4>4. Top \in stack
        BY <4>3, StackFacts DEF IInv
      <4>5. QED  BY <3>1, <4>2, <4>4 DEF IInv, StackMatchesZones
    <3> HIDE DEF c
    <3>3. ASSUME NEW d \in Spells
          PROVE  (zone'[d] = "graveyard" \/ \E u \in stack' : u.card = d /\ u.paid) <=>
                    (zone[d] = "graveyard" \/ \E u \in stack : u.card = d /\ u.paid)
      <4>1. d \in Card
        BY DEF Card
      <4>2. CASE d = c
        BY <3>1, <3>2, <4>1, <4>2
      <4>3. CASE d # c
        BY <3>1, <4>1, <4>3
      <4>4. QED  BY <4>2, <4>3
    <3>4. \A p \in live : PaidIn(zone', stack', p) = PaidIn(zone, stack, p)
      BY <3>3 DEF PaidIn
    <3>5. QED  BY <2>1, <3>4, SamePools
  <2>4. QED  BY <2>2, <2>3
<1>7. QED  BY <1>2, <1>3, <1>4, <1>5, <1>6 DEF Next, Advance

LEMMA ActivatingKeepsAccount ==
    ASSUME IInv, ManaAccounted, ActivateMana \/ ActivateWhileCasting PROVE ManaAccounted'
<1>1. /\ CanActivate(pending.player, pending.card, zone, tapped) /\ Tap(pending.card)
      /\ live' = live /\ zone' = zone /\ stack' = stack
      /\ pending.kind = "ActivateMana" /\ frame # "Fault"
  BY DEF ActivateMana, ActivateWhileCasting, Applies
<1>2. pending.player \in Seat
  BY <1>1, PendingFacts DEF IInv, TypeOK
<1>3. QED  BY <1>1, <1>2, TapKeepsAccount

\* No activation, payment, reversal or departure mints or loses mana: as long as
\* each land is its owner's own, a pool holds what its player's tapped lands made
\* less what the player's spells have cost (activate_mana, pay, reverse_cast,
\* finish_departure).
THEOREM ManaIsAccounted == ASSUME LandsAreOwn PROVE Spec => []ManaAccounted
<1>1. Init => ManaAccounted
  <2> SUFFICES ASSUME Init PROVE ManaAccounted
    OBVIOUS
  <2>1. ASSUME NEW p \in live, NEW k \in Colours PROVE mana[p][k] = PoolOf(tapped, zone, stack, p, k)
    <3>1. mana[p][k] = 0 /\ tapped = {} /\ stack = {}
      BY <2>1 DEF Init
    <3>2. TappedIn(tapped, p, k) = {}
      BY <3>1 DEF TappedIn
    <3>3. PaidIn(zone, stack, p) = {}
      BY <3>1 DEF Init, PaidIn, Card
    <3>4. QED  BY <3>1, <3>2, <3>3, FS_EmptySet DEF PoolOf
  <2>2. QED  BY <2>1, PoolFacts
<1>2. IInv /\ ManaAccounted /\ [Next]_vars => ManaAccounted'
  <2> SUFFICES ASSUME IInv, ManaAccounted, [Next]_vars PROVE ManaAccounted'
    OBVIOUS
  <2>1. CASE ActivateMana \/ ActivateWhileCasting
    BY <2>1, ActivatingKeepsAccount
  <2>2. CASE Pay
    BY <2>2, PayKeepsAccount
  <2>3. CASE CannotPay \/ Departure \/ LastDeparture
    BY <2>3, CannotPayKeepsAccount, DepartureKeepsAccount, LastDepartureKeepsAccount
  <2>4. CASE UNCHANGED vars
    BY <2>4, SamePools DEF vars, table
  <2>5. QED  BY <2>1, <2>2, <2>3, <2>4, OthersKeepAccount
<1>3. QED  BY <1>1, <1>2, Invariance, PTL DEF Spec

-----------------------------------------------------------------------------
(* The round of passes *)

\* The players of pa are the last ones of L in turn order before a.
PassedIn(a, pa, L) ==
    /\ a \notin pa
    /\ \A p \in pa, q \in L : Turn(a, q) > Turn(a, p) => q \in pa

\* Seats are told apart by how far they sit, and counting from another seat b
\* shifts every distance but of those before b.
LEMMA TurnFacts ==
    ASSUME NEW a \in Seat, NEW b \in Seat, NEW p \in Seat
    PROVE  /\ Turn(a, p) \in 0 .. N - 1 /\ (Turn(a, p) = 0 <=> p = a)
           /\ Turn(a, p) = Turn(a, b) <=> p = b
           /\ Ahead(a, p) = IF p = a THEN N ELSE Turn(a, p)
           /\ Turn(b, p) = IF Turn(a, p) >= Turn(a, b) THEN Turn(a, p) - Turn(a, b)
                                                       ELSE Turn(a, p) - Turn(a, b) + N
<1>1. N \in Nat /\ N > 1 /\ a \in 0 .. N - 1 /\ b \in 0 .. N - 1 /\ p \in 0 .. N - 1
  BY SeatAssumption DEF Seat
<1>2. QED  BY <1>1 DEF Turn, Ahead

\* Nobody of L sits between a and the next of them.
LEMMA NextLiveIsNext ==
    ASSUME NEW a \in Seat, NEW L \in SUBSET Seat, NEW o \in L, o # a
    PROVE  /\ NextLive(a, L) \in L /\ NextLive(a, L) # a
           /\ \A q \in L : q # a => Turn(a, NextLive(a, L)) <= Turn(a, q)
<1> DEFINE n == NextLive(a, L)
<1>1. n \in L /\ \A q \in L : Ahead(a, n) <= Ahead(a, q)
  BY NextLiveIsLive
<1> HIDE DEF n
<1>2. n \in Seat /\ o \in Seat /\ N \in Nat
  BY <1>1, SeatAssumption
<1>3. Ahead(a, o) < N
  BY <1>2, TurnFacts
<1>4. n # a
  <2> SUFFICES ASSUME n = a PROVE FALSE
    OBVIOUS
  <2>1. Ahead(a, n) = N
    BY TurnFacts
  <2>2. Ahead(a, o) \in 0 .. N - 1
    BY <1>2, TurnFacts
  <2>3. Ahead(a, n) <= Ahead(a, o)
    BY <1>1
  <2>4. QED  BY <1>2, <2>1, <2>2, <2>3
<1>5. ASSUME NEW q \in L, q # a PROVE Turn(a, n) <= Turn(a, q)
  <2>1. Ahead(a, q) = Turn(a, q) /\ Ahead(a, n) = Turn(a, n)
    BY <1>2, <1>4, <1>5, TurnFacts
  <2>2. QED  BY <1>1, <2>1
<1>6. QED  BY <1>1, <1>4, <1>5 DEF n

\* When a passes and somebody has not, the next player is asked and has not.
LEMMA RoundGoesOn ==
    ASSUME NEW L \in SUBSET Seat, NEW a \in L, NEW pa \in SUBSET L,
           PassedIn(a, pa, L), ~(L \subseteq pa \cup {a})
    PROVE  PassedIn(NextLive(a, L), pa \cup {a}, L)
<1> DEFINE n == NextLive(a, L)
<1>1. PICK o \in L : o \notin pa /\ o # a
  OBVIOUS
<1>2. n \in L /\ n # a /\ \A q \in L : q # a => Turn(a, n) <= Turn(a, q)
  BY <1>1, NextLiveIsNext
<1> HIDE DEF n
<1>3. \A q \in L : /\ Turn(a, q) \in 0 .. N - 1 /\ (Turn(a, q) = Turn(a, n) => q = n)
                   /\ Turn(n, q) = IF Turn(a, q) >= Turn(a, n) THEN Turn(a, q) - Turn(a, n)
                                   ELSE Turn(a, q) - Turn(a, n) + N
  BY <1>2, TurnFacts
<1>4. N \in Nat
  BY SeatAssumption
<1>5. n \notin pa
  <2>1. SUFFICES ASSUME n \in pa PROVE FALSE
    OBVIOUS
  <2>2. o # n
    BY <1>1, <2>1
  <2>3. Turn(a, o) > Turn(a, n)
    BY <1>1, <1>2, <1>3, <1>4, <2>2
  <2>4. QED  BY <1>1, <2>1, <2>3 DEF PassedIn
<1>6. ASSUME NEW p \in pa \cup {a}, NEW q \in L, Turn(n, q) > Turn(n, p) PROVE q \in pa \cup {a}
  <2>1. SUFFICES ASSUME q # a PROVE q \in pa
    OBVIOUS
  <2>2. Turn(n, q) = Turn(a, q) - Turn(a, n) /\ Turn(a, q) \in 0 .. N - 1 /\ Turn(a, n) \in 0 .. N - 1
    BY <1>2, <1>3, <2>1
  <2>3. CASE p = a
    <3>1. Turn(a, a) = 0 /\ Turn(a, n) # 0
      BY <1>2, TurnFacts
    <3>2. Turn(n, a) = N - Turn(a, n)
      BY <1>3, <1>4, <2>2, <3>1
    <3>3. QED  BY <1>4, <1>6, <2>2, <2>3, <3>2
  <2>4. CASE p \in pa
    <3>1. p # a /\ p \in L
      BY <2>4 DEF PassedIn
    <3>2. Turn(n, p) = Turn(a, p) - Turn(a, n) /\ Turn(a, p) \in 0 .. N - 1
      BY <1>2, <1>3, <3>1
    <3>3. Turn(a, q) > Turn(a, p)
      BY <1>4, <1>6, <2>2, <3>2
    <3>4. QED  BY <2>4, <3>3 DEF PassedIn
  <2>5. QED  BY <2>3, <2>4
<1>7. n \notin pa \cup {a}
  BY <1>2, <1>5
<1>8. QED  BY <1>6, <1>7 DEF PassedIn, n

\* When the player who is asked leaves, the next one is asked, and has passed
\* only if everyone else has.
LEMMA RoundSkipsLeaver ==
    ASSUME NEW L \in SUBSET Seat, NEW a \in L, NEW pa \in SUBSET L,
           PassedIn(a, pa, L), ~(L \ {a} \subseteq pa)
    PROVE  PassedIn(NextLive(a, L \ {a}), pa, L \ {a})
<1> DEFINE S == L \ {a}
           n == NextLive(a, S)
<1>1. PICK o \in S : o \notin pa
  OBVIOUS
<1>2. n \in S /\ n # a /\ \A q \in S : Turn(a, n) <= Turn(a, q)
  <2>1. S \in SUBSET Seat /\ o # a /\ a \in Seat /\ \A q \in S : q # a
    OBVIOUS
  <2> HIDE DEF S
  <2>2. QED  BY <1>1, <2>1, NextLiveIsNext
<1> HIDE DEF n
<1>3. \A q \in S : /\ Turn(a, q) \in 0 .. N - 1 /\ (Turn(a, q) = Turn(a, n) => q = n)
                   /\ Turn(n, q) = IF Turn(a, q) >= Turn(a, n) THEN Turn(a, q) - Turn(a, n)
                                   ELSE Turn(a, q) - Turn(a, n) + N
  BY <1>2, TurnFacts
<1>4. N \in Nat /\ pa \subseteq S
  BY SeatAssumption DEF PassedIn
<1>5. n \notin pa
  <2>1. SUFFICES ASSUME n \in pa PROVE FALSE
    OBVIOUS
  <2>2. Turn(a, o) > Turn(a, n)
    BY <1>1, <1>2, <1>3, <1>4, <2>1
  <2>3. QED  BY <1>1, <2>1, <2>2 DEF PassedIn
<1>6. ASSUME NEW p \in pa, NEW q \in S, Turn(n, q) > Turn(n, p) PROVE q \in pa
  <2>1. /\ Turn(n, q) = Turn(a, q) - Turn(a, n) /\ Turn(n, p) = Turn(a, p) - Turn(a, n)
        /\ Turn(a, q) \in 0 .. N - 1 /\ Turn(a, n) \in 0 .. N - 1 /\ Turn(a, p) \in 0 .. N - 1
    BY <1>2, <1>3, <1>4
  <2>2. Turn(a, q) > Turn(a, p)
    BY <1>4, <1>6, <2>1
  <2>3. QED  BY <2>2 DEF PassedIn
<1>7. QED  BY <1>5, <1>6 DEF PassedIn, n

\* The round as PassesGoRound has it, and what it says of a state and of the next.
LEMMA RoundFacts ==
    /\ PassesGoRound <=>
         /\ frame = "Priority" =>
              \/ PassedIn(priority, passes, live)
              \/ ~Drained /\ pending = NoInput /\ live \subseteq passes
         /\ frame \in CastFrames => PassedIn(priority, cast.prior \cap live, live)
         /\ frame \in CastFrames \cup {"Resolve"} => passes = {}
    /\ PassesGoRound' <=>
         /\ frame' = "Priority" =>
              \/ PassedIn(priority', passes', live')
              \/ ~Drained' /\ pending' = NoInput /\ live' \subseteq passes'
         /\ frame' \in CastFrames => PassedIn(priority', cast'.prior \cap live', live')
         /\ frame' \in CastFrames \cup {"Resolve"} => passes' = {}
  BY DEF PassesGoRound, PassedInTurn, PassedIn

LEMMA PassKeepsRound == ASSUME IInv, PassesGoRound, Pass PROVE PassesGoRound'
<1>1. frame = "Priority" /\ pending.kind = "Pass" /\ Drained
  BY DEF Pass, Applies
<1>2. pending.player = priority /\ priority \in live /\ live \in SUBSET Seat
      /\ passes \in SUBSET live
  BY <1>1, PendingFacts DEF Valid, IInv, DepartedHoldNothing, TypeOK
<1>3. PassedIn(priority, passes, live)
  BY <1>1, RoundFacts
<1>4. CASE AllPassed(passes \cup {priority}, live)
  <2>1. frame' = "Resolve" /\ passes' = {}
    BY <1>2, <1>4 DEF Pass, BeginResolution
  <2>2. QED  BY <2>1, RoundFacts DEF CastFrames
<1>5. CASE ~AllPassed(passes \cup {priority}, live)
  <2>1. /\ frame' = "Priority" /\ passes' = passes \cup {priority} /\ live' = live
        /\ priority' = NextLive(priority, live)
    BY <1>1, <1>2, <1>5 DEF Pass
  <2>2. PassedIn(priority', passes', live')
    BY <1>2, <1>3, <1>5, <2>1, RoundGoesOn DEF AllPassed
  <2>3. QED  BY <2>1, <2>2, RoundFacts DEF CastFrames
<1>6. QED  BY <1>4, <1>5

LEMMA LeavingKeepsRound == ASSUME IInv, PassesGoRound, Departure PROVE PassesGoRound'
<1>1. /\ ~Drained /\ live' = Staying /\ concessions' = Tail(concessions) /\ pending' = InputLeft
      /\ priority' = IF CastSpoiled THEN Owner[cast.source] ELSE PriorityLeft
      /\ frame \notin {"Fault", "Finished"}
  BY DEF Departure, Departs, Ended
<1>2. /\ RoundEnds => frame' = "Resolve" /\ passes' = {}
      /\ ~RoundEnds => frame' = FrameLeft /\ passes' = PassesLeft
  BY DEF Departure, BeginResolution
<1>3. /\ live \in SUBSET Seat /\ Leaver \in live /\ Staying = live \ {Leaver}
      /\ priority \in live /\ passes \in SUBSET live /\ Staying \subseteq live
  <2>1. Leaver \in live
    BY <1>1, QueueFacts
  <2>2. QED  BY <2>1 DEF IInv, DepartedHoldNothing, TypeOK, Staying
<1>4. cast' = (IF FrameLeft \in CastFrames THEN cast ELSE NoCast)
  BY DepartureTable
<1>5. CASE RoundEnds
  BY <1>2, <1>5, RoundFacts DEF CastFrames
<1>6. ASSUME ~RoundEnds, FrameLeft = "Priority", priority = Leaver, NEW pa \in SUBSET live,
             PassedIn(priority, pa, live), PassesLeft = pa \cap Staying, InputLeft = NoInput
      PROVE  \/ PassedIn(PriorityLeft, PassesLeft, Staying)
             \/ ~Drained' /\ pending' = NoInput /\ live' \subseteq passes'
  <2>1. PriorityLeft = NextLive(Leaver, Staying) /\ pa \cap Staying = pa
    BY <1>3, <1>6 DEF PriorityLeft, PassedIn
  <2>2. CASE ~(Staying \subseteq pa)
    BY <1>3, <1>6, <2>1, <2>2, RoundSkipsLeaver
  <2>3. CASE Staying \subseteq pa
    <3>1. AllPassed(PassesLeft, Staying)
      BY <1>6, <2>3 DEF AllPassed
    <3>2. ~Drained'
      BY <1>1, <1>6, <3>1 DEF RoundEnds, Drained
    <3>3. QED  BY <1>1, <1>2, <1>6, <2>3, <3>2
  <2>4. QED  BY <2>2, <2>3
<1>7. CASE ~RoundEnds /\ frame = "Priority"
  <2>1. /\ FrameLeft = "Priority" /\ ~CastLost /\ ~CastSpoiled /\ PassesLeft = passes \cap Staying
        /\ priority' = PriorityLeft /\ passes' = PassesLeft
    BY <1>1, <1>2, <1>7 DEF FrameLeft, CastLost, CastSpoiled, CastFrames, PassesLeft
  <2>2. CASE PassedIn(priority, passes, live) /\ priority = Leaver
    <3>1. InputLeft = NoInput
      <4>1. pending # NoInput => pending.player = Leaver
        BY <1>7, <2>2 DEF IInv, PendingStillValid, Valid
      <4>2. PendingLeft = NoInput
        BY <4>1 DEF PendingLeft
      <4>3. QED  BY <4>2 DEF InputLeft
    <3>2. QED  BY <1>1, <1>2, <1>3, <1>6, <1>7, <2>1, <2>2, <3>1, RoundFacts DEF CastFrames
  <2>3. CASE PassedIn(priority, passes, live) /\ priority # Leaver
    <3>1. PriorityLeft = priority
      BY <2>3 DEF PriorityLeft
    <3>2. PassedIn(priority, PassesLeft, Staying)
      BY <1>3, <2>1, <2>3 DEF PassedIn
    <3>3. QED  BY <1>1, <1>2, <1>7, <2>1, <3>1, <3>2, RoundFacts DEF CastFrames
  <2>4. CASE pending = NoInput /\ live \subseteq passes
    <3>1. InputLeft = NoInput /\ AllPassed(PassesLeft, Staying)
      BY <1>3, <2>1, <2>4 DEF InputLeft, PendingLeft, AllPassed
    <3>2. ~Drained' /\ live' \subseteq passes' /\ pending' = NoInput
      BY <1>1, <1>7, <2>1, <3>1 DEF RoundEnds, Drained, AllPassed
    <3>3. QED  BY <1>2, <1>7, <2>1, <3>2, RoundFacts DEF CastFrames
  <2>5. QED  BY <1>7, <2>2, <2>3, <2>4, RoundFacts
<1>8. CASE ~RoundEnds /\ frame = "Resolve"
  <2>1. FrameLeft = "Resolve" /\ PassesLeft = passes \cap Staying
    BY <1>8 DEF FrameLeft, CastLost, CastSpoiled, CastFrames, PassesLeft
  <2>2. passes = {}
    BY <1>8, RoundFacts
  <2>3. QED  BY <1>2, <1>8, <2>1, <2>2, RoundFacts DEF CastFrames
<1>9. CASE ~RoundEnds /\ frame \in CastFrames
  <2>1. PassedIn(priority, cast.prior \cap live, live) /\ passes = {}
    BY <1>9, RoundFacts
  <2>2. Owner[cast.source] = priority /\ cast.source \in Card /\ zone[cast.source] = "stack"
    BY <1>9, CastFacts DEF Card
  <2>3. CASE CastLost
    <3>1. priority = Leaver
      BY <1>1, <2>2, <2>3, ZoneLeftFacts DEF CastLost
    <3>2. /\ FrameLeft = "Priority" /\ InputLeft = NoInput /\ ~CastSpoiled
          /\ PassesLeft = RestoredPasses(FALSE, Staying)
      BY <2>3 DEF FrameLeft, InputLeft, CastSpoiled, PassesLeft
    <3>3. CASE cast.activated = {}
      <4>1. PassesLeft = (cast.prior \cap live) \cap Staying
        BY <1>3, <3>2, <3>3 DEF RestoredPasses
      <4>2. cast.prior \cap live \in SUBSET live
        OBVIOUS
      <4>3. \/ PassedIn(PriorityLeft, PassesLeft, Staying)
            \/ ~Drained' /\ pending' = NoInput /\ live' \subseteq passes'
        BY <1>6, <1>9, <2>1, <3>1, <3>2, <4>1, <4>2
      <4>4. QED  BY <1>1, <1>2, <1>9, <3>2, <4>3, RoundFacts DEF CastFrames
    <3>4. CASE cast.activated # {}
      <4>1. PassesLeft = {}
        BY <3>2, <3>4 DEF RestoredPasses
      <4>2. QED  BY <1>1, <1>2, <1>9, <3>2, <4>1, RoundFacts DEF CastFrames, PassedIn
    <3>5. QED  BY <3>3, <3>4
  <2>4. CASE CastSpoiled
    <3>1. /\ FrameLeft = "Priority" /\ ~CastLost /\ PassesLeft = cast.prior \cap Staying
          /\ priority' = priority
      BY <1>1, <2>2, <2>4 DEF FrameLeft, CastSpoiled, PassesLeft, RestoredPasses
    <3>2. PassedIn(priority, cast.prior \cap Staying, Staying)
      BY <1>3, <2>1 DEF PassedIn
    <3>3. QED  BY <1>1, <1>2, <1>9, <3>1, <3>2, RoundFacts DEF CastFrames
  <2>5. CASE ~CastLost /\ ~CastSpoiled
    <3>1. /\ FrameLeft = frame /\ PassesLeft = passes \cap Staying /\ cast' = cast
          /\ PriorityLeft = priority /\ priority' = priority
      BY <1>1, <1>4, <1>9, <2>5, CastLeftFacts DEF FrameLeft, PassesLeft
    <3>2. PassedIn(priority, cast.prior \cap Staying, Staying)
      BY <1>3, <2>1 DEF PassedIn
    <3>3. QED  BY <1>1, <1>2, <1>9, <2>1, <3>1, <3>2, RoundFacts DEF CastFrames
  <2>6. QED  BY <2>3, <2>4, <2>5
<1>10. QED
  <2>1. frame \in Frames
    BY DEF IInv, TypeOK
  <2>2. QED  BY <1>1, <1>5, <1>7, <1>8, <1>9, <2>1 DEF Frames

LEMMA OthersKeepRound ==
    ASSUME IInv, PassesGoRound, [Next]_vars, ~Pass, ~Departure PROVE PassesGoRound'
<1>1. CASE Submit
  <2>1. Drained /\ UNCHANGED <<live, priority, passes, frame, cast, concessions>>
    BY <1>1 DEF Submit, AwaitsDecision
  <2>2. QED  BY <2>1, RoundFacts
<1>2. ASSUME NEW p \in Seat, Concede(p) PROVE PassesGoRound'
  <2>1. /\ concessions' = Append(concessions, p) /\ concessions \in Seq(Seat)
        /\ UNCHANGED <<live, priority, passes, frame, cast, pending>>
    BY <1>2 DEF Concede, IInv, TypeOK
  <2>2. concessions' # <<>>
    BY <2>1
  <2>3. QED  BY <2>1, <2>2, RoundFacts DEF Drained
<1>3. CASE ActivateMana
  <2>1. frame' = "Priority" /\ passes' = {}
    BY <1>3 DEF ActivateMana, Applies
  <2>2. QED  BY <2>1, RoundFacts DEF CastFrames, PassedIn
<1>4. CASE Cast
  <2>1. /\ frame = "Priority" /\ Drained /\ frame' = "Targets" /\ passes' = {} /\ live' = live
        /\ cast'.prior = passes /\ priority' = priority /\ passes \in SUBSET live
    BY <1>4 DEF Cast, Applies, IInv, DepartedHoldNothing
  <2>2. PassedIn(priority, passes, live) /\ passes \cap live = passes
    BY <2>1, RoundFacts
  <2>3. QED  BY <2>1, <2>2, RoundFacts DEF CastFrames
<1>5. CASE ChooseTargets \/ ActivateWhileCasting \/ FinishMana
  <2>1. /\ frame \in CastFrames /\ frame' \in CastFrames /\ cast'.prior = cast.prior
        /\ UNCHANGED <<live, priority, passes>>
    BY <1>5 DEF ChooseTargets, ActivateWhileCasting, FinishMana, Applies, CastFrames, IInv,
                TypeOK, Casting
  <2>2. frame' # "Priority"
    BY <2>1 DEF CastFrames
  <2>3. QED  BY <2>1, <2>2, RoundFacts
<1>6. CASE Pay
  <2>1. frame \in CastFrames /\ frame' = "Priority" /\ passes' = passes
    BY <1>6 DEF Pay, CastFrames
  <2>2. passes = {}
    BY <2>1, RoundFacts
  <2>3. QED  BY <2>1, <2>2, RoundFacts DEF CastFrames, PassedIn
<1>7. CASE CannotPay
  <2>1. /\ frame \in CastFrames /\ frame' = "Priority" /\ live' = live
        /\ priority' = Owner[cast.source] /\ passes' = RestoredPasses(cast.undo, live)
    BY <1>7 DEF CannotPay, CastFrames
  <2>2. priority' = priority /\ PassedIn(priority, cast.prior \cap live, live)
    BY <2>1, CastFacts, RoundFacts
  <2>3. passes' = cast.prior \cap live \/ passes' = {}
    BY <2>1 DEF RestoredPasses
  <2>4. PassedIn(priority', passes', live')
    BY <2>1, <2>2, <2>3 DEF PassedIn
  <2>5. QED  BY <2>1, <2>4, RoundFacts DEF CastFrames
<1>8. CASE ReturnTarget
  <2>1. frame = "Resolve" /\ frame' = frame /\ passes' = passes
    BY <1>8 DEF ReturnTarget
  <2>2. QED  BY <2>1, RoundFacts DEF CastFrames
<1>9. CASE FinishSpell
  <2>1. frame = "Resolve" /\ frame' = "Priority" /\ passes' = passes
    BY <1>9 DEF FinishSpell
  <2>2. passes = {}
    BY <2>1, RoundFacts
  <2>3. QED  BY <2>1, <2>2, RoundFacts DEF CastFrames, PassedIn
<1>10. CASE LastDeparture \/ Fault
  <2>1. frame' \in {"Finished", "Fault"}
    BY <1>10 DEF LastDeparture, Fault
  <2>2. QED  BY <2>1, RoundFacts DEF CastFrames
<1>11. CASE UNCHANGED vars
  BY <1>11, RoundFacts DEF vars, Drained
<1>12. QED
  BY <1>1, <1>2, <1>3, <1>4, <1>5, <1>6, <1>7, <1>8, <1>9, <1>10, <1>11 DEF Next, Advance

\* Priority goes round the table: nobody is asked twice in a round, nobody is
\* skipped, and a reversed cast or a departure resumes the round where it was
\* (Game::pass, next_live, reverse_cast, finish_departure).
THEOREM PassesAlwaysGoRound == Spec => []PassesGoRound
<1>1. Init => PassesGoRound
  BY DEF Init, PassesGoRound, PassedInTurn, CastFrames
<1>2. IInv /\ PassesGoRound /\ [Next]_vars => PassesGoRound'
  BY PassKeepsRound, LeavingKeepsRound, OthersKeepRound
<1>3. QED  BY <1>1, <1>2, Invariance, PTL DEF Spec

-----------------------------------------------------------------------------
(* Tables *)

LEMMA SightFacts ==
    TypeOK => Sight \in Table /\ Sight # Nothing
  BY NoneAssumption DEF TypeOK, Sight, Table, Nothing

LEMMA TableIsSomething == \A a \in Table : a # Nothing
  BY NoneAssumption DEF Table, Nothing

\* A table is like itself.
LEMMA SameAsItself ==
    ASSUME TypeOK, TableIsSound PROVE SameTable(Sight, live, zone, tapped, mana, stack)
  BY DEF TypeOK, TableIsSound, SameTable, SameZones, SameStack, SameMana, StillTapped, Sight

\* z2, t2, m2 and st2 are what the departure of all but M leaves of z, t, m and st.
Departed(M, z, t, m, st, z2, t2, m2, st2) ==
    /\ \A c \in Card : IF Owner[c] \in M
                       THEN \/ z2[c] = z[c]
                            \/ z[c] = "battlefield" /\ Controller[c] \notin M /\ z2[c] = "exile"
                       ELSE z2[c] # "battlefield"
    /\ t2 = StillTapped(t, z2)
    /\ \A p \in M : m2[p] = m[p]
    /\ \A s : Owner[s.card] \in M => (s \in st2 <=> s \in st)

\* A table that a departure is applied to stays like those it was like.
LEMMA DepartingKeepsSame ==
    ASSUME NEW a \in Table, NEW L, NEW M \in SUBSET L,
           NEW z, NEW t, NEW m, NEW st, SameTable(a, L, z, t, m, st),
           NEW z2, NEW t2, NEW m2, NEW st2, Departed(M, z, t, m, st, z2, t2, m2, st2)
    PROVE  SameTable(a, M, z2, t2, m2, st2)
<1>0. /\ \A c \in Card : IF Owner[c] \in M
                         THEN \/ z2[c] = z[c]
                              \/ z[c] = "battlefield" /\ Controller[c] \notin M /\ z2[c] = "exile"
                         ELSE z2[c] # "battlefield"
      /\ t2 = StillTapped(t, z2) /\ \A p \in M : m2[p] = m[p]
      /\ \A s : Owner[s.card] \in M => (s \in st2 <=> s \in st)
  BY DEF Departed
<1>1. /\ SameZones(a, L, z) /\ SameStack(a, L, st) /\ SameMana(a, L, m)
      /\ StillTapped(a.tapped, z) = t /\ a.tapped \subseteq Card
  BY DEF SameTable, Table, Card
<1>2. SameZones(a, M, z2)
  BY <1>0, <1>1 DEF SameZones
<1>3. SameStack(a, M, st2)
  BY <1>0, <1>1 DEF SameStack
<1>4. SameMana(a, M, m2)
  BY <1>0, <1>1 DEF SameMana
<1>5. StillTapped(a.tapped, z2) = t2
  <2>1. \A l \in Card : z2[l] = "battlefield" => z[l] = "battlefield"
    BY <1>0
  <2>2. QED  BY <1>0, <1>1, <2>1 DEF StillTapped
<1>6. QED  BY <1>2, <1>3, <1>4, <1>5 DEF SameTable

-----------------------------------------------------------------------------
(* The cast in progress, taken back *)

LEMMA BackFacts ==
    ASSUME IInv, frame \in CastFrames
    PROVE  /\ cast.source \in Card \ Lands /\ Owner[cast.source] = priority /\ priority \in live
           /\ live \subseteq Seat /\ zone \in [Card -> Zones] /\ tapped \in SUBSET Lands
           /\ cast.activated \subseteq Lands /\ mana \in [Seat -> [Colours -> Nat]]
           /\ ZoneBack[cast.source] = "hand"
           /\ \A c \in Card : c # cast.source => ZoneBack[c] = zone[c]
           /\ \A p \in Seat : p # priority => ManaBack[p] = mana[p]
           /\ \A k \in Colours : ManaBack[priority][k] = mana[priority][k] - ActivatedOf(k)
           /\ cast.activated = {} => ManaBack = mana
<1>1. /\ cast.source \in Spells /\ Owner[cast.source] = priority /\ priority \in live
      /\ live \subseteq Seat /\ zone \in [Card -> Zones] /\ tapped \in SUBSET Lands
      /\ cast.activated \subseteq Lands /\ mana \in [Seat -> [Colours -> Nat]]
  BY CastFacts DEF IInv, TypeOK, Casting
<1>2. cast.source \in Card \ Lands
  BY <1>1, CardAssumption DEF Card
<1>3. /\ ZoneBack[cast.source] = "hand"
      /\ \A c \in Card : c # cast.source => ZoneBack[c] = zone[c]
  BY <1>1, <1>2 DEF ZoneBack
<1>4. /\ \A p \in Seat : p # priority => ManaBack[p] = mana[p]
      /\ ManaBack = [mana EXCEPT ![priority] = [k \in Colours |-> mana[priority][k] - ActivatedOf(k)]]
      /\ \A k \in Colours : ManaBack[priority][k] = mana[priority][k] - ActivatedOf(k)
  BY <1>1 DEF ManaBack
<1>5. ASSUME cast.activated = {} PROVE ManaBack = mana
  <2>1. \A k \in Colours : ActivatedOf(k) = 0
    <3>1. \A k \in Colours : {l \in cast.activated : Produces[l] = k} = {}
      BY <1>5
    <3>2. QED  BY <3>1, FS_EmptySet DEF ActivatedOf
  <2>2. [k \in Colours |-> mana[priority][k] - ActivatedOf(k)] = mana[priority]
    BY <1>1, <2>1
  <2>3. QED  BY <1>1, <1>4, <2>2
<1>6. QED  BY <1>1, <1>2, <1>3, <1>4, <1>5

\* Once the cast is off the stack, what is reversed is the table as it would be
\* without it (Game::reverse_cast, with undo or where no land was tapped).
LEMMA ReversedIsBack ==
    ASSUME IInv, frame \in CastFrames, NEW undo \in BOOLEAN, undo \/ cast.activated = {},
           ReverseCast(undo, zone, tapped, stack)
    PROVE  zone' = ZoneBack /\ tapped' = tapped \ cast.activated /\ mana' = ManaBack
           /\ stack' = stack \ {Top}
<1>1. Owner[cast.source] = priority /\ (cast.activated = {} => ManaBack = mana)
  BY BackFacts
<1>2. zone' = ZoneBack /\ stack' = stack \ {Top}
  BY DEF ReverseCast, ZoneBack, Top
<1>3. tapped' = tapped \ cast.activated /\ mana' = ManaBack
  BY <1>1 DEF ReverseCast, ManaBack
<1>4. QED  BY <1>2, <1>3

-----------------------------------------------------------------------------
(* Departures *)

LEMMA StaySeats == IInv /\ ~Drained => Staying \in SUBSET live
  BY QueueFacts

\* What a departure leaves of a table without a cast.
LEMMA TableAfterDeparture ==
    ASSUME IInv, ~Drained, NEW a \in Table, SameTable(a, live, zone, tapped, mana, stack)
    PROVE  SameTable(a, Staying, ZoneLeft, TappedLeft, mana, StackLeft)
<1>1. \A c \in Card : IF Owner[c] \in Staying
                      THEN \/ ZoneLeft[c] = zone[c]
                           \/ zone[c] = "battlefield" /\ Controller[c] \notin Staying /\ ZoneLeft[c] = "exile"
                      ELSE ZoneLeft[c] # "battlefield"
  <2>1. \A c \in Card : Owner[c] \notin Staying => ZoneLeft[c] = "gone"
    BY ZoneLeftFacts
  <2>2. QED  BY <2>1 DEF ZoneLeft, Staying
<1>2. TappedLeft = StillTapped(tapped, ZoneLeft)
  BY DEF TappedLeft, StillTapped
<1>3. \A s : Owner[s.card] \in Staying => (s \in StackLeft <=> s \in stack)
  <2>1. \A s \in stack : s.card \in Card /\ zone[s.card] = "stack"
    BY DEF IInv, StackMatchesZones
  <2>2. QED  BY <2>1, ZoneLeftFacts DEF StackLeft, Staying
<1>4. Departed(Staying, zone, tapped, mana, stack, ZoneLeft, TappedLeft, mana, StackLeft)
  BY <1>1, <1>2, <1>3 DEF Departed
<1>5. QED  BY <1>4, StaySeats, DepartingKeepsSame

\* And of one with a cast, whose caster stays or leaves.
LEMMA BackAfterDeparture ==
    ASSUME IInv, ~Drained, frame \in CastFrames, NEW a, IsBack(a)
    PROVE  /\ ~CastLost => SameTable(a, Staying, [ZoneLeft EXCEPT ![cast.source] = "hand"],
                                     TappedLeft \ cast.activated, ManaBack, StackLeft \ {Top})
           /\ CastLost => SameZones(a, Staying, ZoneLeft) /\ SameStack(a, Staying, StackLeft)
           /\ CastLost /\ cast.activated = {} =>
                SameTable(a, Staying, ZoneLeft, TappedLeft, mana, StackLeft)
<1> DEFINE src == cast.source
           z2 == [ZoneLeft EXCEPT ![src] = "hand"]
<1>1. /\ src \in Card \ Lands /\ Owner[src] = priority /\ tapped \in SUBSET Lands
      /\ ZoneBack[src] = "hand" /\ \A c \in Card : c # src => ZoneBack[c] = zone[c]
      /\ \A p \in Seat : p # priority => ManaBack[p] = mana[p]
      /\ cast.activated = {} => ManaBack = mana
      /\ zone[src] = "stack" /\ Top.card = src
      /\ \A s \in stack : s.card = src => s = Top
      /\ live \subseteq Seat
  BY BackFacts, CastFacts
<1>2. a \in Table /\ SameTable(a, live, ZoneBack, tapped \ cast.activated, ManaBack, stack \ {Top})
  BY DEF IsBack
<1>3. /\ \A c \in Card : Owner[c] \notin Staying => ZoneLeft[c] = "gone"
      /\ ZoneLeft \in [Card -> Zones]
      /\ \A c \in Card : Owner[c] \in Staying =>
            \/ ZoneLeft[c] = zone[c]
            \/ zone[c] = "battlefield" /\ Controller[c] \notin Staying /\ ZoneLeft[c] = "exile"
  BY ZoneLeftFacts DEF ZoneLeft, Staying
<1>4. \A s : Owner[s.card] \in Staying => (s \in StackLeft <=> s \in stack)
  <2>1. \A s \in stack : s.card \in Card /\ zone[s.card] = "stack"
    BY DEF IInv, StackMatchesZones
  <2>2. QED  BY <2>1, ZoneLeftFacts DEF StackLeft, Staying
<1>5. CastLost <=> Owner[src] = Leaver
  BY <1>1, ZoneLeftFacts DEF CastLost
<1> HIDE DEF src
<1>6. ASSUME ~CastLost
      PROVE  SameTable(a, Staying, z2, TappedLeft \ cast.activated, ManaBack, StackLeft \ {Top})
  <2>1. Owner[src] \in Staying
    BY <1>6, CastLeftFacts DEF src
  <2>2. z2[src] = "hand" /\ \A c \in Card : c # src => z2[c] = ZoneLeft[c]
    BY <1>1, <1>3
  <2> HIDE DEF z2
  <2>3. \A c \in Card : IF Owner[c] \in Staying
                        THEN \/ z2[c] = ZoneBack[c]
                             \/ ZoneBack[c] = "battlefield" /\ Controller[c] \notin Staying /\ z2[c] = "exile"
                        ELSE z2[c] # "battlefield"
    BY <1>1, <1>3, <2>1, <2>2
  <2>4. TappedLeft \ cast.activated = StillTapped(tapped \ cast.activated, z2)
    <3>1. \A l \in tapped : z2[l] = ZoneLeft[l]
      BY <1>1, <2>2 DEF Card
    <3>2. QED  BY <3>1 DEF TappedLeft, StillTapped
  <2>5. \A s : Owner[s.card] \in Staying => (s \in StackLeft \ {Top} <=> s \in stack \ {Top})
    BY <1>4
  <2>6. Departed(Staying, ZoneBack, tapped \ cast.activated, ManaBack, stack \ {Top},
                 z2, TappedLeft \ cast.activated, ManaBack, StackLeft \ {Top})
    BY <2>3, <2>4, <2>5 DEF Departed
  <2>7. QED  BY <1>2, <2>6, StaySeats, DepartingKeepsSame
<1>7. ASSUME CastLost
      PROVE  SameTable(a, Staying, ZoneLeft, StillTapped(tapped \ cast.activated, ZoneLeft), mana, StackLeft)
  <2>1. Owner[src] \notin Staying
    BY <1>5, <1>7 DEF Staying
  <2>2. \A c \in Card : IF Owner[c] \in Staying
                        THEN \/ ZoneLeft[c] = ZoneBack[c]
                             \/ ZoneBack[c] = "battlefield" /\ Controller[c] \notin Staying /\ ZoneLeft[c] = "exile"
                        ELSE ZoneLeft[c] # "battlefield"
    BY <1>1, <1>3, <2>1
  <2>3. \A p \in Staying : mana[p] = ManaBack[p]
    BY <1>1, <2>1, StaySeats
  <2>4. \A s : Owner[s.card] \in Staying => (s \in StackLeft <=> s \in stack \ {Top})
    BY <1>1, <1>4, <2>1
  <2>5. Departed(Staying, ZoneBack, tapped \ cast.activated, ManaBack, stack \ {Top}, ZoneLeft,
                 StillTapped(tapped \ cast.activated, ZoneLeft), mana, StackLeft)
    BY <2>2, <2>3, <2>4 DEF Departed
  <2>6. QED  BY <1>2, <2>5, StaySeats, DepartingKeepsSame
<1>8. cast.activated = {} => StillTapped(tapped \ cast.activated, ZoneLeft) = TappedLeft
  BY DEF StillTapped, TappedLeft
<1>9. ASSUME CastLost PROVE SameZones(a, Staying, ZoneLeft) /\ SameStack(a, Staying, StackLeft)
  BY <1>7, <1>9 DEF SameTable
<1>10. QED  BY <1>6, <1>7, <1>8, <1>9 DEF src

\* A departure leaves the tables that were remembered of the one it is applied to,
\* and takes a lost or spoiled cast back.
LEMMA DepartureLeaves ==
    ASSUME HInv, Departure
    PROVE  /\ ~Drained /\ live' = Staying
           /\ frame = "Priority" => \A p \in passes : Leaves(saw[p])
           /\ CastSpoiled \/ (CastLost /\ cast.activated = {}) => \A a : IsBack(a) => Leaves(a)
           /\ CastLost => \A a : IsBack(a) =>
                SameZones(a, live', zone') /\ SameStack(a, live', stack')
<1>1. ~Drained /\ frame \notin {"Fault", "Finished"} /\ live' = Staying /\ IInv
  BY DEF Departure, Departs, Ended, HInv
<1>2. ~CastSpoiled => zone' = ZoneLeft /\ tapped' = TappedLeft /\ stack' = StackLeft /\ mana' = mana
  BY <1>1, DepartureTable
<1>3. ASSUME frame = "Priority", NEW p \in passes PROVE Leaves(saw[p])
  <2>1. saw[p] \in Table /\ SameTable(saw[p], live, zone, tapped, mana, stack)
    BY <1>3 DEF HInv, PassesSawThis
  <2>2. ~CastSpoiled
    BY <1>3 DEF CastSpoiled, CastFrames
  <2>3. SameTable(saw[p], Staying, ZoneLeft, TappedLeft, mana, StackLeft)
    BY <1>1, <2>1, TableAfterDeparture
  <2>4. QED  BY <1>1, <1>2, <2>2, <2>3 DEF Leaves
<1>4. ASSUME CastSpoiled, NEW a, IsBack(a) PROVE Leaves(a)
  <2>1. frame \in CastFrames /\ ~CastLost
    BY <1>4 DEF CastSpoiled
  <2>2. TopOf(StackLeft) = Top /\ ReverseCast(TRUE, ZoneLeft, TappedLeft, StackLeft)
    BY <1>1, <1>4, <2>1, CastLeftFacts DEF Departure
  <2>3. /\ zone' = [ZoneLeft EXCEPT ![cast.source] = "hand"]
        /\ tapped' = TappedLeft \ cast.activated /\ stack' = StackLeft \ {Top}
        /\ mana' = ManaBack
    BY <1>1, <2>1, <2>2, BackFacts DEF ReverseCast, ManaBack
  <2>4. QED  BY <1>1, <1>4, <2>1, <2>3, BackAfterDeparture DEF Leaves
<1>5. ASSUME CastLost, NEW a, IsBack(a)
      PROVE  /\ SameZones(a, live', zone') /\ SameStack(a, live', stack')
             /\ cast.activated = {} => Leaves(a)
  <2>1. frame \in CastFrames /\ ~CastSpoiled
    BY <1>5 DEF CastLost, CastSpoiled
  <2>2. QED  BY <1>1, <1>2, <1>5, <2>1, BackAfterDeparture DEF Leaves
<1>6. QED  BY <1>1, <1>3, <1>4, <1>5

-----------------------------------------------------------------------------
(* Every step keeps what is remembered true *)

\* What the history variables become.
LEMMA Memory ==
    ASSUME HNext
    PROVE  /\ \A p \in Seat : p \in passes' \/ (frame' \in CastFrames /\ p \in cast'.prior) =>
                 saw'[p] = IF Applies("Priority", "Pass") /\ p = pending.player THEN Sight ELSE saw[p]
           /\ frame' \in CastFrames => before' = IF frame \in CastFrames THEN before ELSE Sight
  BY DEF HNext, Remembered

\* Where no pass counts and no cast is in progress, nothing is remembered.
LEMMA NothingToRemember ==
    ASSUME frame' \notin CastFrames, frame' = "Priority" => passes' = {}
    PROVE  PassesSawThis' /\ CastHidesThat'
  BY DEF PassesSawThis, CastHidesThat

\* A round goes on while the table stays; whoever passes now sees it.
LEMMA RoundGoesOnHere ==
    ASSUME HInv, HNext, frame = "Priority", frame' = "Priority", live' = live, table' = table,
           \A p \in passes' : p \in passes \/ (Applies("Priority", "Pass") /\ p = pending.player),
           passes' \subseteq Seat
    PROVE  PassesSawThis' /\ CastHidesThat'
<1>1. zone' = zone /\ tapped' = tapped /\ mana' = mana /\ stack' = stack
  BY DEF table
<1>2. Sight \in Table /\ SameTable(Sight, live, zone, tapped, mana, stack)
  BY SightFacts, SameAsItself DEF HInv, IInv
<1>3. ASSUME NEW p \in passes'
      PROVE  saw'[p] \in Table /\ SameTable(saw'[p], live, zone, tapped, mana, stack)
  <2>1. p \in Seat /\ saw'[p] = IF Applies("Priority", "Pass") /\ p = pending.player THEN Sight ELSE saw[p]
    BY <1>3, Memory
  <2>2. CASE Applies("Priority", "Pass") /\ p = pending.player
    BY <1>2, <2>1, <2>2
  <2>3. CASE ~(Applies("Priority", "Pass") /\ p = pending.player)
    <3>1. p \in passes
      BY <1>3, <2>3
    <3>2. QED  BY <2>1, <2>3, <3>1 DEF HInv, PassesSawThis
  <2>4. QED  BY <2>2, <2>3
<1>4. PassesSawThis'
  BY <1>1, <1>3 DEF PassesSawThis
<1>5. CastHidesThat'
  BY DEF CastHidesThat, CastFrames
<1>6. QED  BY <1>4, <1>5

\* A cast goes on without touching what is under it.
LEMMA CastGoesOn ==
    ASSUME HInv, HNext, frame \in CastFrames, frame' \in CastFrames, live' = live,
           priority' = priority, cast'.prior = cast.prior,
           ZoneBack' = ZoneBack, ManaBack' = ManaBack,
           tapped' \ cast'.activated = tapped \ cast.activated, stack' \ {Top'} = stack \ {Top}
    PROVE  PassesSawThis' /\ CastHidesThat'
<1>1. frame' # "Priority" /\ frame # "Priority" /\ live \subseteq Seat
  BY DEF CastFrames, HInv, IInv, TypeOK
<1>2. before' = before /\ \A p \in cast.prior \cap live : saw'[p] = saw[p]
  BY <1>1, Memory DEF Applies
<1>3. CastHidesThat'
  BY <1>2 DEF HInv, CastHidesThat, IsBack
<1>4. QED  BY <1>1, <1>3 DEF PassesSawThis

\* An answer or a concession that is only queued changes nothing.
LEMMA QueueingKeeps ==
    ASSUME HInv, HNext, UNCHANGED <<live, priority, passes, table, frame, cast>>
    PROVE  PassesSawThis' /\ CastHidesThat'
<1>1. passes \subseteq Seat
  BY DEF HInv, IInv, TypeOK
<1>2. CASE frame = "Priority"
  BY <1>1, <1>2, RoundGoesOnHere
<1>3. CASE frame \in CastFrames
  <2>1. ZoneBack' = ZoneBack /\ ManaBack' = ManaBack /\ Top' = Top /\ tapped' = tapped /\ stack' = stack
    BY DEF ZoneBack, ManaBack, ActivatedOf, Top, table
  <2>2. QED  BY <1>3, <2>1, CastGoesOn
<1>4. CASE frame \notin CastFrames \cup {"Priority"}
  BY <1>4, NothingToRemember
<1>5. QED  BY <1>2, <1>3, <1>4

LEMMA PassRemembers == ASSUME HInv, HNext, Pass PROVE PassesSawThis' /\ CastHidesThat'
<1>1. frame = "Priority" /\ Applies("Priority", "Pass") /\ live' = live /\ table' = table
  BY DEF Pass, Applies, table
<1>2. passes \subseteq Seat /\ pending.player \in Seat
  BY <1>1, PendingFacts DEF HInv, IInv, TypeOK, Applies, Input
<1>3. CASE AllPassed(passes \cup {pending.player}, live)
  <2>1. frame' = "Resolve"
    BY <1>3 DEF Pass, BeginResolution
  <2>2. QED  BY <2>1, NothingToRemember DEF CastFrames
<1>4. CASE ~AllPassed(passes \cup {pending.player}, live)
  <2>1. frame' = "Priority" /\ passes' = passes \cup {pending.player}
    BY <1>1, <1>4 DEF Pass
  <2>2. QED  BY <1>1, <1>2, <2>1, RoundGoesOnHere
<1>5. QED  BY <1>3, <1>4

LEMMA CastRemembers == ASSUME HInv, HNext, Cast PROVE PassesSawThis' /\ CastHidesThat'
<1> DEFINE c == pending.card
           new == [id |-> NextStackId, card |-> c, target |-> None, paid |-> FALSE]
<1>1. /\ IInv /\ frame = "Priority" /\ ~Applies("Priority", "Pass") /\ c \in Spells /\ zone[c] = "hand"
      /\ zone \in [Card -> Zones] /\ mana \in [Seat -> [Colours -> Nat]] /\ priority \in Seat
      /\ live \subseteq Seat /\ passes \subseteq live
  BY PendingFacts DEF HInv, Cast, Applies, Valid, CanCast, IInv, TypeOK, DepartedHoldNothing
<1>2. /\ zone' = [zone EXCEPT ![c] = "stack"] /\ stack' = stack \cup {new}
      /\ cast' = [source |-> c, prior |-> passes, activated |-> {}, undo |-> FALSE]
      /\ passes' = {} /\ frame' = "Targets" /\ live' = live /\ priority' = priority
      /\ tapped' = tapped /\ mana' = mana
  BY DEF Cast
<1>3. ZoneBack' = zone
  BY <1>1, <1>2 DEF ZoneBack, Card
<1>4. ManaBack' = mana
  <2>1. \A k \in Colours : ActivatedOf(k)' = 0
    BY <1>2, FS_EmptySet DEF ActivatedOf
  <2>2. [k \in Colours |-> mana[priority][k] - ActivatedOf(k)'] = mana[priority]
    BY <1>1, <2>1
  <2>3. ManaBack' = [mana EXCEPT ![priority] = [k \in Colours |-> mana[priority][k] - ActivatedOf(k)']]
    BY <1>2 DEF ManaBack
  <2>4. QED  BY <1>1, <2>2, <2>3
<1>5. stack' \ {Top'} = stack
  <2>1. NextStackId \in Nat /\ \A t \in stack : t.id < NextStackId
    BY <1>1, StackFacts DEF NextStackId, IInv, StackInstance, TypeOK
  <2>2. \A t \in stack : t.card # c
    BY <1>1 DEF IInv, StackMatchesZones
  <2>3. new \in StackInstance /\ new.card = c /\ new.id = NextStackId
    BY <1>1, <2>1 DEF StackInstance
  <2> HIDE DEF new
  <2>4. TopOf(stack \cup {new}) = new
    BY <1>1, <2>1, <2>2, <2>3, StackIsStack, StackGrows
  <2>5. QED  BY <1>2, <2>2, <2>3, <2>4 DEF Top
<1>6. before' = Sight /\ \A p \in passes : saw'[p] = saw[p]
  BY <1>1, <1>2, Memory DEF CastFrames
<1>7. Sight \in Table /\ Sight.passes = passes /\ Sight.priority = priority
      /\ SameTable(Sight, live, zone, tapped, mana, stack)
  BY <1>1, SightFacts, SameAsItself DEF IInv, Sight
<1>8. \A p \in passes : saw[p] \in Table /\ SameTable(saw[p], live, zone, tapped, mana, stack)
  BY <1>1 DEF HInv, PassesSawThis
<1>9. cast'.prior = passes /\ tapped' \ cast'.activated = tapped
  BY <1>2
<1>10. CastHidesThat'
  BY <1>2, <1>3, <1>4, <1>5, <1>6, <1>7, <1>8, <1>9 DEF CastHidesThat, IsBack
<1>11. PassesSawThis'
  BY <1>2 DEF PassesSawThis
<1>12. QED  BY <1>10, <1>11

LEMMA CastingRemembers ==
    ASSUME HInv, HNext, ChooseTargets \/ ActivateWhileCasting \/ FinishMana
    PROVE  PassesSawThis' /\ CastHidesThat'
<1>1. /\ frame \in CastFrames /\ frame' \in CastFrames /\ live' = live /\ priority' = priority
      /\ zone' = zone /\ cast'.prior = cast.prior /\ cast'.source = cast.source
  BY DEF ChooseTargets, ActivateWhileCasting, FinishMana, Applies, CastFrames, table, HInv, IInv,
         TypeOK, Casting
<1>2. ZoneBack' = ZoneBack
  BY <1>1 DEF ZoneBack
<1>3. CASE ChooseTargets
  <2> DEFINE new == [Top EXCEPT !.target = pending.card]
  <2>1. Top \in stack /\ Top \in StackInstance /\ stack # {} /\ Legal(pending.card, zone)
    <3>1. Legal(pending.card, zone)
      BY <1>3, PendingFacts DEF HInv, ChooseTargets, Applies, Valid
    <3>2. QED  BY <1>1, <3>1, CastFacts DEF HInv
  <2>2. new \in StackInstance /\ new.id = Top.id /\ new.card = Top.card
    BY <2>1 DEF StackInstance, Legal
  <2>3. stack' = (stack \ {Top}) \cup {new} /\ tapped' = tapped /\ mana' = mana /\ cast' = cast
    BY <1>3 DEF ChooseTargets
  <2> HIDE DEF new
  <2>4. Top' = new
    BY <2>1, <2>2, <2>3, StackIsStack, TopRewritten DEF Top, HInv
  <2>5. new \notin stack \ {Top}
    BY <2>1, <2>2 DEF HInv, IInv, StackMatchesZones
  <2>6. ManaBack' = ManaBack
    BY <1>1, <2>3 DEF ManaBack, ActivatedOf
  <2>7. stack' \ {Top'} = stack \ {Top} /\ tapped' \ cast'.activated = tapped \ cast.activated
    BY <2>3, <2>4, <2>5
  <2>8. QED  BY <1>1, <1>2, <2>6, <2>7, CastGoesOn
<1>4. CASE ActivateWhileCasting
  <2> DEFINE l == pending.card
  <2>1. /\ l \in Lands /\ l \notin tapped /\ zone[l] = "battlefield" /\ pending.player = priority
        /\ frame = "Mana" /\ priority \in Seat
    BY <1>1, <1>4, PendingFacts, CastFacts
       DEF HInv, IInv, TypeOK, ActivateWhileCasting, Applies, CanActivate, Valid, Top, CastFrames
  <2>2. /\ stack' = stack /\ tapped' = tapped \cup {l}
        /\ mana' = [mana EXCEPT ![priority][Produces[l]] = @ + 1]
        /\ cast'.activated = cast.activated \cup {l}
    BY <1>4, <2>1 DEF ActivateWhileCasting, Tap, HInv, IInv, TypeOK, Casting
  <2>3. l \notin cast.activated
    <3>1. l \in Card /\ (zone[l] = "gone" <=> Owner[l] \notin live)
      BY <2>1 DEF Card, HInv, IInv, DepartedHoldNothing
    <3>2. Owner[l] \in live
      BY <2>1, <3>1
    <3>3. QED  BY <1>1, <2>1, <3>2 DEF HInv, IInv, CastingIsOnTop
  <2>4. cast.activated \in SUBSET Lands /\ mana \in [Seat -> [Colours -> Nat]]
        /\ Produces[l] \in Colours
    BY <2>1, ManaAssumption DEF HInv, IInv, TypeOK, Casting
  <2> HIDE DEF l
  <2>5. ManaBack' = ManaBack
    <3>1. ASSUME NEW k \in Colours
          PROVE  mana'[priority][k] - ActivatedOf(k)' = mana[priority][k] - ActivatedOf(k)
      <4> DEFINE Old == {x \in cast.activated : Produces[x] = k}
      <4>1. IsFiniteSet(Old) /\ Cardinality(Old) \in Nat
        BY <2>4, FS_Subset, FS_CardinalityType, CardAssumption
      <4>2. mana[priority][k] \in Nat
        BY <2>1, <2>4
      <4>3. CASE Produces[l] = k
        <5>1. {x \in cast'.activated : Produces[x] = k} = Old \cup {l} /\ l \notin Old
          BY <2>2, <2>3, <4>3
        <5>2. ActivatedOf(k)' = Cardinality(Old \cup {l}) /\ ActivatedOf(k) = Cardinality(Old)
          BY <5>1 DEF ActivatedOf
        <5>3. mana'[priority][k] = mana[priority][k] + 1
          BY <2>1, <2>2, <2>4, <4>3
        <5> HIDE DEF Old
        <5>4. Cardinality(Old \cup {l}) = Cardinality(Old) + 1
          BY <4>1, <5>1, FS_AddElement
        <5>5. QED  BY <4>1, <4>2, <5>2, <5>3, <5>4
      <4>4. CASE Produces[l] # k
        <5>1. {x \in cast'.activated : Produces[x] = k} = Old
          BY <2>2, <4>4
        <5>2. mana'[priority][k] = mana[priority][k]
          BY <2>1, <2>2, <2>4, <4>4
        <5>3. QED  BY <5>1, <5>2 DEF ActivatedOf
      <4>5. QED  BY <4>3, <4>4
    <3>2. /\ ManaBack = [mana EXCEPT ![priority] = [k \in Colours |-> mana[priority][k] - ActivatedOf(k)]]
          /\ ManaBack' = [mana' EXCEPT ![priority] = [k \in Colours |-> mana'[priority][k] - ActivatedOf(k)']]
      BY <1>1, <2>1, <2>2, <2>4 DEF ManaBack
    <3>3. [k \in Colours |-> mana'[priority][k] - ActivatedOf(k)'] =
          [k \in Colours |-> mana[priority][k] - ActivatedOf(k)]
      BY <3>1
    <3>4. DOMAIN mana' = Seat /\ DOMAIN mana = Seat /\ \A p \in Seat : p # priority => mana'[p] = mana[p]
      BY <2>2, <2>4
    <3>5. QED  BY <2>1, <3>2, <3>3, <3>4
  <2>6. tapped' \ cast'.activated = tapped \ cast.activated
    BY <2>1, <2>2 DEF l
  <2>7. Top' = Top
    BY <2>2 DEF Top
  <2>8. QED  BY <1>1, <1>2, <2>2, <2>5, <2>6, <2>7, CastGoesOn
<1>5. CASE FinishMana
  <2>1. tapped' = tapped /\ mana' = mana /\ stack' = stack /\ cast'.activated = cast.activated
    BY <1>5 DEF FinishMana, table, HInv, IInv, TypeOK, Casting
  <2>2. ManaBack' = ManaBack /\ Top' = Top
    BY <1>1, <2>1 DEF ManaBack, ActivatedOf, Top
  <2>3. QED  BY <1>1, <1>2, <2>1, <2>2, CastGoesOn
<1>6. QED  BY <1>3, <1>4, <1>5

LEMMA CannotPayRemembers == ASSUME HInv, HNext, CannotPay PROVE PassesSawThis' /\ CastHidesThat'
<1>1. /\ IInv /\ frame \in CastFrames /\ frame # "Priority" /\ frame' = "Priority" /\ live' = live
      /\ passes' = RestoredPasses(cast.undo, live) /\ cast.undo \in BOOLEAN
      /\ ReverseCast(cast.undo, zone, tapped, stack) /\ live \subseteq Seat
  BY DEF HInv, CannotPay, CastFrames, IInv, TypeOK, Casting
<1>2. CASE cast.undo \/ cast.activated = {}
  <2>1. zone' = ZoneBack /\ tapped' = tapped \ cast.activated /\ mana' = ManaBack
        /\ stack' = stack \ {Top}
    BY <1>1, <1>2, ReversedIsBack
  <2>2. \A p \in passes' : p \in cast.prior \cap live /\ saw'[p] = saw[p]
    BY <1>1, <1>2, Memory DEF RestoredPasses, Applies
  <2>3. \A p \in passes' : IsBack(saw[p])
    BY <1>1, <2>2 DEF HInv, CastHidesThat
  <2>4. PassesSawThis'
    BY <1>1, <2>1, <2>2, <2>3 DEF PassesSawThis, IsBack
  <2>5. CastHidesThat'
    BY <1>1 DEF CastHidesThat, CastFrames
  <2>6. QED  BY <2>4, <2>5
<1>3. CASE ~(cast.undo \/ cast.activated = {})
  <2>1. passes' = {}
    BY <1>1, <1>3 DEF RestoredPasses
  <2>2. QED  BY <1>1, <2>1, NothingToRemember DEF CastFrames
<1>4. QED  BY <1>2, <1>3

\* The passes that count after a departure were made on the table it leaves.
LEMMA CountedStillSaw ==
    ASSUME HInv, Departure, FrameLeft = "Priority", NEW p \in PassesLeft
    PROVE  p \in Staying /\ saw[p] \in Table /\ Leaves(saw[p])
<1>1. p \in Staying
  BY FrameLeftFacts DEF Departure, Departs, Ended, HInv
<1>2. CASE frame = "Priority"
  <2>1. p \in passes
    BY <1>2 DEF PassesLeft, CastLost, CastSpoiled, CastFrames
  <2>2. QED  BY <1>1, <1>2, <2>1, DepartureLeaves DEF HInv, PassesSawThis
<1>3. CASE frame # "Priority"
  <2>1. frame \in CastFrames /\ (CastLost \/ CastSpoiled)
    BY <1>3 DEF FrameLeft, CastLost, CastSpoiled
  <2>2. p \in cast.prior \cap live /\ (CastSpoiled \/ (CastLost /\ cast.activated = {}))
    BY <1>1, <2>1 DEF PassesLeft, RestoredPasses, Staying
  <2>3. IsBack(saw[p])
    BY <2>1, <2>2 DEF HInv, CastHidesThat
  <2>4. QED  BY <1>1, <2>2, <2>3, DepartureLeaves DEF IsBack
<1>4. QED  BY <1>2, <1>3

LEMMA DepartureRemembers == ASSUME HInv, HNext, Departure PROVE PassesSawThis' /\ CastHidesThat'
<1>1. /\ IInv /\ ~Drained /\ frame \notin {"Fault", "Finished"} /\ live' = Staying
      /\ Staying \in SUBSET live /\ live \subseteq Seat
  BY StaySeats DEF Departure, Departs, Ended, HInv, IInv, TypeOK
<1>2. CASE RoundEnds
  <2>1. frame' = "Resolve"
    BY <1>2 DEF Departure, BeginResolution
  <2>2. QED  BY <2>1, NothingToRemember DEF CastFrames
<1>3. CASE ~RoundEnds
  <2>1. frame' = FrameLeft /\ passes' = PassesLeft
    BY <1>3 DEF Departure
  <2>2. CASE FrameLeft \in CastFrames
    <3>1. frame' = frame /\ frame \in CastFrames /\ ~CastLost /\ ~CastSpoiled
      BY <1>1, <2>1, <2>2, FrameLeftFacts DEF CastFrames
    <3>2. /\ zone' = ZoneLeft /\ tapped' = TappedLeft /\ stack' = StackLeft /\ mana' = mana
          /\ priority' = priority /\ cast' = cast /\ Top' = Top
      BY <1>1, <2>2, <3>1, CastLeftFacts, DepartureTable DEF Top
    <3>3. ZoneBack' = [ZoneLeft EXCEPT ![cast.source] = "hand"] /\ ManaBack' = ManaBack
      BY <3>2 DEF ZoneBack, ManaBack, ActivatedOf
    <3>4. \A a : IsBack(a) => a \in Table /\ SameTable(a, Staying, ZoneBack', tapped' \ cast'.activated,
                                                      ManaBack', stack' \ {Top'})
      BY <1>1, <3>1, <3>2, <3>3, BackAfterDeparture DEF IsBack
    <3>5. before' = before /\ \A p \in cast.prior \cap Staying : saw'[p] = saw[p]
      BY <1>1, <3>1, <3>2, Memory DEF Applies
    <3>6. /\ IsBack(before) /\ before.passes = cast.prior /\ before.priority = priority
          /\ \A p \in cast.prior \cap live : IsBack(saw[p])
      BY <3>1 DEF HInv, CastHidesThat
    <3>7. CastHidesThat'
      BY <1>1, <3>1, <3>2, <3>4, <3>5, <3>6 DEF CastHidesThat, IsBack
    <3>8. PassesSawThis'
      BY <3>1 DEF PassesSawThis, CastFrames
    <3>9. QED  BY <3>7, <3>8
  <2>3. CASE FrameLeft = "Priority"
    <3>1. CastHidesThat'
      BY <2>1, <2>3 DEF CastHidesThat, CastFrames
    <3>2. ASSUME NEW p \in PassesLeft PROVE saw'[p] = saw[p] /\ saw[p] \in Table /\ Leaves(saw[p])
      <4>1. p \in Staying /\ saw[p] \in Table /\ Leaves(saw[p]) /\ ~Drained
        BY <1>1, <2>3, <3>2, CountedStillSaw
      <4>2. QED  BY <1>1, <2>1, <3>2, <4>1, Memory DEF Applies
    <3>3. PassesSawThis'
      BY <2>1, <3>2 DEF PassesSawThis, Leaves
    <3>4. QED  BY <3>1, <3>3
  <2>4. CASE FrameLeft \notin CastFrames \cup {"Priority"}
    BY <2>1, <2>4, NothingToRemember
  <2>5. QED  BY <2>2, <2>3, <2>4
<1>4. QED  BY <1>2, <1>3

LEMMA HNextKeeps == ASSUME HInv, [HNext]_hvars PROVE HInv'
<1>1. [Next]_vars
  BY DEF HNext, hvars
<1>2. IInv'
  BY <1>1, NextKeeps DEF HInv
<1>3. PassesGoRound'
  BY <1>1, PassKeepsRound, LeavingKeepsRound, OthersKeepRound DEF HInv
<1>4. ASSUME UNCHANGED hvars PROVE PassesSawThis' /\ CastHidesThat'
  <2>1. UNCHANGED <<live, priority, passes, zone, tapped, mana, stack, frame, cast, saw, before>>
    BY <1>4 DEF hvars, vars
  <2>2. ZoneBack' = ZoneBack /\ ManaBack' = ManaBack /\ Top' = Top
    BY <2>1 DEF ZoneBack, ManaBack, ActivatedOf, Top
  <2>3. PassesSawThis'
    BY <2>1 DEF PassesSawThis, HInv
  <2>4. CastHidesThat'
    BY <2>1, <2>2 DEF CastHidesThat, IsBack, HInv
  <2>5. QED  BY <2>3, <2>4
<1>5. ASSUME HNext PROVE PassesSawThis' /\ CastHidesThat'
  <2>1. CASE Submit \/ \E p \in Seat : Concede(p)
    <3>1. UNCHANGED <<live, priority, passes, table, frame, cast>>
      BY <2>1 DEF Submit, Concede
    <3>2. QED  BY <1>5, <3>1, QueueingKeeps
  <2>2. CASE Pass \/ Cast \/ Departure \/ CannotPay
    BY <1>5, <2>2, PassRemembers, CastRemembers, DepartureRemembers, CannotPayRemembers
  <2>3. CASE ChooseTargets \/ ActivateWhileCasting \/ FinishMana
    BY <1>5, <2>3, CastingRemembers
  <2>4. CASE ActivateMana \/ Pay \/ FinishSpell
    <3>1. frame' = "Priority" /\ passes' = {}
      BY <2>4 DEF ActivateMana, Applies, Pay, FinishSpell, HInv, PassesGoRound, CastFrames
    <3>2. QED  BY <3>1, NothingToRemember DEF CastFrames
  <2>5. CASE ReturnTarget \/ LastDeparture \/ Fault
    <3>1. frame' \in {"Resolve", "Finished", "Fault"}
      BY <2>5 DEF ReturnTarget, LastDeparture, Fault
    <3>2. QED  BY <3>1, NothingToRemember DEF CastFrames
  <2>6. QED  BY <1>5, <2>1, <2>2, <2>3, <2>4, <2>5 DEF HNext, Next, Advance
<1>6. QED  BY <1>2, <1>3, <1>4, <1>5 DEF HInv

\* For every table and every deck of cards, what is remembered of a pass or of the
\* start of a cast is true of the present table, the cast taken back and the
\* departures since then applied (Game::pass, begin_cast, reverse_cast,
\* finish_departure).
THEOREM HistoryInvariance == HSpec => []HInv
<1>1. HInit => HInv
  <2>1. HInit => IInv
    BY InitIsSound DEF HInit
  <2>2. HInit => PassesGoRound /\ PassesSawThis /\ CastHidesThat
    BY DEF HInit, Init, PassesGoRound, PassedInTurn, PassesSawThis, CastHidesThat, CastFrames
  <2>3. QED  BY <2>1, <2>2 DEF HInv
<1>2. HInv /\ [HNext]_hvars => HInv'
  BY HNextKeeps
<1>3. QED  BY <1>1, <1>2, PTL DEF HSpec

-----------------------------------------------------------------------------
(* What a round that ends, and a cast given up, may rely on *)

LEMMA RoundEndsBy ==
    ASSUME [Next]_vars, frame # "Resolve", frame' = "Resolve" PROVE Pass \/ Departure
  BY DEF Next, Advance, vars, Submit, Concede, ActivateMana, Cast, ChooseTargets,
         ActivateWhileCasting, FinishMana, Pay, CannotPay, ReturnTarget, FinishSpell,
         LastDeparture, Fault, Applies

LEMMA RoundEndsSeen == ASSUME HInv, [HNext]_hvars PROVE EveryPassSawThis
<1> SUFFICES ASSUME frame # "Resolve", frame' = "Resolve", NEW p \in live'
             PROVE  \/ Applies("Priority", "Pass") /\ p = pending.player
                    \/ saw[p] # Nothing /\ Leaves(saw[p])
  BY DEF EveryPassSawThis
<1>1. Pass \/ Departure
  BY RoundEndsBy DEF HNext, hvars
<1>2. CASE Pass
  <2>1. /\ Applies("Priority", "Pass") /\ frame = "Priority" /\ live' = live
        /\ zone' = zone /\ tapped' = tapped /\ mana' = mana /\ stack' = stack
        /\ AllPassed(passes \cup {pending.player}, live)
    BY <1>2 DEF Pass, Applies, table
  <2>2. CASE p # pending.player
    <3>1. p \in passes
      BY <2>1, <2>2 DEF AllPassed
    <3>2. saw[p] \in Table /\ SameTable(saw[p], live, zone, tapped, mana, stack)
      BY <2>1, <3>1 DEF HInv, PassesSawThis
    <3>3. QED  BY <2>1, <3>2, TableIsSomething DEF Leaves
  <2>3. QED  BY <2>1, <2>2
<1>3. CASE Departure
  <2>1. live' = Staying /\ FrameLeft # "Resolve"
    BY <1>3 DEF Departure, Departs, FrameLeft
  <2>2. RoundEnds
    BY <1>3, <2>1 DEF Departure
  <2>3. FrameLeft = "Priority" /\ p \in PassesLeft
    BY <2>1, <2>2 DEF RoundEnds, AllPassed
  <2>4. QED  BY <1>3, <2>3, CountedStillSaw, TableIsSomething
<1>4. QED  BY <1>1, <1>2, <1>3

\* A spell starts to resolve only when every remaining player has passed on the
\* table as it is, however many seats, casts taken back and departures lie between
\* the first of these passes and the last (Game::all_live_passed).
THEOREM RoundsAreUnanimous == HSpec => RoundIsUnanimous
<1>1. HInv /\ [HNext]_hvars => [EveryPassSawThis]_hvars
  BY RoundEndsSeen
<1>2. QED  BY <1>1, HistoryInvariance, PTL DEF HSpec, RoundIsUnanimous

LEMMA GivenUpBy == ASSUME IInv, [Next]_vars, GivenUp PROVE CannotPay \/ Departure
<1>1. /\ frame \in CastFrames /\ frame' \notin CastFrames \cup {"Fault", "Finished"}
      /\ zone'[cast.source] # "stack"
  BY DEF GivenUp
<1>2. frame' # frame
  BY <1>1
<1>3. ~Pay
  BY <1>1, CastFacts DEF Pay
<1>4. QED
  BY <1>1, <1>2, <1>3
  DEF Next, Advance, vars, Submit, Concede, ActivateMana, Cast, Pass, ChooseTargets,
      ActivateWhileCasting, FinishMana, ReturnTarget, FinishSpell, LastDeparture, Fault,
      Applies, CastFrames

\* The lands of a cast are tapped where they are still there to be untapped.
LEMMA ActivatedStayTapped ==
    ASSUME IInv, frame \in CastFrames, NEW t, StillTapped(t, ZoneBack) = tapped \ cast.activated
    PROVE  tapped = StillTapped(t \cup cast.activated, ZoneBack)
<1>1. ASSUME NEW l \in cast.activated PROVE ZoneBack[l] = "battlefield" <=> l \in tapped
  <2>1. l \in Card /\ ZoneBack[l] = zone[l]
    BY BackFacts DEF Card
  <2>2. CASE Owner[l] \in live
    BY <2>1, <2>2 DEF IInv, CastingIsOnTop
  <2>3. CASE Owner[l] \notin live
    BY <2>1, <2>3 DEF IInv, DepartedHoldNothing, TableIsSound
  <2>4. QED  BY <2>2, <2>3
<1>2. QED  BY <1>1 DEF StillTapped

LEMMA CannotPayLeavesNoTrace == ASSUME HInv, CannotPay PROVE NoTraceLeft
<1>1. /\ IInv /\ frame \in CastFrames /\ frame' = "Priority" /\ live' = live
      /\ passes' = RestoredPasses(cast.undo, live) /\ cast.undo \in BOOLEAN
      /\ ReverseCast(cast.undo, zone, tapped, stack)
  BY DEF HInv, CannotPay, CastFrames, IInv, TypeOK, Casting
<1>2. IsBack(before) /\ before.passes = cast.prior /\ before.priority = priority
  BY <1>1 DEF HInv, CastHidesThat
<1>3. CASE cast.undo \/ cast.activated = {}
  <2>1. zone' = ZoneBack /\ tapped' = tapped \ cast.activated /\ mana' = ManaBack
        /\ stack' = stack \ {Top}
    BY <1>1, <1>3, ReversedIsBack
  <2>2. Leaves(before)
    BY <1>1, <1>2, <2>1 DEF Leaves, IsBack
  <2>3. RoundRestored
    BY <1>1, <1>2, <1>3 DEF RoundRestored, RestoredPasses
  <2>4. QED  BY <2>2, <2>3 DEF NoTraceLeft
<1>4. CASE ~(cast.undo \/ cast.activated = {})
  <2>1. zone' = ZoneBack /\ tapped' = tapped /\ mana' = mana /\ stack' = stack \ {Top}
    BY <1>1, <1>4 DEF ReverseCast, ZoneBack, Top
  <2>2. /\ SameZones(before, live, ZoneBack) /\ SameStack(before, live, stack \ {Top})
        /\ SameMana(before, live, ManaBack)
        /\ StillTapped(before.tapped, ZoneBack) = tapped \ cast.activated
    BY <1>2 DEF IsBack, SameTable
  <2>3. tapped' = StillTapped(before.tapped \cup cast.activated, zone')
    BY <1>1, <2>1, <2>2, ActivatedStayTapped
  <2>4. ASSUME NEW k \in Colours
        PROVE  mana'[before.priority][k] = before.mana[before.priority][k] + ActivatedOf(k)
    <3>1. /\ priority \in live /\ priority \in Seat /\ mana[priority][k] \in Nat
          /\ ManaBack[priority][k] = mana[priority][k] - ActivatedOf(k)
      BY <1>1, BackFacts
    <3>2. before.mana[priority][k] = ManaBack[priority][k]
      BY <2>2, <3>1 DEF SameMana
    <3>3. ActivatedOf(k) \in Nat
      BY <1>1, ActivatedIsNat DEF IInv
    <3>4. QED  BY <1>2, <2>1, <3>1, <3>2, <3>3
  <2>5. passes' = {}
    BY <1>1, <1>4 DEF RestoredPasses
  <2>6. QED  BY <1>1, <1>4, <2>1, <2>2, <2>3, <2>4, <2>5 DEF NoTraceLeft, ManaKept
<1>5. QED  BY <1>3, <1>4

LEMMA DepartureLeavesNoTrace == ASSUME HInv, Departure PROVE NoTraceLeft
<1> SUFFICES ASSUME GivenUp
             PROVE  \/ Leaves(before) /\ RoundRestored
                    \/ /\ cast.activated # {}
                       /\ SameZones(before, live', zone') /\ SameStack(before, live', stack')
                       /\ passes' = {} /\ Owner[cast.source] \notin live'
  BY DEF NoTraceLeft
<1>1. /\ IInv /\ frame \in CastFrames /\ frame' \notin CastFrames /\ live' = Staying
      /\ Staying \in SUBSET live /\ ~Drained
  BY StaySeats DEF HInv, GivenUp, Departure, Departs
<1>2. IsBack(before) /\ before.passes = cast.prior
  BY <1>1 DEF HInv, CastHidesThat
<1>3. CastLost \/ CastSpoiled
  BY <1>1 DEF Departure, FrameLeft, RoundEnds, CastFrames
<1>4. FrameLeft = "Priority"
  BY <1>3 DEF FrameLeft
<1>5. CASE CastSpoiled \/ cast.activated = {}
  <2>1. Leaves(before)
    BY <1>2, <1>3, <1>5, DepartureLeaves
  <2>2. PassesLeft = before.passes \cap live'
    BY <1>1, <1>2, <1>3, <1>5 DEF PassesLeft, RestoredPasses, CastSpoiled
  <2>3. RoundRestored
    <3>1. CASE RoundEnds
      BY <1>1, <2>2, <3>1 DEF Departure, BeginResolution, RoundRestored, RoundEnds, AllPassed
    <3>2. CASE ~RoundEnds
      BY <1>4, <2>2, <3>2 DEF Departure, RoundRestored
    <3>3. QED  BY <3>1, <3>2
  <2>4. QED  BY <2>1, <2>3
<1>6. CASE ~(CastSpoiled \/ cast.activated = {})
  <2>1. CastLost /\ cast.activated # {}
    BY <1>3, <1>6
  <2>2. SameZones(before, live', zone') /\ SameStack(before, live', stack')
    BY <1>2, <2>1, DepartureLeaves
  <2>3. PassesLeft = {}
    BY <2>1 DEF PassesLeft, RestoredPasses
  <2>4. passes' = {}
    BY <2>3 DEF Departure, BeginResolution
  <2>5. Owner[cast.source] \notin live'
    <3>1. cast.source \in Card /\ zone[cast.source] = "stack"
      BY <1>1, CastFacts, BackFacts
    <3>2. Owner[cast.source] = Leaver
      BY <1>1, <2>1, <3>1 DEF CastLost, ZoneLeft
    <3>3. QED  BY <1>1, <3>2 DEF Staying
  <2>6. QED  BY <2>1, <2>2, <2>4, <2>5
<1>7. QED  BY <1>5, <1>6

\* A cast that is given up leaves the table and the round it began on, but for what
\* departures took and the mana its caster kept, whatever was tapped, targeted or
\* conceded while it was on the stack (Game::reverse_cast, finish_departure).
THEOREM ReversalsLeaveNoTrace == HSpec => ReversalLeavesNoTrace
<1>1. HInv /\ [HNext]_hvars => [NoTraceLeft]_hvars
  <2> SUFFICES ASSUME HInv, [HNext]_hvars PROVE NoTraceLeft
    OBVIOUS
  <2>1. GivenUp => CannotPay \/ Departure
    BY GivenUpBy DEF HInv, HNext, hvars
  <2>2. QED  BY <2>1, CannotPayLeavesNoTrace, DepartureLeavesNoTrace DEF NoTraceLeft
<1>2. QED  BY <1>1, HistoryInvariance, PTL DEF HSpec, ReversalLeavesNoTrace
=============================================================================
