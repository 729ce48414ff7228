----------------------------- MODULE FiniteOrders -----------------------------
(***************************************************************************)
(* That a finite set has a greatest and a least element by any integer     *)
(* measure, and that the positions of a list can be put in order: why      *)
(* next_live, top and InOrder, which the models write as a CHOOSE, always  *)
(* name something.                                                         *)
(***************************************************************************)
EXTENDS Positions, TLAPS, FiniteSetTheorems, WellFoundedInduction

\* A finite set that is not empty has an element where an integer function is
\* greatest.
LEMMA GreatestExists ==
    ASSUME NEW S, IsFiniteSet(S), S # {}, NEW f \in [S -> Int]
    PROVE  \E s \in S : \A t \in S : f[t] <= f[s]
<1> DEFINE Above(s) == {t \in S : f[t] > f[s]}
<1> DEFINE Aboves == {Above(s) : s \in S}
<1>1. Aboves \subseteq FiniteSubsetsOf(S) /\ Aboves # {}
  <2>1. \A s \in S : Above(s) \in SUBSET S
    OBVIOUS
  <2>2. \A T \in SUBSET S : IsFiniteSet(T)
    BY FS_Subset
  <2>3. \A T \in Aboves : T \in FiniteSubsetsOf(S)
    BY <2>1, <2>2 DEF FiniteSubsetsOf
  <2>4. PICK s \in S : TRUE
    OBVIOUS
  <2>5. Above(s) \in Aboves
    OBVIOUS
  <2> HIDE DEF Aboves
  <2>6. QED  BY <2>3, <2>5
<1>2. PICK U \in Aboves : \A V \in Aboves : ~(<<V, U>> \in StrictSubsetOrdering(S))
  <2>1. IsWellFoundedOn(StrictSubsetOrdering(S), FiniteSubsetsOf(S))
    BY FS_StrictSubsetOrderingWellFounded
  <2> HIDE DEF Aboves
  <2>2. QED  BY <1>1, <2>1, WFMin
<1>3. PICK s \in S : U = Above(s)
  OBVIOUS
<1>4. ASSUME NEW t \in S, f[t] > f[s] PROVE FALSE
  <2>1. Above(t) \subseteq Above(s)
    BY <1>4
  <2>2. t \in Above(s) /\ t \notin Above(t)
    BY <1>4
  <2>3. <<Above(t), U>> \in StrictSubsetOrdering(S)
    BY <1>3, <2>1, <2>2 DEF StrictSubsetOrdering
  <2>4. QED  BY <1>2, <2>3
<1>5. QED  BY <1>4

\* And one where it is least.
LEMMA LeastExists ==
    ASSUME NEW S, IsFiniteSet(S), S # {}, NEW f \in [S -> Int]
    PROVE  \E s \in S : \A t \in S : f[s] <= f[t]
<1> DEFINE g == [s \in S |-> 0 - f[s]]
<1>1. g \in [S -> Int]
  OBVIOUS
<1>2. PICK s \in S : \A t \in S : g[t] <= g[s]
  <2> HIDE DEF g
  <2> QED  BY <1>1, GreatestExists
<1>3. \A t \in S : f[s] <= f[t]
  BY <1>2
<1>4. QED  BY <1>3

\* A set of numbers that is not empty has a least one.
LEMMA LeastNat ==
    ASSUME NEW S \in SUBSET Nat, S # {}
    PROVE  \E n \in S : \A m \in S : n <= m
<1>1. PICK n \in S : \A m \in S : ~(<<m, n>> \in OpToRel(<, Nat))
  BY NatLessThanWellFounded, WFMin
<1>2. ASSUME NEW m \in S PROVE n <= m
  <2>1. ~(m < n)
    BY <1>1 DEF OpToRel
  <2>2. QED  BY <2>1
<1>3. QED  BY <1>2

\* Positions of a list can be put in order, whichever they are: by the least
\* bound for which they could not.
LEMMA OrderExists ==
    ASSUME NEW n \in Nat, NEW S \in SUBSET (1 .. n)
    PROVE  \E s \in [1 .. Cardinality(S) -> S] :
              /\ \A i \in S : \E k \in DOMAIN s : s[k] = i
              /\ \A j, k \in DOMAIN s : j < k => s[j] < s[k]
<1> DEFINE Listable(T) == \E s \in [1 .. Cardinality(T) -> T] :
              /\ \A i \in T : \E k \in DOMAIN s : s[k] = i
              /\ \A j, k \in DOMAIN s : j < k => s[j] < s[k]
           Bad == {m \in Nat : \E T \in SUBSET (1 .. m) : ~Listable(T)}
<1>1. SUFFICES ASSUME Bad # {} PROVE FALSE
  OBVIOUS
<1>2. PICK m \in Bad : \A k \in Bad : m <= k
  <2> Bad \in SUBSET Nat
    OBVIOUS
  <2> HIDE DEF Bad
  <2> QED  BY <1>1, LeastNat
<1>3. PICK T \in SUBSET (1 .. m) : ~Listable(T)
  BY <1>2
<1>4. m \in Nat /\ IsFiniteSet(T) /\ Cardinality(T) \in Nat
  <2>1. m \in Nat
    BY <1>2
  <2>2. IsFiniteSet(1 .. m)
    BY <2>1, FS_Interval
  <2>3. QED  BY <2>1, <2>2, FS_Subset, FS_CardinalityType
<1> DEFINE Smaller == \A k \in Nat : k < m => \A U \in SUBSET (1 .. k) : Listable(U)
<1>9. Smaller
  <2> SUFFICES ASSUME NEW k \in Nat, k < m, NEW U \in SUBSET (1 .. k), ~Listable(U) PROVE FALSE
    OBVIOUS
  <2>1. k \in Bad
    OBVIOUS
  <2> HIDE DEF Bad
  <2>2. m <= k
    BY <1>2, <2>1
  <2>3. QED  BY <1>4, <2>2
<1> HIDE DEF Bad
<1>5. CASE T = {}
  <2>1. Cardinality(T) = 0
    BY <1>5, FS_EmptySet
  <2>2. [x \in 1 .. 0 |-> x] \in [1 .. Cardinality(T) -> T]
    BY <1>5, <2>1
  <2>3. Listable(T)
    BY <1>5, <2>1, <2>2
  <2>4. QED  BY <1>3, <2>3
<1>6. CASE T # {} /\ m \notin T
  <2>1. PICK x \in T : TRUE
    BY <1>6
  <2>2. m - 1 \in Nat /\ m - 1 < m
    BY <1>4, <2>1
  <2>3. \A y \in T : y \in 1 .. m - 1
    BY <1>4, <1>6
  <2>4. QED  BY <1>3, <1>9, <2>2, <2>3
<1>7. CASE m \in T
  <2> DEFINE U == T \ {m}
             c == Cardinality(U)
  <2>1. m - 1 \in Nat /\ m - 1 < m
    BY <1>4, <1>7
  <2>2. \A y \in U : y \in 1 .. m - 1
    BY <1>4
  <2>3. PICK s \in [1 .. c -> U] : /\ \A i \in U : \E k \in DOMAIN s : s[k] = i
                                   /\ \A j, k \in DOMAIN s : j < k => s[j] < s[k]
    BY <1>9, <2>1, <2>2
  <2>4. c \in Nat /\ Cardinality(T) = c + 1
    <3>1. c = Cardinality(T) - 1 /\ IsFiniteSet(U)
      BY <1>4, <1>7, FS_RemoveElement
    <3>2. c \in Nat
      BY <3>1, FS_CardinalityType
    <3>3. QED  BY <1>4, <3>1, <3>2
  <2> DEFINE t == [k \in 1 .. c + 1 |-> IF k = c + 1 THEN m ELSE s[k]]
  <2>5. \A k \in 1 .. c : s[k] \in U /\ s[k] < m /\ s[k] \in Nat /\ t[k] = s[k]
    <3> SUFFICES ASSUME NEW k \in 1 .. c
                 PROVE  s[k] \in U /\ s[k] < m /\ s[k] \in Nat /\ t[k] = s[k]
      OBVIOUS
    <3>1. s[k] \in U
      BY <2>3
    <3>2. s[k] \in 1 .. m - 1
      BY <2>2, <3>1
    <3>3. t[k] = s[k]
      BY <2>4
    <3>4. QED  BY <1>4, <3>1, <3>2, <3>3
  <2>6. t \in [1 .. c + 1 -> T] /\ t[c + 1] = m /\ DOMAIN t = 1 .. c + 1
    <3>1. \A k \in 1 .. c + 1 : k = c + 1 \/ k \in 1 .. c
      BY <2>4
    <3>2. \A k \in 1 .. c + 1 : t[k] \in T
      BY <1>7, <2>5, <3>1
    <3>3. c + 1 \in 1 .. c + 1
      BY <2>4
    <3>4. QED  BY <3>2, <3>3
  <2>7. \A i \in T : \E k \in DOMAIN t : t[k] = i
    <3> SUFFICES ASSUME NEW i \in T PROVE \E k \in DOMAIN t : t[k] = i
      OBVIOUS
    <3>1. CASE i = m
      BY <2>4, <2>6, <3>1
    <3>2. CASE i # m
      <4>1. PICK k \in 1 .. c : s[k] = i
        BY <2>3, <3>2
      <4>2. k \in DOMAIN t /\ t[k] = i
        BY <2>4, <2>5, <2>6, <4>1
      <4>3. QED  BY <4>2
    <3>3. QED  BY <3>1, <3>2
  <2>8. \A j, k \in DOMAIN t : j < k => t[j] < t[k]
    <3> SUFFICES ASSUME NEW j \in 1 .. c + 1, NEW k \in 1 .. c + 1, j < k PROVE t[j] < t[k]
      BY <2>6
    <3>1. j \in 1 .. c
      BY <2>4
    <3>2. CASE k = c + 1
      BY <2>5, <2>6, <3>1, <3>2
    <3>3. CASE k \in 1 .. c
      BY <2>3, <2>5, <3>1, <3>3
    <3>4. QED  BY <2>4, <3>2, <3>3
  <2> HIDE DEF t
  <2>9. Listable(T)
    BY <2>4, <2>6, <2>7, <2>8
  <2>10. QED  BY <1>3, <2>9
<1>8. QED  BY <1>4, <1>5, <1>6, <1>7

\* A list in order names its set, and nothing else.
LEMMA InOrderFacts ==
    ASSUME NEW n \in Nat, NEW S \in SUBSET (1 .. n)
    PROVE  /\ InOrder(S) \in Seq(S)
           /\ \A i \in S : \E k \in DOMAIN InOrder(S) : InOrder(S)[k] = i
<1>1. IsFiniteSet(1 .. n)
  BY FS_Interval
<1>2. Cardinality(S) \in Nat
  BY <1>1, FS_Subset, FS_CardinalityType
<1>3. /\ InOrder(S) \in [1 .. Cardinality(S) -> S]
      /\ \A i \in S : \E k \in DOMAIN InOrder(S) : InOrder(S)[k] = i
  BY OrderExists DEF InOrder
<1>4. QED  BY <1>2, <1>3
=============================================================================
