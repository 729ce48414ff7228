-------------------------- MODULE Playtest_proofs --------------------------
(***************************************************************************)
(* Theorems about the playtest: that every table the service stores can be *)
(* read back, and that what the windows and the service agree on survives  *)
(* a network that loses, delays and repeats requests.                      *)
(***************************************************************************)
EXTENDS PlaytestInvariant, FiniteOrders, SequenceTheorems

-----------------------------------------------------------------------------
(* Lists of objects *)

\* Filtering takes the named members out and leaves the others, each as often
\* as before.
LEMMA ExcludingFacts ==
    ASSUME NEW T, NEW s \in Seq(T), NEW X
    PROVE  /\ Excluding(s, X) \in Seq(T)
           /\ ToSet(Excluding(s, X)) = ToSet(s) \ X
           /\ IsInjective(s) => IsInjective(Excluding(s, X))
<1> DEFINE S == {i \in DOMAIN s : s[i] \notin X}
           kept == InOrder(S)
           t == [k \in DOMAIN kept |-> s[kept[k]]]
<1>1. Len(s) \in Nat /\ DOMAIN s = 1 .. Len(s) /\ \A i \in DOMAIN s : s[i] \in T
  OBVIOUS
<1>2. S \in SUBSET (1 .. Len(s))
  BY <1>1
<1>3. IsFiniteSet(S) /\ Cardinality(S) \in Nat
  <2>1. IsFiniteSet(1 .. Len(s))
    BY <1>1, FS_Interval
  <2>2. QED  BY <1>2, <2>1, FS_Subset, FS_CardinalityType
<1>4. /\ kept \in [1 .. Cardinality(S) -> S]
      /\ \A i \in S : \E k \in DOMAIN kept : kept[k] = i
      /\ \A j, k \in DOMAIN kept : j < k => kept[j] < kept[k]
  <2> HIDE DEF S
  <2> QED  BY <1>1, <1>2, OrderExists DEF InOrder
<1>5. Excluding(s, X) = t
  BY DEF Excluding
<1> DEFINE n == Cardinality(S)
<1> HIDE DEF kept, n
<1>6. DOMAIN kept = 1 .. n /\ \A k \in 1 .. n : kept[k] \in S
  BY <1>4 DEF n
<1>7. t \in Seq(T)
  <2>1. \A k \in 1 .. n : s[kept[k]] \in T
    BY <1>1, <1>6
  <2>2. t \in [1 .. n -> T]
    BY <1>6, <2>1
  <2>3. n \in Nat
    BY <1>3 DEF n
  <2>4. QED  BY <2>2, <2>3
<1>8. ToSet(t) = ToSet(s) \ X
  <2>1. ASSUME NEW x \in ToSet(t) PROVE x \in ToSet(s) \ X
    <3>1. PICK k \in DOMAIN t : t[k] = x
      BY DEF ToSet
    <3>2. kept[k] \in S /\ x = s[kept[k]]
      BY <1>6, <3>1
    <3>3. QED  BY <3>2 DEF ToSet
  <2>2. ASSUME NEW x \in ToSet(s) \ X PROVE x \in ToSet(t)
    <3>1. PICK i \in DOMAIN s : s[i] = x
      BY DEF ToSet
    <3>2. i \in S
      BY <3>1
    <3>3. PICK k \in DOMAIN kept : kept[k] = i
      BY <1>4, <3>2
    <3>4. t[k] = x /\ k \in DOMAIN t
      BY <3>1, <3>3
    <3>5. QED  BY <3>4 DEF ToSet
  <2>3. QED  BY <2>1, <2>2
<1>9. ASSUME IsInjective(s) PROVE IsInjective(t)
  <2> SUFFICES ASSUME NEW j \in DOMAIN t, NEW k \in DOMAIN t, t[j] = t[k] PROVE j = k
    BY DEF IsInjective
  <2>1. j \in 1 .. n /\ k \in 1 .. n /\ kept[j] \in S /\ kept[k] \in S /\ s[kept[j]] = s[kept[k]]
    BY <1>6
  <2>2. kept[j] = kept[k] /\ kept[j] \in Int
    BY <1>1, <1>9, <2>1 DEF IsInjective
  <2>3. ~(j < k) /\ ~(k < j)
    BY <1>4, <1>6, <2>1, <2>2
  <2>4. j \in Int /\ k \in Int
    BY <1>3, <2>1 DEF n
  <2>5. QED  BY <2>3, <2>4
<1> HIDE DEF t
<1>10. QED  BY <1>5, <1>7, <1>8, <1>9

\* Two lists without repetition and without a common member, one after the
\* other.
LEMMA JoinFacts ==
    ASSUME NEW T, NEW s \in Seq(T), NEW t \in Seq(T)
    PROVE  /\ s \o t \in Seq(T)
           /\ ToSet(s \o t) = ToSet(s) \cup ToSet(t)
           /\ IsInjective(s) /\ IsInjective(t) /\ ToSet(s) \cap ToSet(t) = {} => IsInjective(s \o t)
<1>1. /\ s \o t \in Seq(T) /\ Len(s \o t) = Len(s) + Len(t) /\ Len(s) \in Nat /\ Len(t) \in Nat
      /\ \A i \in 1 .. Len(s) + Len(t) :
            (s \o t)[i] = IF i <= Len(s) THEN s[i] ELSE t[i - Len(s)]
  BY ConcatProperties
<1>2. /\ DOMAIN s = 1 .. Len(s) /\ DOMAIN t = 1 .. Len(t)
      /\ DOMAIN (s \o t) = 1 .. Len(s) + Len(t)
  BY <1>1
<1> DEFINE u == s \o t
<1> HIDE DEF u
<1>3. ToSet(u) = ToSet(s) \cup ToSet(t)
  <2>1. ASSUME NEW x \in ToSet(u) PROVE x \in ToSet(s) \cup ToSet(t)
    <3>1. PICK i \in DOMAIN u : u[i] = x
      BY DEF ToSet
    <3>2. CASE i <= Len(s)
      <4>1. i \in DOMAIN s /\ s[i] = x
        BY <1>1, <1>2, <3>1, <3>2 DEF u
      <4>2. QED  BY <4>1 DEF ToSet
    <3>3. CASE ~(i <= Len(s))
      <4>1. i - Len(s) \in DOMAIN t /\ t[i - Len(s)] = x
        BY <1>1, <1>2, <3>1, <3>3 DEF u
      <4>2. QED  BY <4>1 DEF ToSet
    <3>4. QED  BY <3>2, <3>3
  <2>2. ASSUME NEW x \in ToSet(s) PROVE x \in ToSet(u)
    <3>1. PICK i \in DOMAIN s : s[i] = x
      BY DEF ToSet
    <3>2. i \in DOMAIN u /\ u[i] = x
      BY <1>1, <1>2, <3>1 DEF u
    <3>3. QED  BY <3>2 DEF ToSet
  <2>3. ASSUME NEW x \in ToSet(t) PROVE x \in ToSet(u)
    <3>1. PICK i \in DOMAIN t : t[i] = x
      BY DEF ToSet
    <3>2. i + Len(s) \in DOMAIN u /\ u[i + Len(s)] = x
      BY <1>1, <1>2, <3>1 DEF u
    <3>3. QED  BY <3>2 DEF ToSet
  <2>4. QED  BY <2>1, <2>2, <2>3
<1>4. ASSUME IsInjective(s), IsInjective(t), ToSet(s) \cap ToSet(t) = {} PROVE IsInjective(u)
  <2> SUFFICES ASSUME NEW i \in DOMAIN u, NEW j \in DOMAIN u, u[i] = u[j] PROVE i = j
    BY DEF IsInjective
  <2>1. i \in 1 .. Len(s) + Len(t) /\ j \in 1 .. Len(s) + Len(t)
    BY <1>2 DEF u
  <2> DEFINE Left(k) == k \in DOMAIN s /\ u[k] = s[k]
             Right(k) == k - Len(s) \in DOMAIN t /\ u[k] = t[k - Len(s)]
  <2>2. (Left(i) \/ Right(i)) /\ (Left(j) \/ Right(j))
    BY <1>1, <1>2, <2>1 DEF u
  <2>3. ~(Left(i) /\ Right(j)) /\ ~(Left(j) /\ Right(i))
    BY <1>4 DEF ToSet
  <2>4. CASE Left(i) /\ Left(j)
    BY <1>4, <2>4 DEF IsInjective
  <2>5. CASE Right(i) /\ Right(j)
    <3>1. i - Len(s) = j - Len(s)
      BY <1>4, <2>5 DEF IsInjective
    <3>2. QED  BY <1>1, <2>1, <3>1
  <2> HIDE DEF Left, Right
  <2>6. QED  BY <2>2, <2>3, <2>4, <2>5
<1>5. QED  BY <1>1, <1>3, <1>4 DEF u

\* The first n of a list.
LEMMA PrefixFacts ==
    ASSUME NEW T, NEW s \in Seq(T), NEW n \in 0 .. Len(s)
    PROVE  /\ SubSeq(s, 1, n) \in Seq(T)
           /\ ToSet(SubSeq(s, 1, n)) \subseteq ToSet(s)
           /\ IsInjective(s) => IsInjective(SubSeq(s, 1, n))
<1> DEFINE p == SubSeq(s, 1, n)
<1>1. Len(s) \in Nat /\ n \in Nat /\ n <= Len(s) /\ DOMAIN s = 1 .. Len(s)
  OBVIOUS
<1>2. p = [i \in 1 .. n |-> s[i]]
  <2>1. Len(p) = n /\ p \in Seq(T) /\ \A i \in 1 .. n : p[i] = s[i]
    BY <1>1, SubSeqProperties
  <2>2. QED  BY <1>1, <2>1
<1>3. DOMAIN p = 1 .. n /\ \A i \in 1 .. n : p[i] = s[i] /\ i \in DOMAIN s /\ s[i] \in T
  BY <1>1, <1>2
<1>4. p \in Seq(T)
  BY <1>1, <1>2, <1>3
<1> HIDE DEF p
<1>5. ToSet(p) \subseteq ToSet(s)
  BY <1>3 DEF ToSet
<1>6. IsInjective(s) => IsInjective(p)
  BY <1>3 DEF IsInjective
<1>7. QED  BY <1>4, <1>5, <1>6 DEF p

\* The listings of a set, each member once.
LEMMA ListingFacts ==
    ASSUME NEW S, IsFiniteSet(S), NEW s \in SetToSeqs(S)
    PROVE  s \in Seq(S) /\ ToSet(s) \subseteq S /\ IsInjective(s)
<1>1. Cardinality(S) \in Nat
  BY FS_CardinalityType
<1>2. /\ s \in [1 .. Cardinality(S) -> S]
      /\ \A i, j \in 1 .. Cardinality(S) : i # j => s[i] # s[j]
  BY DEF SetToSeqs
<1>3. s \in Seq(S)
  BY <1>1, <1>2
<1>4. ToSet(s) \subseteq S /\ IsInjective(s)
  BY <1>2 DEF ToSet, IsInjective
<1>5. QED  BY <1>3, <1>4

\* What a list holds is finite.
LEMMA ListIsFinite ==
    ASSUME NEW T, NEW s \in Seq(T)
    PROVE  IsFiniteSet(ToSet(s))
<1>1. Len(s) \in Nat /\ DOMAIN s = 1 .. Len(s) /\ IsFiniteSet(1 .. Len(s))
  BY FS_Interval
<1>2. s \in [1 .. Len(s) -> T]
  OBVIOUS
<1>3. s \in Surjection(1 .. Len(s), ToSet(s))
  BY <1>1, <1>2 DEF Surjection, ToSet
<1>4. QED  BY <1>1, <1>3, FS_Surjection

-----------------------------------------------------------------------------
(* The table *)

\* What a request of each type carries.
LEMMA ActionFacts ==
    ASSUME NEW a \in Action
    PROVE  /\ a.type = "mode" => a.mode \in Mode
           /\ a.type \in {"bottom", "remove", "move", "tap"} => a.ids \in Ids
           /\ a.type = "draw" => a.count \in Nat
           /\ a.type = "life" => a.value \in Life
           /\ a.type = "move" => a.zone \in Zone /\ a.top \in BOOLEAN
           /\ a.type = "attach" => a.id \in Object /\ a.host \in Object \cup {None}
BY DEF Action

LEMMA FrameFacts ==
    ASSUME NEW f \in Frame
    PROVE  /\ f.zones \in [Zone -> Seq(Object)] /\ f.tapped \in SUBSET Object
           /\ f.attached \in [Object -> Object \cup {None}] /\ f.life \in Life
           /\ f.opening \in Opening /\ f.opening.stage \in {"choosing", "playing"}
           /\ f.opening.mode \in Mode /\ f.opening.mulligans \in Nat
           /\ f.opening.bottom \in Seq(Object)
           /\ \A z \in Zone : f.zones[z] \in Seq(Object) /\ On(f, z) \subseteq Object
           /\ {"library", "hand", "battlefield", "exile"} \subseteq Zone
<1>1. /\ f.zones \in [Zone -> Seq(Object)] /\ f.tapped \in SUBSET Object
      /\ f.attached \in [Object -> Object \cup {None}] /\ f.life \in Life /\ f.opening \in Opening
  BY DEF Frame
<1>2. /\ f.opening.stage \in {"choosing", "playing"} /\ f.opening.mode \in Mode
      /\ f.opening.mulligans \in Nat /\ f.opening.bottom \in Seq(Object)
  BY <1>1 DEF Opening
<1>3. ASSUME NEW z \in Zone PROVE f.zones[z] \in Seq(Object) /\ On(f, z) \subseteq Object
  <2>1. f.zones[z] \in Seq(Object)
    BY <1>1
  <2>2. QED  BY <2>1 DEF On, ToSet
<1>4. QED  BY <1>1, <1>2, <1>3, ZonesAssumption

Moved(f, ids, zone, g) == \E top \in BOOLEAN : g = MoveTo(f, ids, zone, top)

\* A move puts the named objects into one zone and takes them out of the
\* others; what leaves the battlefield is attached to nothing and holds nothing.
LEMMA MoveFacts ==
    ASSUME NEW f, Laid(f), NEW ids \in Ids, NEW zone \in Zone,
           NEW g, Moved(f, ids, zone, g)
    PROVE  /\ Laid(g)
           /\ On(g, zone) = On(f, zone) \cup ToSet(ids)
           /\ \A z \in Zone : z # zone => On(g, z) = On(f, z) \ ToSet(ids)
           /\ g.opening = f.opening /\ g.tapped = f.tapped /\ g.life = f.life
<1> PICK top \in BOOLEAN : g = MoveTo(f, ids, zone, top)
  BY DEF Moved
<1> DEFINE moved == ToSet(ids)
           leaving == IF zone = "battlefield" THEN {} ELSE moved \cap On(f, "battlefield")
           rest(z) == Excluding(f.zones[z], moved)
           placed == IF top THEN ids \o rest(zone) ELSE rest(zone) \o ids
           zs == [z \in Zone |-> IF z = zone THEN placed ELSE rest(z)]
           at == [x \in Object |-> IF {x, f.attached[x]} \cap leaving # {} THEN None
                                   ELSE f.attached[x]]
<1>1. /\ f \in Frame /\ f.zones \in [Zone -> Seq(Object)]
      /\ f.attached \in [Object -> Object \cup {None}]
      /\ \A z \in Zone : f.zones[z] \in Seq(Object)
      /\ "battlefield" \in Zone /\ ids \in Seq(Object) /\ IsInjective(ids)
  BY FrameFacts DEF Laid, Ids
<1>2. g = [f EXCEPT !.zones = zs, !.attached = at]
  <2>1. at = [x \in Object |-> IF {x, f.attached[x]} \cap leaving # {} THEN None ELSE f.attached[x]]
    OBVIOUS
  <2>2. QED  BY DEF MoveTo
<1>3. \A z \in Zone : /\ rest(z) \in Seq(Object) /\ ToSet(rest(z)) = On(f, z) \ moved
                      /\ IsInjective(rest(z))
  BY <1>1, ExcludingFacts DEF Laid, On
<1> HIDE DEF rest, moved
<1>4. placed \in Seq(Object) /\ ToSet(placed) = On(f, zone) \cup moved /\ IsInjective(placed)
  <2>1. ids \in Seq(Object) /\ ToSet(ids) = moved
    BY <1>1 DEF moved
  <2>2. rest(zone) \in Seq(Object) /\ ToSet(rest(zone)) = On(f, zone) \ moved /\ IsInjective(rest(zone))
    BY <1>3
  <2>3. /\ ids \o rest(zone) \in Seq(Object) /\ rest(zone) \o ids \in Seq(Object)
        /\ ToSet(ids \o rest(zone)) = moved \cup (On(f, zone) \ moved)
        /\ ToSet(rest(zone) \o ids) = (On(f, zone) \ moved) \cup moved
        /\ IsInjective(ids \o rest(zone)) /\ IsInjective(rest(zone) \o ids)
    BY <1>1, <2>1, <2>2, JoinFacts
  <2>4. QED  BY <2>3
<1> HIDE DEF placed
<1>5. zs \in [Zone -> Seq(Object)] /\ zs[zone] = placed /\ \A z \in Zone : z # zone => zs[z] = rest(z)
  BY <1>3, <1>4
<1>6. at \in [Object -> Object \cup {None}]
  BY <1>1
<1>7. \A x \in Object : /\ at[x] # None => at[x] = f.attached[x]
                        /\ at[x] # None => x \notin leaving /\ at[x] \notin leaving
  OBVIOUS
<1> HIDE DEF zs, at, leaving
<1>8. /\ g \in Frame /\ g.zones = zs /\ g.attached = at
      /\ g.opening = f.opening /\ g.tapped = f.tapped /\ g.life = f.life
  BY <1>1, <1>2, <1>5, <1>6 DEF Frame
<1>9. /\ On(g, zone) = On(f, zone) \cup moved
      /\ \A z \in Zone : z # zone => On(g, z) = On(f, z) \ moved
  BY <1>3, <1>4, <1>5, <1>8 DEF On
<1>10. \A z1, z2 \in Zone : z1 # z2 => On(g, z1) \cap On(g, z2) = {}
  <2>1. \A z1, z2 \in Zone : z1 # z2 => On(f, z1) \cap On(f, z2) = {}
    BY DEF Laid
  <2>2. QED  BY <1>9, <2>1
<1>11. \A z \in Zone : IsInjective(g.zones[z])
  <2> SUFFICES ASSUME NEW z \in Zone PROVE IsInjective(g.zones[z])
    OBVIOUS
  <2>1. CASE z = zone
    BY <1>4, <1>5, <1>8, <2>1
  <2>2. CASE z # zone
    BY <1>3, <1>5, <1>8, <2>2
  <2>3. QED  BY <2>1, <2>2
<1>12. ASSUME NEW x \in Object, g.attached[x] # None
       PROVE  {x, g.attached[x]} \subseteq On(g, "battlefield")
  <2>1. /\ g.attached[x] = f.attached[x] /\ f.attached[x] # None
        /\ x \notin leaving /\ f.attached[x] \notin leaving
    BY <1>7, <1>8, <1>12
  <2>2. {x, f.attached[x]} \subseteq On(f, "battlefield")
    BY <2>1 DEF Laid
  <2>3. CASE zone = "battlefield"
    BY <1>9, <2>1, <2>2, <2>3
  <2>4. CASE zone # "battlefield"
    <3>1. leaving = moved \cap On(f, "battlefield")
      BY <2>4 DEF leaving, moved
    <3>2. On(g, "battlefield") = On(f, "battlefield") \ moved
      BY <1>1, <1>9, <2>4
    <3>3. QED  BY <2>1, <2>2, <3>1, <3>2
  <2>5. QED  BY <2>3, <2>4
<1>13. Laid(g)
  BY <1>8, <1>10, <1>11, <1>12 DEF Laid
<1>14. QED  BY <1>8, <1>9, <1>13 DEF moved

\* Drawing takes the top of the library into the hand.
LEMMA DrawFacts ==
    ASSUME NEW f, Laid(f), NEW n \in Nat
    PROVE  /\ Laid(Draw(f, n)) /\ Draw(f, n).opening = f.opening
           /\ On(f, "hand") \subseteq On(Draw(f, n), "hand")
<1> DEFINE library == f.zones["library"]
           m == IF n < Len(library) THEN n ELSE Len(library)
           ids == SubSeq(library, 1, m)
<1>1. library \in Seq(Object) /\ IsInjective(library) /\ "hand" \in Zone
  BY FrameFacts DEF Laid
<1>2. m \in 0 .. Len(library)
  BY <1>1
<1>3. ids \in Ids
  <2> HIDE DEF m, library
  <2> QED  BY <1>1, <1>2, PrefixFacts DEF Ids
<1>4. Draw(f, n) = MoveTo(f, ids, "hand", FALSE)
  BY DEF Draw
<1> HIDE DEF ids
<1> DEFINE g == MoveTo(f, ids, "hand", FALSE)
<1>5. Moved(f, ids, "hand", g)
  BY Zenon DEF Moved
<1> HIDE DEF g
<1>6. Laid(g) /\ g.opening = f.opening /\ On(g, "hand") = On(f, "hand") \cup ToSet(ids)
  BY <1>1, <1>3, <1>5, MoveFacts
<1>7. QED  BY <1>4, <1>6 DEF g

\* Shuffling changes the order of the library and nothing else.
LEMMA ShuffleFacts ==
    ASSUME NEW f, Laid(f), NEW g \in Shufflings(f)
    PROVE  /\ Laid(g) /\ g.opening = f.opening /\ On(g, "hand") = On(f, "hand")
<1>1. /\ f \in Frame /\ f.zones \in [Zone -> Seq(Object)]
      /\ \A z \in Zone : f.zones[z] \in Seq(Object) /\ On(f, z) \subseteq Object
      /\ {"library", "hand", "battlefield"} \subseteq Zone
  BY FrameFacts DEF Laid
<1>2. IsFiniteSet(On(f, "library"))
  BY <1>1, ListIsFinite DEF On
<1>3. PICK s \in SetToSeqs(On(f, "library")) : g = [f EXCEPT !.zones["library"] = s]
  BY DEF Shufflings
<1>4. s \in Seq(On(f, "library")) /\ ToSet(s) \subseteq On(f, "library") /\ IsInjective(s)
  BY <1>2, <1>3, ListingFacts
<1>5. s \in Seq(Object)
  BY <1>1, <1>4
<1> DEFINE zs == [f.zones EXCEPT !["library"] = s]
<1>6. /\ zs \in [Zone -> Seq(Object)] /\ zs["library"] = s
      /\ \A z \in Zone : z # "library" => zs[z] = f.zones[z]
  BY <1>1, <1>5
<1>7. g = [f EXCEPT !.zones = zs]
  BY <1>3
<1> HIDE DEF zs
<1>8. g \in Frame /\ g.zones = zs /\ g.attached = f.attached /\ g.opening = f.opening
  BY <1>1, <1>6, <1>7 DEF Frame
<1>9. /\ \A z \in Zone : On(g, z) \subseteq On(f, z)
      /\ \A z \in Zone : z # "library" => On(g, z) = On(f, z)
  BY <1>4, <1>6, <1>8 DEF On
<1>10. \A z \in Zone : IsInjective(g.zones[z])
  BY <1>4, <1>6, <1>8 DEF Laid
<1>11. On(g, "battlefield") = On(f, "battlefield") /\ On(g, "hand") = On(f, "hand")
  BY <1>1, <1>9
<1>12. Laid(g)
  BY <1>8, <1>9, <1>10, <1>11 DEF Laid
<1>13. QED  BY <1>8, <1>11, <1>12

\* Moves, shuffles and draws leave a frame laid right; it stays one as long as
\* no cards are chosen for the bottom.
LEMMA RedealtFacts ==
    ASSUME NEW f, Laid(f), NEW mode \in Mode, NEW n \in Nat, NEW g \in Redealt(f, mode, n)
    PROVE  FrameOK(g)
<1> DEFINE opening == [f.opening EXCEPT !.mode = mode, !.mulligans = n, !.bottom = <<>>]
           opened == [f EXCEPT !.opening = opening]
           hand == f.zones["hand"]
           back == MoveTo(opened, hand, "library", FALSE)
<1>1. /\ f \in Frame /\ f.opening \in Opening /\ {"library", "hand"} \subseteq Zone
      /\ f.zones["hand"] \in Seq(Object)
  BY FrameFacts DEF Laid
<1>2. opening \in Opening /\ opening.bottom = <<>>
  <2>1. <<>> \in Seq(Object)
    OBVIOUS
  <2>2. QED  BY <1>1, <2>1 DEF Opening
<1> HIDE DEF opening
<1>3. /\ opened \in Frame /\ opened.zones = f.zones /\ opened.attached = f.attached
      /\ opened.opening = opening
  BY <1>1, <1>2 DEF Frame
<1>4. Laid(opened)
  BY <1>3 DEF Laid, On
<1>5. hand \in Ids
  BY <1>1 DEF Ids, Laid
<1>6. PICK s \in Shufflings(back) : g = Draw(s, OpeningHand)
  BY DEF Redealt, opening
<1> HIDE DEF opened, hand
<1>7. Moved(opened, hand, "library", back)
  BY Zenon DEF Moved
<1> HIDE DEF back
<1>13. Laid(back) /\ back.opening = opening
  BY <1>1, <1>3, <1>4, <1>5, <1>7, MoveFacts
<1>8. Laid(s) /\ s.opening = opening
  BY <1>6, <1>13, ShuffleFacts
<1>9. OpeningHand \in Nat
  BY TableAssumption
<1>10. Laid(g) /\ g.opening = opening
  BY <1>6, <1>8, <1>9, DrawFacts
<1>11. IsInjective(<<>>) /\ ToSet(<<>>) = {}
  BY DEF IsInjective, ToSet
<1>12. QED  BY <1>2, <1>10, <1>11 DEF FrameOK

\* What the opening hand allows keeps a frame right, the choice of cards for
\* the bottom included.
LEMMA ChoosingFacts ==
    ASSUME NEW f, FrameOK(f), f.opening.stage = "choosing", NEW a \in Action, NEW g \in Choosing(f, a)
    PROVE  FrameOK(g)
<1>1. /\ f \in Frame /\ Laid(f) /\ f.opening \in Opening /\ {"library", "hand"} \subseteq Zone
      /\ f.opening.mode \in Mode /\ f.opening.mulligans \in Nat /\ f.opening.bottom \in Seq(Object)
      /\ IsInjective(f.opening.bottom) /\ ToSet(f.opening.bottom) \subseteq On(f, "hand")
  BY FrameFacts DEF Laid, FrameOK
<1>2. CASE a.type = "mode"
  <2>1. g \in Redealt(f, a.mode, 0) /\ a.mode \in Mode
    BY <1>2, ActionFacts DEF Choosing
  <2>2. QED  BY <1>1, <2>1, RedealtFacts
<1>3. CASE a.type = "mulligan"
  <2>1. g \in Redealt(f, f.opening.mode, f.opening.mulligans + 1)
    BY <1>3 DEF Choosing
  <2>2. f.opening.mulligans + 1 \in Nat
    BY <1>1
  <2>3. QED  BY <1>1, <2>1, <2>2, RedealtFacts
<1>4. CASE a.type = "bottom"
  <2>1. /\ ToSet(a.ids) \subseteq On(f, "hand") /\ g = [f EXCEPT !.opening.bottom = a.ids]
        /\ a.ids \in Seq(Object) /\ IsInjective(a.ids)
    BY <1>4, ActionFacts DEF Choosing, Ids
  <2> DEFINE opening == [f.opening EXCEPT !.bottom = a.ids]
  <2>2. opening \in Opening /\ opening.bottom = a.ids
    BY <1>1, <2>1 DEF Opening
  <2>3. g = [f EXCEPT !.opening = opening]
    BY <2>1
  <2> HIDE DEF opening
  <2>4. g \in Frame /\ g.zones = f.zones /\ g.attached = f.attached /\ g.opening = opening
    BY <1>1, <2>2, <2>3 DEF Frame
  <2>5. Laid(g) /\ On(g, "hand") = On(f, "hand")
    BY <1>1, <2>4 DEF Laid, On
  <2>6. QED  BY <2>1, <2>2, <2>4, <2>5 DEF FrameOK
<1>5. CASE a.type = "keep"
  <2> DEFINE m == MoveTo(f, f.opening.bottom, "library", FALSE)
             opening == [m.opening EXCEPT !.bottom = <<>>, !.stage = "playing"]
  <2>1. g = [m EXCEPT !.opening.bottom = <<>>, !.opening.stage = "playing"]
    BY <1>5 DEF Choosing
  <2>9. Moved(f, f.opening.bottom, "library", m) /\ f.opening.bottom \in Ids
    BY <1>1, Zenon DEF Moved, Ids
  <2> HIDE DEF m
  <2>2. Laid(m) /\ m.opening = f.opening
    BY <1>1, <2>9, MoveFacts
  <2>3. opening \in Opening /\ opening.stage = "playing"
    <3>1. <<>> \in Seq(Object)
      OBVIOUS
    <3>2. QED  BY <1>1, <2>2, <3>1 DEF Opening
  <2>4. g = [m EXCEPT !.opening = opening]
    BY <2>1
  <2> HIDE DEF opening
  <2>5. m \in Frame
    BY <2>2 DEF Laid
  <2>6. g \in Frame /\ g.zones = m.zones /\ g.attached = m.attached /\ g.opening = opening
    BY <2>3, <2>4, <2>5 DEF Frame
  <2>7. Laid(g)
    BY <2>2, <2>6 DEF Laid, On
  <2>8. QED  BY <2>3, <2>6, <2>7 DEF FrameOK
<1>6. CASE a.type = "move"
  <2>1. /\ g = MoveTo(f, a.ids, "hand", a.top) /\ ToSet(a.ids) \subseteq On(f, "hand")
        /\ a.ids \in Ids
    BY <1>6, ActionFacts DEF Choosing
  <2>4. Moved(f, a.ids, "hand", g)
    BY <1>6, <2>1, ActionFacts DEF Moved
  <2>2. /\ Laid(g) /\ g.opening = f.opening /\ On(g, "hand") = On(f, "hand") \cup ToSet(a.ids)
    BY <1>1, <2>1, <2>4, MoveFacts
  <2>3. QED  BY <1>1, <2>1, <2>2 DEF FrameOK
<1>7. QED  BY <1>2, <1>3, <1>4, <1>5, <1>6 DEF Choosing

\* Everything a player can do at the table keeps a frame right, if a token is
\* given an id that is not in the game.
LEMMA PlayingFacts ==
    ASSUME NEW f, FrameOK(f), f.opening.stage = "playing", NEW a \in Action,
           NEW seen, InGame(f) \subseteq seen, NEW g \in Playing(f, a, seen)
    PROVE  FrameOK(g)
<1>1. /\ f \in Frame /\ Laid(f) /\ {"library", "hand", "battlefield", "exile"} \subseteq Zone
      /\ f.zones \in [Zone -> Seq(Object)] /\ f.tapped \in SUBSET Object
      /\ f.attached \in [Object -> Object \cup {None}]
      /\ \A z \in Zone : f.zones[z] \in Seq(Object) /\ On(f, z) \subseteq Object
  BY FrameFacts DEF Laid, FrameOK
<1> SUFFICES Laid(g) /\ g.opening = f.opening
  BY DEF FrameOK
<1>2. CASE a.type = "draw"
  BY <1>1, <1>2, ActionFacts, DrawFacts DEF Playing
<1>3. CASE a.type = "shuffle"
  BY <1>1, <1>3, ShuffleFacts DEF Playing
<1>4. CASE a.type \in {"untap", "life", "tap"}
  <2>1. /\ g \in Frame /\ g.zones = f.zones /\ g.attached = f.attached /\ g.opening = f.opening
    <3>1. CASE a.type = "untap"
      <4>1. g = [f EXCEPT !.tapped = f.tapped \ On(f, "battlefield")]
        BY <3>1 DEF Playing
      <4>2. QED  BY <1>1, <4>1 DEF Frame
    <3>2. CASE a.type = "life"
      <4>1. g = [f EXCEPT !.life = a.value] /\ a.value \in Life
        BY <3>2, ActionFacts DEF Playing
      <4>2. QED  BY <1>1, <4>1 DEF Frame
    <3>3. CASE a.type = "tap"
      <4> DEFINE tapped == IF a.tapped THEN f.tapped \cup ToSet(a.ids) ELSE f.tapped \ ToSet(a.ids)
      <4>1. /\ g = [f EXCEPT !.tapped = tapped] /\ ToSet(a.ids) \subseteq On(f, "battlefield")
        BY <3>3 DEF Playing
      <4>2. tapped \in SUBSET Object
        BY <1>1, <4>1
      <4> HIDE DEF tapped
      <4>3. QED  BY <1>1, <4>1, <4>2 DEF Frame
    <3>4. QED  BY <1>4, <3>1, <3>2, <3>3
  <2>2. \A z \in Zone : On(g, z) = On(f, z)
    BY <2>1 DEF On
  <2>3. QED  BY <1>1, <2>1, <2>2 DEF Laid
<1>5. CASE a.type = "move"
  <2>1. g = MoveTo(f, a.ids, a.zone, a.top) /\ a.ids \in Ids /\ a.zone \in Zone
    BY <1>5, ActionFacts DEF Playing
  <2>2. Moved(f, a.ids, a.zone, g)
    BY <1>5, <2>1, ActionFacts DEF Moved
  <2>3. QED  BY <1>1, <2>1, <2>2, MoveFacts
<1>6. CASE a.type = "attach"
  <2>1. /\ {a.id, a.host} \ {None} \subseteq On(f, "battlefield")
        /\ g = [f EXCEPT !.attached[a.id] = a.host]
        /\ a.id \in Object /\ a.host \in Object \cup {None}
    BY <1>6, ActionFacts DEF Playing
  <2> DEFINE at == [f.attached EXCEPT ![a.id] = a.host]
  <2>2. /\ at \in [Object -> Object \cup {None}] /\ at[a.id] = a.host
        /\ \A x \in Object : x # a.id => at[x] = f.attached[x]
    BY <1>1, <2>1
  <2>3. g = [f EXCEPT !.attached = at]
    BY <2>1
  <2> HIDE DEF at
  <2>4. g \in Frame /\ g.zones = f.zones /\ g.attached = at /\ g.opening = f.opening
    BY <1>1, <2>2, <2>3 DEF Frame
  <2>5. ASSUME NEW x \in Object, g.attached[x] # None
        PROVE  {x, g.attached[x]} \subseteq On(g, "battlefield")
    <3>1. CASE x = a.id
      <4>1. g.attached[x] = a.host /\ a.host # None /\ a.id # None
        BY <2>1, <2>2, <2>4, <2>5, <3>1, NoneAssumption
      <4>2. On(g, "battlefield") = On(f, "battlefield")
        BY <2>4 DEF On
      <4>3. QED  BY <2>1, <3>1, <4>1, <4>2
    <3>2. CASE x # a.id
      <4>1. g.attached[x] = f.attached[x] /\ On(g, "battlefield") = On(f, "battlefield")
        BY <2>2, <2>4, <3>2 DEF On
      <4>2. QED  BY <1>1, <2>5, <4>1 DEF Laid
    <3>3. QED  BY <3>1, <3>2
  <2>6. QED  BY <1>1, <2>4, <2>5 DEF Laid, On
<1>7. CASE a.type = "token"
  <2>1. PICK t \in Token \ seen :
           g = [f EXCEPT !.zones["battlefield"] = Append(@, t),
                         !.tapped = IF a.copy \in @ THEN @ \cup {t} ELSE @]
    BY <1>7 DEF Playing
  <2> DEFINE zs == [f.zones EXCEPT !["battlefield"] = Append(f.zones["battlefield"], t)]
             tapped == IF a.copy \in f.tapped THEN f.tapped \cup {t} ELSE f.tapped
             bf == f.zones["battlefield"]
  <2>2. t \in Object /\ \A z \in Zone : t \notin On(f, z)
    BY <2>1 DEF Object, InGame
  <2>3. bf \in Seq(Object) /\ IsInjective(bf)
    BY <1>1 DEF Laid
  <2>4. /\ Append(bf, t) \in Seq(Object) /\ ToSet(Append(bf, t)) = ToSet(bf) \cup {t}
        /\ IsInjective(Append(bf, t))
    <3>1. <<t>> \in Seq(Object) /\ ToSet(<<t>>) = {t} /\ IsInjective(<<t>>)
      BY <2>2 DEF ToSet, IsInjective
    <3>3. ToSet(bf) \cap {t} = {}
      BY <1>1, <2>2 DEF On
    <3> HIDE DEF bf
    <3>2. Append(bf, t) = bf \o <<t>>
      BY <2>2, <2>3, AppendIsConcat
    <3> DEFINE one == <<t>>
    <3>4. one \in Seq(Object) /\ ToSet(one) = {t} /\ IsInjective(one) /\ Append(bf, t) = bf \o one
      BY <3>1, <3>2
    <3> HIDE DEF one
    <3>5. /\ bf \o one \in Seq(Object) /\ ToSet(bf \o one) = ToSet(bf) \cup ToSet(one)
          /\ ToSet(bf) \cap ToSet(one) = {} => IsInjective(bf \o one)
      BY <2>3, <3>4, JoinFacts
    <3>6. QED  BY <3>3, <3>4, <3>5
  <2>5. /\ zs \in [Zone -> Seq(Object)] /\ zs["battlefield"] = Append(bf, t)
        /\ \A z \in Zone : z # "battlefield" => zs[z] = f.zones[z]
    BY <1>1, <2>4
  <2>6. tapped \in SUBSET Object
    BY <1>1, <2>2
  <2>7. g = [f EXCEPT !.zones = zs, !.tapped = tapped]
    BY <2>1
  <2> HIDE DEF zs, tapped
  <2>8. g \in Frame /\ g.zones = zs /\ g.attached = f.attached /\ g.opening = f.opening
    BY <1>1, <2>5, <2>6, <2>7 DEF Frame
  <2>9. /\ On(g, "battlefield") = On(f, "battlefield") \cup {t}
        /\ \A z \in Zone : z # "battlefield" => On(g, z) = On(f, z)
    BY <2>4, <2>5, <2>8 DEF On
  <2>10. \A z \in Zone : IsInjective(g.zones[z])
    <3> SUFFICES ASSUME NEW z \in Zone PROVE IsInjective(g.zones[z])
      OBVIOUS
    <3>1. CASE z = "battlefield"
      BY <2>4, <2>5, <2>8, <3>1
    <3>2. CASE z # "battlefield"
      BY <1>1, <2>5, <2>8, <3>2 DEF Laid
    <3>3. QED  BY <3>1, <3>2
  <2>11. \A z1, z2 \in Zone : z1 # z2 => On(g, z1) \cap On(g, z2) = {}
    <3>1. \A z1, z2 \in Zone : z1 # z2 => On(f, z1) \cap On(f, z2) = {}
      BY <1>1 DEF Laid
    <3>2. QED  BY <2>2, <2>9, <3>1
  <2>12. \A x \in Object : g.attached[x] # None => {x, g.attached[x]} \subseteq On(g, "battlefield")
    BY <1>1, <2>8, <2>9 DEF Laid
  <2>13. QED  BY <2>8, <2>10, <2>11, <2>12 DEF Laid
<1>8. CASE a.type = "remove"
  <2> DEFINE out == MoveTo(f, a.ids, "exile", FALSE)
             gone == Excluding(out.zones["exile"], ToSet(a.ids))
             zs == [out.zones EXCEPT !["exile"] = gone]
             tapped == out.tapped \ ToSet(a.ids)
  <2>1. /\ g = [out EXCEPT !.zones["exile"] = Excluding(@, ToSet(a.ids)), !.tapped = @ \ ToSet(a.ids)]
        /\ a.ids \in Ids
    BY <1>8, ActionFacts DEF Playing
  <2>11. Moved(f, a.ids, "exile", out)
    BY Zenon DEF Moved
  <2> HIDE DEF out
  <2>2. /\ Laid(out) /\ out.opening = f.opening
        /\ On(out, "battlefield") = On(f, "battlefield") \ ToSet(a.ids)
    BY <1>1, <2>1, <2>11, MoveFacts
  <2>3. /\ out \in Frame /\ out.zones \in [Zone -> Seq(Object)] /\ out.tapped \in SUBSET Object
        /\ out.zones["exile"] \in Seq(Object) /\ IsInjective(out.zones["exile"])
    BY <1>1, <2>2, FrameFacts DEF Laid
  <2>4. /\ gone \in Seq(Object) /\ ToSet(gone) \subseteq On(out, "exile") /\ IsInjective(gone)
    BY <2>3, ExcludingFacts DEF On
  <2> HIDE DEF gone
  <2>5. /\ zs \in [Zone -> Seq(Object)] /\ zs["exile"] = gone
        /\ \A z \in Zone : z # "exile" => zs[z] = out.zones[z]
    BY <1>1, <2>3, <2>4
  <2>6. g = [out EXCEPT !.zones = zs, !.tapped = tapped] /\ tapped \in SUBSET Object
    BY <2>1, <2>3 DEF gone
  <2> HIDE DEF zs, tapped
  <2>7. g \in Frame /\ g.zones = zs /\ g.attached = out.attached /\ g.opening = out.opening
    BY <2>3, <2>5, <2>6 DEF Frame
  <2>8. /\ \A z \in Zone : On(g, z) \subseteq On(out, z)
        /\ On(g, "battlefield") = On(out, "battlefield")
    BY <1>1, <2>4, <2>5, <2>7 DEF On
  <2>9. \A z \in Zone : IsInjective(g.zones[z])
    <3> SUFFICES ASSUME NEW z \in Zone PROVE IsInjective(g.zones[z])
      OBVIOUS
    <3>1. CASE z = "exile"
      BY <2>4, <2>5, <2>7, <3>1
    <3>2. CASE z # "exile"
      BY <2>2, <2>5, <2>7, <3>2 DEF Laid
    <3>3. QED  BY <3>1, <3>2
  <2>10. QED  BY <2>2, <2>7, <2>8, <2>9 DEF Laid
<1>9. QED  BY <1>2, <1>3, <1>4, <1>5, <1>6, <1>7, <1>8 DEF Playing

\* Every action of the table makes frames that lie right: nothing is in two places, attachments stay
\* on the battlefield, and the cards chosen for the bottom are in the hand.
LEMMA OutcomeFacts ==
    ASSUME NEW f, FrameOK(f), NEW a \in Action, NEW seen, InGame(f) \subseteq seen,
           NEW g \in Outcomes(f, a, seen)
    PROVE  FrameOK(g)
<1>1. f.opening.stage \in {"choosing", "playing"}
  BY FrameFacts DEF FrameOK, Laid
<1>2. QED  BY <1>1, ChoosingFacts, PlayingFacts DEF Outcomes

\* A deal is right: the deck in the library, and the opening hand drawn.
LEMMA DealFacts ==
    ASSUME NEW mode \in Mode, NEW g \in Deals(mode)
    PROVE  FrameOK(g)
<1> DEFINE empty == [z \in Zone |-> <<>>]
           opening == [stage |-> "choosing", mode |-> mode, mulligans |-> 0, bottom |-> <<>>]
           deck(s) == [zones |-> [empty EXCEPT !["library"] = s], tapped |-> {},
                       attached |-> [x \in Object |-> None], life |-> CHOOSE l \in Life : TRUE,
                       opening |-> opening]
<1>1. PICK s \in SetToSeqs(Card) : g = Draw(deck(s), OpeningHand)
  BY DEF Deals
<1>2. s \in Seq(Object) /\ IsInjective(s) /\ OpeningHand \in Nat
  BY ListingFacts, TableAssumption DEF Object
<1> DEFINE f == deck(s)
           zs == [empty EXCEPT !["library"] = s]
<1>3. /\ zs \in [Zone -> Seq(Object)] /\ "library" \in Zone /\ zs["library"] = s
      /\ \A z \in Zone : z # "library" => zs[z] = <<>>
  <2>1. empty \in [Zone -> Seq(Object)] /\ "library" \in Zone /\ \A z \in Zone : empty[z] = <<>>
    BY ZonesAssumption
  <2> HIDE DEF empty
  <2>2. QED  BY <1>2, <2>1
<1>4. opening \in Opening /\ opening.bottom = <<>>
  BY DEF Opening
<1>5. (CHOOSE l \in Life : TRUE) \in Life
  BY TableAssumption
<1> HIDE DEF zs, opening
<1>6. f \in Frame /\ f.zones = zs /\ f.attached = [x \in Object |-> None] /\ f.opening = opening
  BY <1>3, <1>4, <1>5 DEF Frame, zs
<1> HIDE DEF f
<1>7. IsInjective(<<>>) /\ ToSet(<<>>) = {}
  BY DEF IsInjective, ToSet
<1>8. \A z \in Zone : IsInjective(f.zones[z]) /\ (z # "library" => On(f, z) = {})
  BY <1>2, <1>3, <1>6, <1>7 DEF On
<1>9. Laid(f)
  BY <1>6, <1>8 DEF Laid
<1>10. Laid(g) /\ g.opening = opening
  BY <1>1, <1>2, <1>6, <1>9, DrawFacts DEF f
<1>11. QED  BY <1>4, <1>7, <1>10 DEF FrameOK

-----------------------------------------------------------------------------
(* The stored session *)

LEMMA FrontFacts ==
    ASSUME NEW T, NEW q \in Seq(T), q # <<>>
    PROVE  /\ Last(q) \in ToSet(q) /\ Last(q) \in T
           /\ Front(q) \in Seq(T) /\ Len(Front(q)) = Len(q) - 1 /\ ToSet(Front(q)) \subseteq ToSet(q)
           /\ Tail(q) \in Seq(T) /\ Len(Tail(q)) = Len(q) - 1 /\ ToSet(Tail(q)) \subseteq ToSet(q)
           /\ Head(q) \in T /\ 1 \in DOMAIN q /\ Head(q) = q[1] /\ Len(q) > 0
<1>1. /\ Len(q) \in Nat /\ Len(q) > 0 /\ DOMAIN q = 1 .. Len(q) /\ \A i \in 1 .. Len(q) : q[i] \in T
      /\ Len(q) \in DOMAIN q /\ 1 \in DOMAIN q
  BY EmptySeq
<1>2. Last(q) \in ToSet(q) /\ Last(q) \in T
  BY <1>1 DEF Last, ToSet
<1>3. /\ Front(q) \in Seq(T) /\ Len(Front(q)) = Len(q) - 1
      /\ \A i \in 1 .. Len(q) - 1 : Front(q)[i] = q[i]
  BY <1>1, SubSeqProperties DEF Front
<1>4. ToSet(Front(q)) \subseteq ToSet(q)
  <2>1. DOMAIN Front(q) = 1 .. Len(q) - 1
    BY <1>3
  <2>2. QED  BY <1>1, <1>3, <2>1 DEF ToSet
<1>5. /\ Tail(q) \in Seq(T) /\ Len(Tail(q)) = Len(q) - 1 /\ Head(q) \in T /\ Head(q) = q[1]
      /\ \A i \in 1 .. Len(q) - 1 : Tail(q)[i] = q[i + 1]
  BY <1>1, HeadTailProperties
<1>6. ToSet(Tail(q)) \subseteq ToSet(q)
  <2>1. DOMAIN Tail(q) = 1 .. Len(q) - 1
    BY <1>5
  <2>2. \A i \in 1 .. Len(q) - 1 : i + 1 \in DOMAIN q
    BY <1>1
  <2>3. QED  BY <1>5, <2>1, <2>2 DEF ToSet
<1>7. QED  BY <1>1, <1>2, <1>3, <1>4, <1>5, <1>6

LEMMA AppendFacts ==
    ASSUME NEW T, NEW q \in Seq(T), NEW x \in T
    PROVE  /\ Append(q, x) \in Seq(T) /\ Len(Append(q, x)) = Len(q) + 1 /\ Append(q, x) # <<>>
           /\ ToSet(Append(q, x)) = ToSet(q) \cup {x}
           /\ q # <<>> => Head(Append(q, x)) = Head(q)
           /\ Len(q) \in Nat /\ DOMAIN q = 1 .. Len(q) /\ DOMAIN Append(q, x) = 1 .. Len(q) + 1
           /\ \A i \in 1 .. Len(q) : Append(q, x)[i] = q[i]
           /\ Append(q, x)[Len(q) + 1] = x
<1>1. /\ Append(q, x) \in Seq(T) /\ Len(Append(q, x)) = Len(q) + 1
      /\ \A i \in 1 .. Len(q) : Append(q, x)[i] = q[i]
      /\ Append(q, x)[Len(q) + 1] = x /\ Len(q) \in Nat /\ DOMAIN q = 1 .. Len(q)
  BY AppendProperties
<1>2. Append(q, x) # <<>> /\ DOMAIN Append(q, x) = 1 .. Len(q) + 1
  BY <1>1
<1> DEFINE a == Append(q, x)
<1> HIDE DEF a
<1>3. ToSet(a) = ToSet(q) \cup {x}
  <2>1. ASSUME NEW y \in ToSet(a) PROVE y \in ToSet(q) \cup {x}
    <3>1. PICK i \in DOMAIN a : a[i] = y
      BY DEF ToSet
    <3>2. i \in 1 .. Len(q) \/ i = Len(q) + 1
      BY <1>1, <1>2, <3>1 DEF a
    <3>3. QED  BY <1>1, <3>1, <3>2 DEF a, ToSet
  <2>2. ASSUME NEW y \in ToSet(q) PROVE y \in ToSet(a)
    <3>1. PICK i \in DOMAIN q : q[i] = y
      BY DEF ToSet
    <3>2. i \in DOMAIN a /\ a[i] = y
      BY <1>1, <1>2, <3>1 DEF a
    <3>3. QED  BY <3>2 DEF ToSet
  <2>3. x \in ToSet(a)
    <3>1. Len(q) + 1 \in DOMAIN a /\ a[Len(q) + 1] = x
      BY <1>1, <1>2 DEF a
    <3>2. QED  BY <3>1 DEF ToSet
  <2>4. QED  BY <2>1, <2>2, <2>3
<1>4. ASSUME q # <<>> PROVE Head(a) = Head(q)
  <2>1. 1 \in 1 .. Len(q) /\ Head(q) = q[1]
    BY <1>1, <1>4, FrontFacts
  <2>2. Head(a) = a[1]
    BY <1>1, <1>2, FrontFacts DEF a
  <2>3. QED  BY <1>1, <2>1, <2>2 DEF a
<1>5. QED  BY <1>1, <1>2, <1>3, <1>4 DEF a

LEMMA SessionFacts ==
    ASSUME NEW s \in Session
    PROVE  /\ s.id \in Nat /\ s.version \in Nat /\ s.frame \in Frame /\ s.draft \in Text
           /\ s.past \in Seq(Frame) /\ s.future \in Seq(Frame)
           /\ s # None /\ View(s) \in Shown /\ View(s) # None
           /\ View(s).id = s.id /\ View(s).version = s.version
<1>1. /\ s.id \in Nat /\ s.version \in Nat /\ s.frame \in Frame /\ s.draft \in Text
      /\ s.past \in Seq(Frame) /\ s.future \in Seq(Frame) /\ s # None
  BY NoneAssumption DEF Session
<1>2. View(s) = [id |-> s.id, version |-> s.version, frame |-> s.frame, draft |-> s.draft]
  BY <1>1 DEF View
<1>3. QED  BY <1>1, <1>2, NoneAssumption DEF Shown

LEMMA SumFacts ==
    ASSUME NEW a \in Nat, NEW b \in Nat
    PROVE  /\ (a - 1) + (b + 1) = a + b /\ (a + 1) + (b - 1) = a + b
           /\ \A n \in Nat : a + b <= n => a <= n
OBVIOUS

\* Undo and redo keep the session readable: no frame is made, and the two
\* histories hold as many as before.
LEMMA WalkFacts ==
    ASSUME NEW s \in Session, Kempt(s), NEW t,
           t \in Walk(s, "past", "future") \/ t \in Walk(s, "future", "past")
    PROVE  /\ t \in Session /\ Kempt(t)
           /\ t.id = s.id /\ t.version = s.version /\ t.draft = s.draft
<1>1. /\ s.frame \in Frame /\ s.past \in Seq(Frame) /\ s.future \in Seq(Frame)
  BY SessionFacts
<1>2. CASE t \in Walk(s, "past", "future")
  <2>1. /\ s.past # <<>>
        /\ t = [s EXCEPT !.frame = Last(s.past), !.past = Front(@), !.future = Append(@, s.frame)]
    BY <1>2 DEF Walk
  <2> DEFINE l == Last(s.past)
             p == Front(s.past)
             f == Append(s.future, s.frame)
  <2>2. /\ l \in Frame /\ l \in ToSet(s.past) /\ p \in Seq(Frame) /\ ToSet(p) \subseteq ToSet(s.past)
        /\ Len(p) = Len(s.past) - 1
    BY <1>1, <2>1, FrontFacts
  <2>3. /\ f \in Seq(Frame) /\ ToSet(f) = ToSet(s.future) \cup {s.frame}
        /\ Len(f) = Len(s.future) + 1
    BY <1>1, AppendFacts
  <2>4. t = [s EXCEPT !.frame = l, !.past = p, !.future = f]
    BY <2>1
  <2> HIDE DEF l, p, f
  <2>5. /\ t \in Session /\ t.frame = l /\ t.past = p /\ t.future = f
        /\ t.id = s.id /\ t.version = s.version /\ t.draft = s.draft
    BY <2>2, <2>3, <2>4 DEF Session
  <2>6. Frames(t) \subseteq Frames(s)
    BY <2>2, <2>3, <2>5 DEF Frames
  <2>7. Len(t.past) + Len(t.future) = Len(s.past) + Len(s.future)
    <3>1. Len(s.past) \in Nat /\ Len(s.future) \in Nat
      BY <1>1, LenProperties
    <3>2. \/ Len(t.past) = Len(s.past) - 1 /\ Len(t.future) = Len(s.future) + 1
          \/ Len(t.past) = Len(s.past) + 1 /\ Len(t.future) = Len(s.future) - 1
      BY <2>2, <2>3, <2>5
    <3> QED  BY <3>1, <3>2, SumFacts
  <2>8. QED  BY <2>5, <2>6, <2>7 DEF Kempt
<1>3. CASE t \in Walk(s, "future", "past")
  <2>1. /\ s.future # <<>>
        /\ t = [s EXCEPT !.frame = Last(s.future), !.future = Front(@), !.past = Append(@, s.frame)]
    BY <1>3 DEF Walk
  <2> DEFINE l == Last(s.future)
             p == Append(s.past, s.frame)
             f == Front(s.future)
  <2>2. /\ l \in Frame /\ l \in ToSet(s.future) /\ f \in Seq(Frame) /\ ToSet(f) \subseteq ToSet(s.future)
        /\ Len(f) = Len(s.future) - 1
    BY <1>1, <2>1, FrontFacts
  <2>3. /\ p \in Seq(Frame) /\ ToSet(p) = ToSet(s.past) \cup {s.frame}
        /\ Len(p) = Len(s.past) + 1
    BY <1>1, AppendFacts
  <2>4. t = [s EXCEPT !.frame = l, !.future = f, !.past = p]
    BY <2>1
  <2> HIDE DEF l, p, f
  <2>5. /\ t \in Session /\ t.frame = l /\ t.past = p /\ t.future = f
        /\ t.id = s.id /\ t.version = s.version /\ t.draft = s.draft
    BY <2>2, <2>3, <2>4 DEF Session
  <2>6. Frames(t) \subseteq Frames(s)
    BY <2>2, <2>3, <2>5 DEF Frames
  <2>7. Len(t.past) + Len(t.future) = Len(s.past) + Len(s.future)
    <3>1. Len(s.past) \in Nat /\ Len(s.future) \in Nat
      BY <1>1, LenProperties
    <3>2. \/ Len(t.past) = Len(s.past) - 1 /\ Len(t.future) = Len(s.future) + 1
          \/ Len(t.past) = Len(s.past) + 1 /\ Len(t.future) = Len(s.future) - 1
      BY <2>2, <2>3, <2>5
    <3> QED  BY <3>1, <3>2, SumFacts
  <2>8. QED  BY <2>5, <2>6, <2>7 DEF Kempt
<1>4. QED  BY <1>2, <1>3

\* So does every action: the frame it makes is right, and the oldest one is
\* forgotten when the history is full.
LEMMA ActedFacts ==
    ASSUME NEW s \in Session, Kempt(s), NEW a \in Action, NEW t \in Acted(s, a)
    PROVE  /\ t \in Session /\ Kempt(t)
           /\ t.id = s.id /\ t.version = s.version /\ t.draft = s.draft
<1>1. CASE a.type = "undo"
  BY <1>1, WalkFacts DEF Acted
<1>2. CASE a.type = "redo"
  BY <1>2, WalkFacts DEF Acted
<1>3. CASE a.type \notin {"undo", "redo"}
  <2> DEFINE long == Append(s.past, s.frame)
             p == IF Len(long) > MaxPast THEN Tail(long) ELSE long
  <2>1. PICK f \in Outcomes(s.frame, a, Seen(s)) :
           t = [s EXCEPT !.frame = f, !.future = <<>>, !.past = p]
    BY <1>3 DEF Acted
  <2>2. /\ s.frame \in Frame /\ s.past \in Seq(Frame) /\ s.future \in Seq(Frame) /\ MaxPast \in Nat
    BY SessionFacts, BoundsAssumption
  <2>3. FrameOK(s.frame) /\ InGame(s.frame) \subseteq Seen(s)
    BY DEF Kempt, Frames, Seen
  <2>4. FrameOK(f) /\ f \in Frame
    <3>1. FrameOK(f)
      BY <2>1, <2>3, OutcomeFacts
    <3>2. QED  BY <3>1 DEF FrameOK, Laid
  <2>5. /\ long \in Seq(Frame) /\ ToSet(long) = ToSet(s.past) \cup {s.frame} /\ long # <<>>
        /\ Len(long) = Len(s.past) + 1
    BY <2>2, AppendFacts
  <2> HIDE DEF long
  <2>6. Tail(long) \in Seq(Frame) /\ ToSet(Tail(long)) \subseteq ToSet(long) /\ Len(Tail(long)) = Len(long) - 1
    BY <2>5, FrontFacts
  <2>7. Len(s.past) \in Nat /\ Len(s.past) <= MaxPast
    <3>1. Len(s.past) \in Nat /\ Len(s.future) \in Nat
      BY <2>2, LenProperties
    <3>2. Len(s.past) + Len(s.future) <= MaxPast
      BY DEF Kempt
    <3>3. MaxPast \in Nat
      BY BoundsAssumption
    <3> QED  BY <3>1, <3>2, <3>3, SumFacts
  <2>8. p \in Seq(Frame) /\ ToSet(p) \subseteq ToSet(s.past) \cup {s.frame} /\ Len(p) <= MaxPast
    <3>1. CASE Len(long) > MaxPast
      <4>1. Len(Tail(long)) <= MaxPast
        BY <2>2, <2>5, <2>6, <2>7
      <4>2. QED  BY <2>5, <2>6, <3>1, <4>1
    <3>2. CASE ~(Len(long) > MaxPast)
      <4>1. Len(long) <= MaxPast
        BY <2>2, <2>5, <2>7, <3>2
      <4>2. QED  BY <2>5, <3>2, <4>1
    <3>3. QED  BY <3>1, <3>2
  <2> HIDE DEF p
  <2>9. <<>> \in Seq(Frame) /\ ToSet(<<>>) = {} /\ Len(<<>>) = 0
    BY DEF ToSet
  <2>10. /\ t \in Session /\ t.frame = f /\ t.past = p /\ t.future = <<>>
         /\ t.id = s.id /\ t.version = s.version /\ t.draft = s.draft
    BY <2>1, <2>4, <2>8, <2>9 DEF Session
  <2>11. \A g \in Frames(t) : g = f \/ g \in Frames(s)
    BY <2>8, <2>9, <2>10 DEF Frames
  <2>12. Len(t.past) + Len(t.future) <= MaxPast
    BY <2>2, <2>8, <2>9, <2>10
  <2>13. QED  BY <2>4, <2>10, <2>11, <2>12 DEF Kempt
<1>4. QED  BY <1>1, <1>2, <1>3

-----------------------------------------------------------------------------
(* What has been seen, as the session moves on *)

\* The session t came after s.
Later(s, t) ==
    t \in Session /\ (s # None => t.id > s.id \/ (t.id = s.id /\ t.version > s.version))

LEMMA DatedLater ==
    ASSUME NEW s \in Session \cup {None}, NEW t, Later(s, t), NEW v \in Shown, Dated(v, s)
    PROVE  Dated(v, t)
<1>1. s \in Session /\ t \in Session /\ t # None /\ s # None
  BY SessionFacts DEF Later, Dated
<1>2. /\ v.id \in Nat /\ v.version \in Nat /\ s.id \in Nat /\ s.version \in Nat
      /\ t.id \in Nat /\ t.version \in Nat
  BY <1>1, SessionFacts DEF Shown
<1>3. v.id < s.id \/ (v.id = s.id /\ v.version <= s.version)
  <2>1. v = View(s) => v.version = s.version
    BY <1>1, SessionFacts
  <2>2. QED  BY <1>2, <2>1 DEF Dated
<1>4. t.id > s.id \/ (t.id = s.id /\ t.version > s.version)
  BY <1>1 DEF Later
<1>5. v.id < t.id \/ (v.id = t.id /\ v.version < t.version)
  BY <1>2, <1>3, <1>4
<1>6. QED  BY <1>1, <1>5 DEF Dated

LEMMA AskingFacts ==
    ASSUME NEW r \in Asking
    PROVE  /\ r.from \in Window /\ r.key \in Key /\ r.key[1] = r.from /\ r.attempt \in {1, 2}
           /\ r.kind \in {"start", "ui", "act", "observe"} /\ Fits(r.kind, r.body)
           /\ r.id \in Nat \cup {None} /\ r.version \in Nat \cup {None}
  BY DEF Asking

LEMMA BehindLater ==
    ASSUME NEW s \in Session \cup {None}, NEW t, Later(s, t), NEW r \in Asking, Behind(r, s)
    PROVE  Behind(r, t) /\ (r.id = None \/ r.id < t.id \/ r.kind = "observe"
                              \/ (r.version \in Nat /\ r.id = t.id /\ r.version < t.version))
<1> SUFFICES ASSUME r.id # None
             PROVE  Behind(r, t) /\ (r.id < t.id \/ r.kind = "observe"
                              \/ (r.version \in Nat /\ r.id = t.id /\ r.version < t.version))
  BY DEF Behind
<1>1. /\ s \in Session /\ t \in Session /\ t # None /\ s # None
      /\ r.id \in Nat /\ s.id \in Nat /\ s.version \in Nat /\ t.id \in Nat /\ t.version \in Nat
  BY SessionFacts, AskingFacts DEF Later, Behind
<1>2. r.id < s.id \/ (r.id = s.id /\ (r.kind # "observe" => r.version \in Nat /\ r.version <= s.version))
  BY DEF Behind
<1>3. t.id > s.id \/ (t.id = s.id /\ t.version > s.version)
  BY <1>1 DEF Later
<1>4. r.id < t.id \/ (r.id = t.id /\ (r.kind # "observe" => r.version \in Nat /\ r.version < t.version))
  <2>1. CASE r.kind = "observe"
    BY <1>1, <1>2, <1>3, <2>1
  <2>2. CASE r.kind # "observe"
    BY <1>1, <1>2, <1>3, <2>2
  <2>3. QED  BY <2>1, <2>2
<1>5. r.version \in Nat /\ r.version < t.version => r.version <= t.version
  BY <1>1
<1>6. QED  BY <1>1, <1>4, <1>5 DEF Behind

\* What cannot be done now cannot be done of any later session.
LEMMA HopelessLater ==
    ASSUME NEW s \in Session \cup {None}, NEW t, Later(s, t), NEW r \in Asking, NEW ms,
           Behind(r, s), Hopeless(r, s, ms)
    PROVE  Hopeless(r, t, ms)
<1>1. t \in Session /\ t # None /\ t.id \in Nat /\ t.version \in Nat /\ None \notin Nat
  BY SessionFacts, NoneAssumption DEF Later
<1>2. CASE r.kind = "observe"
  <2>1. CASE {m \in ToSet(ms) : m.text = r.body.text} # {}
    BY <1>2, <2>1 DEF Hopeless
  <2>2. CASE {m \in ToSet(ms) : m.text = r.body.text} = {}
    <3>1. s = None \/ r.id # s.id
      BY <1>2, <2>2 DEF Hopeless
    <3>2. r.id # t.id
      <4>1. CASE r.id = None
        BY <1>1, <4>1
      <4>2. CASE r.id # None
        <5>1. s # None /\ s \in Session /\ r.id < s.id /\ r.id \in Nat /\ s.id \in Nat
          BY <3>1, <4>2, SessionFacts, AskingFacts DEF Behind
        <5>2. t.id >= s.id
          BY <1>1, <5>1 DEF Later
        <5>3. QED  BY <1>1, <5>1, <5>2
      <4>3. QED  BY <4>1, <4>2
    <3>3. QED  BY <1>2, <2>2, <3>2 DEF Hopeless
  <2>3. QED  BY <2>1, <2>2
<1>3. CASE r.kind # "observe"
  <2>1. r.id = None \/ r.id < t.id \/ (r.version \in Nat /\ r.id = t.id /\ r.version < t.version)
    BY <1>3, BehindLater
  <2>2. r.id # t.id \/ r.version # t.version
    <3>1. r.id < t.id /\ r.id \in Nat => r.id # t.id
      BY <1>1
    <3>2. r.version \in Nat /\ r.version < t.version => r.version # t.version
      BY <1>1
    <3>3. QED  BY <1>1, <2>1, <3>1, <3>2, AskingFacts
  <2>3. QED  BY <1>1, <1>3, <2>2 DEF Hopeless
<1>4. QED  BY <1>2, <1>3

\* Nor when another observation has been saved.
LEMMA HopelessGrown ==
    ASSUME NEW T, NEW ms \in Seq(T), NEW m \in T, \A x \in ToSet(ms) : x.text # m.text,
           NEW s, s # None, m.session = s.id, NEW r, Hopeless(r, s, ms),
           m = [text |-> m.text, session |-> m.session]
    PROVE  Hopeless(r, s, Append(ms, m))
<1>1. ToSet(Append(ms, m)) = ToSet(ms) \cup {m}
  BY AppendFacts
<1>2. CASE r.kind = "observe"
  <2> DEFINE prior == {x \in ToSet(ms) : x.text = r.body.text}
             now == {x \in ToSet(Append(ms, m)) : x.text = r.body.text}
  <2>1. CASE prior # {}
    <3>1. now = prior
      BY <1>1, <2>1
    <3>2. QED  BY <1>2, <2>1, <3>1 DEF Hopeless
  <2>2. CASE prior = {} /\ now # {}
    <3>1. now = {m}
      BY <1>1, <2>2
    <3>2. r.id # s.id
      BY <1>2, <2>2 DEF Hopeless
    <3>3. Saving(r).session = r.id
      BY DEF Saving
    <3>4. Saving(r) # m
      BY <3>2, <3>3
    <3>5. QED  BY <1>2, <2>2, <3>1, <3>4 DEF Hopeless
  <2>3. CASE prior = {} /\ now = {}
    BY <1>2, <2>3 DEF Hopeless
  <2>4. QED  BY <2>1, <2>2, <2>3
<1>3. CASE r.kind # "observe"
  BY <1>3 DEF Hopeless
<1>4. QED  BY <1>2, <1>3

-----------------------------------------------------------------------------
(* What a window waits for *)

Memory == [text : Text, session : Nat]
Receipt == [key : Key, view : Shown \cup {None}]

LEMMA CallFacts ==
    ASSUME NEW c \in Call
    PROVE  /\ c.key \in Key /\ c.attempt \in {1, 2} /\ c.request \in Asking
           /\ c.reply # None => c.reply \in Reply /\ c.reply.ok \in BOOLEAN
                                /\ c.reply.view \in Shown \cup {None}
BY DEF Call, Reply

LEMMA WindowFacts ==
    ASSUME NEW me \in WindowState
    PROVE  /\ me.view \in Shown \cup {None} /\ me.draft \in Text /\ me.timer \in BOOLEAN
           /\ me.queue \in Seq(Queued) /\ (me.call # None => me.call \in Call)
           /\ me.told \in BOOLEAN /\ me.reload \in {"no", "due", "fetched"} /\ me.ahead \in Nat
           /\ me.fetched \in Shown \cup {None}
           /\ \A i \in DOMAIN me.queue : me.queue[i] \in Queued
BY DEF WindowState

\* Asking again asks for the same.
LEMMA SameAsking ==
    ASSUME NEW c \in Asking, NEW r, r = [c EXCEPT !.attempt = r.attempt], NEW s, NEW ms
    PROVE  /\ r.key = c.key /\ r.kind = c.kind /\ r.body = c.body /\ r.id = c.id /\ r.version = c.version
           /\ Hopeless(r, s, ms) <=> Hopeless(c, s, ms)
           /\ Saved(r, ms) <=> Saved(c, ms)
           /\ Behind(r, s) <=> Behind(c, s)
<1>1. /\ r.key = c.key /\ r.kind = c.kind /\ r.body = c.body /\ r.id = c.id /\ r.version = c.version
  BY DEF Asking
<1>2. Saving(r) = Saving(c)
  BY <1>1 DEF Saving
<1>3. Hopeless(r, s, ms) <=> Hopeless(c, s, ms)
  BY <1>1, <1>2 DEF Hopeless
<1>4. (Saved(r, ms) <=> Saved(c, ms)) /\ (Behind(r, s) <=> Behind(c, s))
  BY <1>1 DEF Saved, Behind
<1>5. QED  BY <1>1, <1>3, <1>4

\* Nothing a window knows is put in doubt by a later session,
LEMMA WindowLater ==
    ASSUME NEW w, NEW me \in WindowState, NEW s \in Session \cup {None}, NEW t, Later(s, t),
           NEW ms, NEW rs, NEW n, WindowOK(w, me, s, ms, rs, n)
    PROVE  WindowOK(w, me, t, ms, rs, n)
<1>1. \A v \in {me.view, me.fetched} \ {None} : Dated(v, t)
  <2>1. \A v \in {me.view, me.fetched} \ {None} : v \in Shown /\ Dated(v, s)
    BY WindowFacts DEF WindowOK
  <2>2. QED  BY <2>1, DatedLater
<1>2. ASSUME NEW i \in DOMAIN me.queue, me.queue[i].id # None PROVE t # None /\ me.queue[i].id <= t.id
  <2>1. s # None /\ me.queue[i].id <= s.id /\ me.queue[i].id \in Nat
    BY <1>2, WindowFacts DEF WindowOK, Queued
  <2>2. s.id \in Nat /\ t.id \in Nat /\ t # None /\ t.id >= s.id
    BY <2>1, SessionFacts DEF Later
  <2>3. QED  BY <2>1, <2>2
<1>3. ASSUME me.call # None PROVE CallOK(me.call, me.queue, t, ms, rs, n)
  <2> DEFINE c == me.call
  <2>1. c \in Call /\ c.request \in Asking /\ CallOK(c, me.queue, s, ms, rs, n)
    BY <1>3, WindowFacts, CallFacts DEF WindowOK
  <2> HIDE DEF c
  <2>2. Behind(c.request, s)
    BY <2>1 DEF CallOK
  <2>3. Behind(c.request, t)
    BY <2>1, <2>2, BehindLater
  <2>4. ASSUME c.reply # None, c.reply.view # None PROVE Dated(c.reply.view, t)
    <3>1. c.reply.view \in Shown /\ Dated(c.reply.view, s)
      BY <2>1, <2>4, CallFacts DEF CallOK
    <3>2. QED  BY <3>1, DatedLater
  <2>5. ASSUME c.reply # None, ~c.reply.ok PROVE Hopeless(c.request, t, ms)
    <3>1. Hopeless(c.request, s, ms)
      BY <2>1, <2>5 DEF CallOK
    <3>2. QED  BY <2>1, <2>2, <3>1, HopelessLater
  <2>6. QED  BY <2>1, <2>3, <2>4, <2>5 DEF CallOK, c
<1>4. QED  BY <1>1, <1>2, <1>3 DEF WindowOK

\* by another observation,
LEMMA WindowGrown ==
    ASSUME NEW w, NEW me \in WindowState, NEW ms \in Seq(Memory), NEW m \in Memory,
           \A x \in ToSet(ms) : x.text # m.text, NEW s, s # None, m.session = s.id,
           NEW rs, NEW n, WindowOK(w, me, s, ms, rs, n)
    PROVE  WindowOK(w, me, s, Append(ms, m), rs, n)
<1> SUFFICES ASSUME me.call # None
             PROVE  CallOK(me.call, me.queue, s, Append(ms, m), rs, n)
  BY DEF WindowOK
<1> DEFINE c == me.call
<1>1. CallOK(c, me.queue, s, ms, rs, n)
  BY DEF WindowOK
<1> HIDE DEF c
<1>2. ToSet(Append(ms, m)) = ToSet(ms) \cup {m}
  BY AppendFacts
<1>3. Saved(c.request, ms) => Saved(c.request, Append(ms, m))
  BY <1>2 DEF Saved
<1>4. Hopeless(c.request, s, ms) => Hopeless(c.request, s, Append(ms, m))
  <2>1. m = [text |-> m.text, session |-> m.session]
    BY DEF Memory
  <2>2. QED  BY <2>1, HopelessGrown
<1>5. QED  BY <1>1, <1>3, <1>4 DEF CallOK, c

\* or by what becomes of requests and receipts under other keys.
LEMMA WindowElse ==
    ASSUME NEW w, NEW me, NEW s, NEW ms, NEW rs, NEW n, WindowOK(w, me, s, ms, rs, n),
           NEW rs2, NEW n2,
           me.call # None =>
             /\ \A k \in rs2 : k \in rs \/ k.key # me.call.key
                  \/ ((k.view = None => Saved(me.call.request, ms))
                        /\ ~(me.call.reply # None /\ ~me.call.reply.ok))
             /\ \A r \in n2 : r \in n \/ r.key # me.call.key
                  \/ r = [me.call.request EXCEPT !.attempt = r.attempt]
    PROVE  WindowOK(w, me, s, ms, rs2, n2)
<1> SUFFICES ASSUME me.call # None
             PROVE  CallOK(me.call, me.queue, s, ms, rs2, n2)
  BY DEF WindowOK
<1> DEFINE c == me.call
           q == me.queue
<1>1. /\ CallOK(c, q, s, ms, rs, n)
      /\ \A k \in rs2 : k \in rs \/ k.key # c.key
           \/ ((k.view = None => Saved(c.request, ms)) /\ ~(c.reply # None /\ ~c.reply.ok))
      /\ \A r \in n2 : r \in n \/ r.key # c.key \/ r = [c.request EXCEPT !.attempt = r.attempt]
  BY DEF WindowOK
<1> HIDE DEF c, q
<1>2. \A r \in n2 : r.key = c.key => r = [c.request EXCEPT !.attempt = r.attempt]
  BY <1>1 DEF CallOK
<1>3. \A k \in rs2 : k.key = c.key /\ k.view = None => Saved(c.request, ms)
  BY <1>1 DEF CallOK
<1>4. c.reply # None /\ ~c.reply.ok => \A k \in rs2 : k.key # c.key
  BY <1>1 DEF CallOK
<1>5. QED  BY <1>1, <1>2, <1>3, <1>4 DEF CallOK, c, q

\* A true answer may be believed.
TrueOf(rep, c, s, ms, rs) ==
    /\ rep.ok /\ rep.view = None => Saved(c.request, ms)
    /\ rep.view # None => Dated(rep.view, s)
    /\ ~rep.ok => Hopeless(c.request, s, ms) /\ \A k \in rs : k.key # c.key

LEMMA WindowAnswered ==
    ASSUME NEW w, NEW me, NEW s, NEW ms, NEW rs, NEW n, WindowOK(w, me, s, ms, rs, n),
           NEW me2, me2.view = me.view, me2.fetched = me.fetched, me2.queue = me.queue,
           NEW rep,
           \/ me2.call = me.call
           \/ /\ me.call \in Call /\ me.call # None /\ me2.call = [me.call EXCEPT !.reply = rep]
              /\ TrueOf(rep, me.call, s, ms, rs)
    PROVE  WindowOK(w, me2, s, ms, rs, n)
<1>1. CASE me2.call = me.call
  BY <1>1 DEF WindowOK
<1>2. CASE /\ me.call \in Call /\ me.call # None /\ me2.call = [me.call EXCEPT !.reply = rep]
           /\ TrueOf(rep, me.call, s, ms, rs)
  <2> DEFINE c == me.call
             d == me2.call
             q == me.queue
  <2>1. CallOK(c, q, s, ms, rs, n) /\ c.key[1] = w
    BY <1>2 DEF WindowOK
  <2>2. d.key = c.key /\ d.request = c.request /\ d.reply = rep /\ TrueOf(rep, c, s, ms, rs)
    BY <1>2 DEF Call
  <2> HIDE DEF c, d, q
  <2>3. CallOK(d, q, s, ms, rs, n)
    BY <2>1, <2>2 DEF CallOK, TrueOf
  <2>4. d.key[1] = w
    BY <2>1, <2>2
  <2>5. QED  BY <2>3, <2>4 DEF WindowOK, d, q
<1>3. QED  BY <1>1, <1>2

-----------------------------------------------------------------------------
(* The service *)

LEMMA TypeFacts ==
    ASSUME TypeOK
    PROVE  /\ plan \in Plan /\ session \in Session \cup {None} /\ memories \in Seq(Memory)
           /\ receipts \subseteq Receipt /\ net \subseteq Asking
           /\ win \in [Window -> WindowState] /\ \A w \in Window : win[w] \in WindowState
BY DEF TypeOK, Memory, Receipt

\* The next version of a session.
LEMMA NextVersion ==
    ASSUME NEW s \in Session, NEW t \in Session, Kempt(t), t.id = s.id, t.version = s.version,
           NEW u, u = [t EXCEPT !.version = @ + 1]
    PROVE  Later(s, u) /\ Kempt(u)
<1>1. t.version \in Nat /\ s.version \in Nat /\ t.version + 1 \in Nat /\ t.version + 1 > s.version
  BY SessionFacts
<1>2. /\ u \in Session /\ u.id = t.id /\ u.version = t.version + 1
      /\ u.frame = t.frame /\ u.past = t.past /\ u.future = t.future
  BY <1>1 DEF Session
<1>3. QED  BY <1>1, <1>2 DEF Later, Kempt, Frames

\* A write that is carried out makes a later session, and could be carried out.
LEMMA AfterFacts ==
    ASSUME TypeOK, session # None => Kempt(session), NEW r \in Asking, r.kind # "observe",
           NEW t \in After(r)
    PROVE  Later(session, t) /\ Kempt(t) /\ ~Hopeless(r, session, memories)
<1>1. /\ session # None => session \in Session
      /\ r.kind \in {"start", "ui", "act"} /\ Fits(r.kind, r.body)
  BY TypeFacts, AskingFacts
<1>2. CASE r.kind = "act"
  <2>1. t \in changePlaytest(r) /\ r.body \in Action
    BY <1>1, <1>2 DEF After, Fits
  <2>2. /\ Current(r) /\ session \in Session
        /\ \E s \in Acted(session, r.body) : t = [s EXCEPT !.version = @ + 1]
    BY <1>1, <2>1 DEF changePlaytest, Current
  <2>3. PICK s \in Acted(session, r.body) : t = [s EXCEPT !.version = @ + 1]
    BY <2>2
  <2>4. s \in Session /\ Kempt(s) /\ s.id = session.id /\ s.version = session.version
    BY <2>1, <2>2, ActedFacts DEF Current
  <2>5. Later(session, t) /\ Kempt(t)
    BY <2>2, <2>3, <2>4, NextVersion
  <2>6. ~Hopeless(r, session, memories)
    BY <1>2, <2>2, <2>3 DEF Hopeless, Current
  <2>7. QED  BY <2>5, <2>6
<1>3. CASE r.kind = "ui"
  <2>1. Current(r) /\ session \in Session /\ t = [session EXCEPT !.draft = r.body.text, !.version = @ + 1]
    BY <1>1, <1>3 DEF After, savePlaytestUi, Current
  <2>2. r.body.text \in Text
    BY <1>1, <1>3 DEF Fits
  <2> DEFINE s == [session EXCEPT !.draft = r.body.text]
  <2>3. /\ s \in Session /\ s.id = session.id /\ s.version = session.version
        /\ s.frame = session.frame /\ s.past = session.past /\ s.future = session.future
    BY <2>1, <2>2 DEF Session
  <2>4. Kempt(s)
    BY <2>1, <2>3 DEF Kempt, Frames, Current
  <2>5. t = [s EXCEPT !.version = @ + 1]
    BY <2>1, <2>3
  <2> HIDE DEF s
  <2>6. Later(session, t) /\ Kempt(t)
    BY <2>1, <2>3, <2>4, <2>5, NextVersion
  <2>7. ~Hopeless(r, session, memories)
    BY <1>3, <2>1 DEF Hopeless, Current
  <2>8. QED  BY <2>6, <2>7
<1>4. CASE r.kind = "start"
  <2> DEFINE id == IF session = None THEN 0 ELSE session.id + 1
             draft == IF session = None THEN Blank ELSE session.draft
  <2>1. /\ session = None \/ Current(r)
        /\ r.body.mode \in Mode
        /\ \E f \in Deals(r.body.mode) :
              t = [id |-> id, version |-> 0, frame |-> f, past |-> <<>>, future |-> <<>>, draft |-> draft]
    BY <1>1, <1>4 DEF After, startPlaytest, Fits
  <2>2. r.body.mode \in Mode
    BY <1>1, <1>4 DEF Fits
  <2>3. PICK f \in Deals(r.body.mode) :
          t = [id |-> id, version |-> 0, frame |-> f, past |-> <<>>, future |-> <<>>, draft |-> draft]
    BY <2>1
  <2>4. FrameOK(f) /\ f \in Frame
    <3>1. FrameOK(f)
      BY <2>2, DealFacts
    <3>2. QED  BY <3>1 DEF FrameOK, Laid
  <2>5. id \in Nat /\ draft \in Text /\ (session # None => id > session.id)
    <3>1. Blank \in Text
      BY BoundsAssumption DEF Blank, Text
    <3>2. session # None => session.id \in Nat /\ session.draft \in Text
      BY <1>1, SessionFacts
    <3>3. QED  BY <3>1, <3>2
  <2>6. <<>> \in Seq(Frame) /\ ToSet(<<>>) = {} /\ Len(<<>>) = 0
    BY DEF ToSet
  <2> HIDE DEF id, draft
  <2>7. /\ t \in Session /\ t.id = id /\ t.frame = f /\ t.past = <<>> /\ t.future = <<>>
    BY <2>3, <2>4, <2>5, <2>6 DEF Session
  <2>8. Later(session, t)
    BY <2>5, <2>7 DEF Later
  <2>9. Frames(t) = {f} /\ Len(t.past) + Len(t.future) <= MaxPast
    BY <2>6, <2>7, BoundsAssumption DEF Frames
  <2>10. Kempt(t)
    BY <2>4, <2>9 DEF Kempt
  <2>11. Deals(r.body.mode) # {}
    BY <2>3
  <2>12. ~Hopeless(r, session, memories)
    BY <1>4, <2>1, <2>11 DEF Hopeless, Current
  <2>13. QED  BY <2>8, <2>10, <2>12
<1>5. QED  BY <1>1, <1>2, <1>3, <1>4

\* A write that makes nothing never will.
LEMMA RefusedIsHopeless ==
    ASSUME TypeOK, NEW r \in Asking, r.kind # "observe", After(r) = {}
    PROVE  Hopeless(r, session, memories)
<1>1. r.kind \in {"start", "ui", "act"}
  BY AskingFacts
<1>2. CASE r.kind = "act"
  <2>1. changePlaytest(r) = {}
    BY <1>2 DEF After
  <2>2. CASE Current(r)
    <3>1. {[s EXCEPT !.version = @ + 1] : s \in Acted(session, r.body)} = {}
      BY <2>1, <2>2 DEF changePlaytest
    <3>2. Acted(session, r.body) = {}
      BY <3>1
    <3>3. QED  BY <1>2, <2>2, <3>2 DEF Hopeless, Current
  <2>3. CASE ~Current(r)
    BY <1>2, <2>3 DEF Hopeless, Current
  <2>4. QED  BY <2>2, <2>3
<1>3. CASE r.kind = "ui"
  <2>1. ~Current(r)
    BY <1>3 DEF After, savePlaytestUi
  <2>2. QED  BY <1>3, <2>1 DEF Hopeless, Current
<1>4. CASE r.kind = "start"
  <2>1. startPlaytest(r) = {}
    BY <1>4 DEF After
  <2>2. CASE session = None \/ Current(r)
    <3>1. Deals(r.body.mode) = {}
      BY <2>1, <2>2 DEF startPlaytest
    <3>2. QED  BY <1>4, <3>1 DEF Hopeless
  <2>3. CASE ~(session = None \/ Current(r))
    BY <1>4, <2>3 DEF Hopeless, Current
  <2>4. QED  BY <2>2, <2>3
<1>5. QED  BY <1>1, <1>2, <1>3, <1>4

\* What an answer does to the windows.
Answers(r, rep) ==
    \E ok \in BOOLEAN, announce \in BOOLEAN, view \in Shown \cup {None} :
      rep = [ok |-> ok, view |-> view] /\ Answer(r, ok, view, announce)

LEMMA AnswerFacts ==
    ASSUME TypeOK, NEW r, NEW rep, Answers(r, rep)
    PROVE  /\ rep \in Reply
           /\ win' \in [Window -> WindowState]
           /\ \A w \in Window :
                /\ win'[w].view = win[w].view /\ win'[w].fetched = win[w].fetched
                /\ win'[w].queue = win[w].queue /\ win'[w].draft = win[w].draft
                /\ \/ win'[w].call = win[w].call
                   \/ /\ win[w].call \in Call /\ win[w].call # None /\ win[w].call.key = r.key
                      /\ win'[w].call = [win[w].call EXCEPT !.reply = rep]
<1>1. PICK ok \in BOOLEAN, announce \in BOOLEAN, view \in Shown \cup {None} :
         rep = [ok |-> ok, view |-> view] /\ Answer(r, ok, view, announce)
  BY DEF Answers
<1>2. rep \in Reply
  BY <1>1 DEF Reply
<1> DEFINE told(w) == [win[w] EXCEPT !.told = @ \/ (announce /\ w \in plan.windows)]
           hit(w) == w = r.from /\ win[w].call # None /\ win[w].call.key = r.key
                       /\ win[w].call.attempt = r.attempt
           new(w) == IF hit(w) THEN [told(w) EXCEPT !.call.reply = rep] ELSE told(w)
<1>3. win' = [w \in Window |-> new(w)]
  BY <1>1 DEF Answer
<1>4. ASSUME NEW w \in Window
      PROVE  /\ new(w) \in WindowState
             /\ new(w).view = win[w].view /\ new(w).fetched = win[w].fetched
             /\ new(w).queue = win[w].queue /\ new(w).draft = win[w].draft
             /\ \/ new(w).call = win[w].call
                \/ /\ win[w].call \in Call /\ win[w].call # None /\ win[w].call.key = r.key
                   /\ new(w).call = [win[w].call EXCEPT !.reply = rep]
  <2>1. win[w] \in WindowState
    BY TypeFacts
  <2> DEFINE b == win[w].told \/ (announce /\ w \in plan.windows)
  <2>2. b \in BOOLEAN /\ told(w) = [win[w] EXCEPT !.told = b]
    BY <2>1, WindowFacts
  <2> HIDE DEF b
  <2>3. /\ told(w) \in WindowState /\ told(w).view = win[w].view /\ told(w).fetched = win[w].fetched
        /\ told(w).queue = win[w].queue /\ told(w).call = win[w].call /\ told(w).draft = win[w].draft
    BY <2>1, <2>2 DEF WindowState
  <2> HIDE DEF told
  <2>4. CASE ~hit(w)
    BY <2>3, <2>4
  <2>5. CASE hit(w)
    <3> DEFINE c == win[w].call
               d == [c EXCEPT !.reply = rep]
    <3>1. c \in Call /\ c # None /\ c.key = r.key
      BY <2>1, <2>5, WindowFacts
    <3>2. d \in Call
      BY <1>2, <3>1 DEF Call
    <3>3. new(w) = [told(w) EXCEPT !.call = d]
      BY <2>3, <2>5
    <3> HIDE DEF c, d
    <3>4. /\ new(w) \in WindowState /\ new(w).view = win[w].view /\ new(w).fetched = win[w].fetched
          /\ new(w).queue = win[w].queue /\ new(w).call = d /\ new(w).draft = win[w].draft
      BY <2>3, <3>2, <3>3 DEF WindowState
    <3>5. QED  BY <3>1, <3>4 DEF c, d
  <2>6. QED  BY <2>4, <2>5
<1> HIDE DEF new
<1>5. QED  BY <1>2, <1>3, <1>4

LEMMA AnsweredWindows ==
    ASSUME TypeOK, NEW r, NEW rep, Answers(r, rep), NEW s, NEW ms, NEW rs, NEW n,
           \A w \in Window : WindowOK(w, win[w], s, ms, rs, n),
           \A w \in Window : win[w].call # None /\ win[w].call.key = r.key =>
                               TrueOf(rep, win[w].call, s, ms, rs)
    PROVE  \A w \in Window : WindowOK(w, win'[w], s, ms, rs, n)
<1> SUFFICES ASSUME NEW w \in Window PROVE WindowOK(w, win'[w], s, ms, rs, n)
  OBVIOUS
<1>1. /\ win'[w].view = win[w].view /\ win'[w].fetched = win[w].fetched
      /\ win'[w].queue = win[w].queue
      /\ \/ win'[w].call = win[w].call
         \/ /\ win[w].call \in Call /\ win[w].call # None /\ win[w].call.key = r.key
            /\ win'[w].call = [win[w].call EXCEPT !.reply = rep]
  BY AnswerFacts
<1>2. WindowOK(w, win[w], s, ms, rs, n)
  OBVIOUS
<1>3. \/ win'[w].call = win[w].call
      \/ /\ win[w].call \in Call /\ win[w].call # None
         /\ win'[w].call = [win[w].call EXCEPT !.reply = rep]
         /\ TrueOf(rep, win[w].call, s, ms, rs)
  BY <1>1
<1>4. QED  BY <1>1, <1>2, <1>3, WindowAnswered

\* A request under the key of a call is that call's.
LEMMA ArrivedFacts ==
    ASSUME IInv, NEW r \in net
    PROVE  /\ r \in Asking /\ Behind(r, session)
           /\ \A w \in Window : win[w].call # None /\ win[w].call.key = r.key =>
                /\ win[w].call \in Call
                /\ r = [win[w].call.request EXCEPT !.attempt = r.attempt]
                /\ CallOK(win[w].call, win[w].queue, session, memories, receipts, net)
                /\ \A s, ms : /\ Hopeless(r, s, ms) <=> Hopeless(win[w].call.request, s, ms)
                              /\ Saved(r, ms) <=> Saved(win[w].call.request, ms)
<1>1. r \in Asking /\ Behind(r, session)
  BY TypeFacts DEF IInv
<1>2. ASSUME NEW w \in Window, win[w].call # None, win[w].call.key = r.key
      PROVE  /\ win[w].call \in Call
             /\ r = [win[w].call.request EXCEPT !.attempt = r.attempt]
             /\ CallOK(win[w].call, win[w].queue, session, memories, receipts, net)
             /\ \A s, ms : /\ Hopeless(r, s, ms) <=> Hopeless(win[w].call.request, s, ms)
                           /\ Saved(r, ms) <=> Saved(win[w].call.request, ms)
  <2>1. win[w].call \in Call /\ win[w].call.request \in Asking
    BY <1>2, TypeFacts, WindowFacts, CallFacts DEF IInv
  <2>2. CallOK(win[w].call, win[w].queue, session, memories, receipts, net)
    BY <1>2 DEF IInv, WindowOK
  <2>3. r = [win[w].call.request EXCEPT !.attempt = r.attempt]
    BY <1>2, <2>2 DEF CallOK
  <2>4. QED  BY <2>1, <2>2, <2>3, SameAsking
<1>3. QED  BY <1>1, <1>2

LEMMA ReplayKeeps ==
    ASSUME IInv, NEW r \in net, Replay(r)
    PROVE  IInv'
<1>1. PICK k \in Known(r) : Answer(r, TRUE, k.view, FALSE)
  BY DEF Replay
<1>2. /\ net' = net \ {r} /\ UNCHANGED <<scratch, plan>> /\ UNCHANGED <<session, memories, receipts>>
  BY DEF Replay, Arrive
<1>3. TypeOK /\ k \in receipts /\ k.key = r.key /\ k.view \in Shown \cup {None}
  BY TypeFacts DEF IInv, Known, Receipt
<1> DEFINE rep == [ok |-> TRUE, view |-> k.view]
<1>4. Answers(r, rep)
  BY <1>1, <1>3, Zenon DEF Answers
<1>5. rep.ok /\ rep.view = k.view
  OBVIOUS
<1> HIDE DEF rep
<1>6. \A w \in Window : WindowOK(w, win[w], session, memories, receipts, net \ {r})
  <2>1. \A w \in Window : WindowOK(w, win[w], session, memories, receipts, net)
    BY DEF IInv
  <2>2. QED  BY <2>1, WindowElse
<1>7. ASSUME NEW w \in Window, win[w].call # None, win[w].call.key = r.key
      PROVE  TrueOf(rep, win[w].call, session, memories, receipts)
  <2>1. CallOK(win[w].call, win[w].queue, session, memories, receipts, net)
    BY <1>7, ArrivedFacts
  <2>2. k.view = None => Saved(win[w].call.request, memories)
    BY <1>3, <1>7, <2>1 DEF CallOK
  <2>3. k.view # None => Dated(k.view, session)
    BY <1>3 DEF IInv
  <2>4. QED  BY <1>5, <2>2, <2>3 DEF TrueOf
<1>8. \A w \in Window : WindowOK(w, win'[w], session, memories, receipts, net \ {r})
  BY <1>3, <1>4, <1>6, <1>7, AnsweredWindows
<1>9. TypeOK'
  BY <1>2, <1>3, <1>4, AnswerFacts DEF TypeOK
<1>10. QED  BY <1>2, <1>8, <1>9 DEF IInv, ObservedOnce

LEMMA RefuseKeeps ==
    ASSUME IInv, NEW r \in net, Refuse(r)
    PROVE  IInv'
<1>1. /\ Answer(r, FALSE, None, FALSE) /\ Known(r) = {}
      /\ net' = net \ {r} /\ UNCHANGED <<scratch, plan>> /\ UNCHANGED <<session, memories, receipts>>
  BY DEF Refuse, Arrive
<1>2. TypeOK
  BY DEF IInv
<1> DEFINE rep == [ok |-> FALSE, view |-> None]
<1>3. Answers(r, rep)
  BY <1>1, Zenon DEF Answers
<1>4. ~rep.ok /\ rep.view = None
  OBVIOUS
<1> HIDE DEF rep
<1>5. Hopeless(r, session, memories)
  <2>1. CASE r.kind # "observe"
    <3>1. After(r) = {} /\ r \in Asking
      BY <2>1, ArrivedFacts DEF Refuse
    <3>2. QED  BY <1>2, <2>1, <3>1, RefusedIsHopeless
  <2>2. CASE r.kind = "observe"
    BY <2>2 DEF Refuse, Hopeless, Prior
  <2>3. QED  BY <2>1, <2>2
<1>6. \A w \in Window : WindowOK(w, win[w], session, memories, receipts, net \ {r})
  <2>1. \A w \in Window : WindowOK(w, win[w], session, memories, receipts, net)
    BY DEF IInv
  <2>2. QED  BY <2>1, WindowElse
<1>7. ASSUME NEW w \in Window, win[w].call # None, win[w].call.key = r.key
      PROVE  TrueOf(rep, win[w].call, session, memories, receipts)
  <2>1. Hopeless(win[w].call.request, session, memories)
    BY <1>5, <1>7, ArrivedFacts
  <2>2. \A k \in receipts : k.key # win[w].call.key
    BY <1>1, <1>7 DEF Known
  <2>3. QED  BY <1>4, <2>1, <2>2 DEF TrueOf
<1>8. \A w \in Window : WindowOK(w, win'[w], session, memories, receipts, net \ {r})
  BY <1>2, <1>3, <1>6, <1>7, AnsweredWindows
<1>9. TypeOK'
  BY <1>1, <1>2, <1>3, AnswerFacts DEF TypeOK
<1>10. QED  BY <1>1, <1>8, <1>9 DEF IInv, ObservedOnce

\* The receipts a carried out request leaves say of it what is true.
LEMMA RememberedWindows ==
    ASSUME IInv, NEW r \in net, NEW view, NEW s, NEW ms, ~Hopeless(r, session, memories),
           view = None => Saved(r, ms),
           \A w \in Window : WindowOK(w, win[w], s, ms, receipts, net)
    PROVE  \A w \in Window :
             WindowOK(w, win[w], s, ms, receipts \cup {[key |-> r.key, view |-> view]}, net \ {r})
<1> SUFFICES ASSUME NEW w \in Window
             PROVE  WindowOK(w, win[w], s, ms, receipts \cup {[key |-> r.key, view |-> view]}, net \ {r})
  OBVIOUS
<1> DEFINE k == [key |-> r.key, view |-> view]
           rs == receipts \cup {k}
           n == net \ {r}
<1>1. ASSUME win[w].call # None, r.key = win[w].call.key
      PROVE  /\ view = None => Saved(win[w].call.request, ms)
             /\ ~(win[w].call.reply # None /\ ~win[w].call.reply.ok)
  <2>1. /\ CallOK(win[w].call, win[w].queue, session, memories, receipts, net)
        /\ Hopeless(r, session, memories) <=> Hopeless(win[w].call.request, session, memories)
        /\ Saved(r, ms) <=> Saved(win[w].call.request, ms)
    BY <1>1, ArrivedFacts
  <2>2. QED  BY <2>1 DEF CallOK
<1>2. win[w].call # None =>
        /\ \A x \in rs : x \in receipts \/ x.key # win[w].call.key
             \/ ((x.view = None => Saved(win[w].call.request, ms))
                   /\ ~(win[w].call.reply # None /\ ~win[w].call.reply.ok))
        /\ \A q \in n : q \in net \/ q.key # win[w].call.key
             \/ q = [win[w].call.request EXCEPT !.attempt = q.attempt]
  BY <1>1
<1>3. WindowOK(w, win[w], s, ms, receipts, net)
  OBVIOUS
<1> HIDE DEF rs, n
<1>4. WindowOK(w, win[w], s, ms, rs, n)
  BY <1>2, <1>3, WindowElse
<1>5. QED  BY <1>4 DEF rs, n

LEMMA ExecuteKeeps ==
    ASSUME IInv, NEW r \in net, Execute(r)
    PROVE  IInv'
<1>1. PICK t \in After(r) : session' = t /\ Remember(r, View(t)) /\ Answer(r, TRUE, View(t), TRUE)
  BY DEF Execute
<1>2. /\ net' = net \ {r} /\ UNCHANGED <<scratch, plan>> /\ UNCHANGED memories
      /\ receipts' = receipts \cup {[key |-> r.key, view |-> View(t)]} /\ r.kind # "observe"
  BY <1>1 DEF Execute, Arrive, Remember
<1>3. TypeOK /\ r \in Asking /\ Behind(r, session) /\ session \in Session \cup {None}
  BY ArrivedFacts, TypeFacts DEF IInv
<1>4. Later(session, t) /\ Kempt(t) /\ ~Hopeless(r, session, memories)
  BY <1>2, <1>3, AfterFacts DEF IInv
<1>5. t \in Session /\ t # None /\ View(t) \in Shown /\ View(t) # None /\ Dated(View(t), t)
  BY <1>4, SessionFacts DEF Later, Dated
<1> DEFINE rep == [ok |-> TRUE, view |-> View(t)]
           k == [key |-> r.key, view |-> View(t)]
           rs == receipts \cup {k}
<1>6. Answers(r, rep)
  BY <1>1, <1>5, Zenon DEF Answers
<1>7. rep.ok /\ rep.view = View(t)
  OBVIOUS
<1> HIDE DEF rep
<1>8. \A w \in Window : WindowOK(w, win[w], t, memories, receipts, net)
  <2>1. \A w \in Window : WindowOK(w, win[w], session, memories, receipts, net) /\ win[w] \in WindowState
    BY <1>3, TypeFacts DEF IInv
  <2>2. QED  BY <1>3, <1>4, <2>1, WindowLater
<1>9. \A w \in Window : WindowOK(w, win[w], t, memories, rs, net \ {r})
  BY <1>4, <1>5, <1>8, RememberedWindows
<1>10. \A w \in Window : TrueOf(rep, win[w].call, t, memories, rs)
  BY <1>5, <1>7 DEF TrueOf
<1> HIDE DEF rs
<1>11. \A w \in Window : WindowOK(w, win'[w], t, memories, rs, net \ {r})
  BY <1>3, <1>6, <1>9, <1>10, AnsweredWindows
<1>12. TypeOK'
  <2>1. win' \in [Window -> WindowState]
    BY <1>3, <1>6, AnswerFacts
  <2>2. k \in Receipt /\ receipts \subseteq Receipt
    BY <1>3, <1>5, TypeFacts, AskingFacts DEF Receipt
  <2>3. QED  BY <1>1, <1>2, <1>3, <1>5, <2>1, <2>2 DEF TypeOK, Receipt
<1>13. \A q \in net' : Behind(q, session')
  <2>1. \A q \in net : q \in Asking /\ Behind(q, session)
    BY ArrivedFacts
  <2>2. QED  BY <1>1, <1>2, <1>3, <1>4, <2>1, BehindLater
<1>14. \A x \in receipts' : x.view # None => Dated(x.view, session')
  <2>1. \A x \in receipts : x.view # None => x.view \in Shown /\ Dated(x.view, session)
    BY <1>3, TypeFacts DEF IInv, Receipt
  <2>2. \A x \in receipts : x.view # None => Dated(x.view, t)
    BY <1>3, <1>4, <2>1, DatedLater
  <2>3. QED  BY <1>1, <1>2, <1>5, <2>2
<1>15. ObservedOnce'
  BY <1>2 DEF IInv, ObservedOnce
<1>16. Kempt(session')
  BY <1>1, <1>4
<1>17. QED  BY <1>1, <1>2, <1>11, <1>12, <1>13, <1>14, <1>15, <1>16 DEF IInv, rs

LEMMA ObserveKeeps ==
    ASSUME IInv, NEW r \in net, Observe(r)
    PROVE  IInv'
<1>1. /\ net' = net \ {r} /\ UNCHANGED <<scratch, plan>> /\ UNCHANGED session
      /\ receipts' = receipts \cup {[key |-> r.key, view |-> None]} /\ r.kind = "observe"
      /\ Answer(r, TRUE, None, FALSE)
  BY DEF Observe, Arrive, Remember
<1>2. /\ TypeOK /\ r \in Asking /\ Behind(r, session) /\ session \in Session \cup {None}
      /\ memories \in Seq(Memory) /\ r.body.text \in Text
  BY <1>1, ArrivedFacts, TypeFacts, AskingFacts DEF IInv, Fits
<1> DEFINE rep == [ok |-> TRUE, view |-> None]
           k == [key |-> r.key, view |-> None]
           rs == receipts \cup {k}
<1>3. Answers(r, rep)
  BY <1>1, Zenon DEF Answers
<1>4. rep.ok /\ rep.view = None
  OBVIOUS
<1> HIDE DEF rep
<1>5. /\ memories' \in Seq(Memory) /\ Saved(r, memories') /\ ~Hopeless(r, session, memories)
      /\ ObservedOnce'
      /\ \A w \in Window : WindowOK(w, win[w], session, memories', receipts, net)
  <2>1. \A w \in Window : WindowOK(w, win[w], session, memories, receipts, net) /\ win[w] \in WindowState
    BY <1>2, TypeFacts DEF IInv
  <2>2. CASE Prior(r) # {}
    <3>1. Saving(r) \in Prior(r) /\ memories' = memories
      BY <2>2 DEF Observe
    <3>2. Saved(r, memories) /\ ~Hopeless(r, session, memories)
      BY <1>1, <2>2, <3>1 DEF Saved, Hopeless, Prior
    <3>3. ObservedOnce'
      BY <3>1 DEF IInv, ObservedOnce
    <3>4. QED  BY <1>2, <2>1, <3>1, <3>2, <3>3
  <2>3. CASE Prior(r) = {}
    <3> DEFINE m == Saving(r)
    <3>1. /\ session # None /\ r.id = session.id /\ memories' = Append(memories, m)
      BY <2>3 DEF Observe
    <3>2. /\ m \in Memory /\ m.text = r.body.text /\ m.session = session.id
      <4>1. r.id \in Nat
        BY <1>2, <3>1, SessionFacts
      <4>2. QED  BY <1>2, <3>1, <4>1 DEF Memory, Saving
    <3>3. \A x \in ToSet(memories) : x.text # m.text
      BY <2>3, <3>2 DEF Prior
    <3> HIDE DEF m
    <3>4. /\ Append(memories, m) \in Seq(Memory) /\ ToSet(Append(memories, m)) = ToSet(memories) \cup {m}
          /\ Len(memories) \in Nat /\ DOMAIN memories = 1 .. Len(memories)
          /\ DOMAIN Append(memories, m) = 1 .. Len(memories) + 1
          /\ \A i \in 1 .. Len(memories) : Append(memories, m)[i] = memories[i]
          /\ Append(memories, m)[Len(memories) + 1] = m
      BY <1>2, <3>2, AppendFacts
    <3>5. Saved(r, memories') /\ ~Hopeless(r, session, memories)
      BY <1>1, <2>3, <3>1, <3>2, <3>4 DEF Saved, Hopeless, Prior
    <3>6. ObservedOnce'
      <4>1. \A i \in 1 .. Len(memories) : memories[i].text # m.text
        BY <3>3, <3>4 DEF ToSet
      <4>2. \A i, j \in 1 .. Len(memories) : memories[i].text = memories[j].text => i = j
        BY <3>4 DEF IInv, ObservedOnce
      <4>3. \A i \in 1 .. Len(memories) + 1 : i \in 1 .. Len(memories) \/ i = Len(memories) + 1
        BY <3>4
      <4>4. QED  BY <3>1, <3>4, <4>1, <4>2, <4>3 DEF ObservedOnce
    <3>7. \A w \in Window : WindowOK(w, win[w], session, Append(memories, m), receipts, net)
      BY <1>2, <2>1, <3>1, <3>2, <3>3, WindowGrown
    <3>8. QED  BY <3>1, <3>4, <3>5, <3>6, <3>7
  <2>4. QED  BY <2>2, <2>3
<1>6. \A w \in Window : WindowOK(w, win[w], session, memories', rs, net \ {r})
  BY <1>5, RememberedWindows
<1>7. ASSUME NEW w \in Window, win[w].call # None, win[w].call.key = r.key
      PROVE  TrueOf(rep, win[w].call, session, memories', rs)
  <2>1. Saved(win[w].call.request, memories')
    BY <1>5, <1>7, ArrivedFacts
  <2>2. QED  BY <1>4, <2>1 DEF TrueOf
<1> HIDE DEF rs
<1>8. \A w \in Window : WindowOK(w, win'[w], session, memories', rs, net \ {r})
  BY <1>2, <1>3, <1>6, <1>7, AnsweredWindows
<1>9. TypeOK'
  <2>1. win' \in [Window -> WindowState]
    BY <1>2, <1>3, AnswerFacts
  <2>2. k \in Receipt /\ receipts \subseteq Receipt
    BY <1>2, TypeFacts, AskingFacts DEF Receipt
  <2>3. QED  BY <1>1, <1>2, <1>5, <2>1, <2>2 DEF TypeOK, Receipt, Memory
<1>10. \A x \in receipts' : x.view # None => Dated(x.view, session')
  BY <1>1 DEF IInv
<1>11. QED  BY <1>1, <1>5, <1>8, <1>9, <1>10 DEF IInv, rs

-----------------------------------------------------------------------------
(* The windows *)

LEMMA ElsewhereKeeps ==
    ASSUME IInv, Elsewhere
    PROVE  IInv'
<1>1. /\ TypeOK /\ session \in Session \cup {None} /\ plan \in Plan
      /\ win \in [Window -> WindowState] /\ \A w \in Window : win[w] \in WindowState
  BY TypeFacts DEF IInv
<1>0. PICK a \in plan.actions : \E s \in Acted(session, a) : session' = [s EXCEPT !.version = @ + 1]
  BY DEF Elsewhere
<1>2. PICK s \in Acted(session, a) : session' = [s EXCEPT !.version = @ + 1]
  BY <1>0
<1>3. session \in Session /\ a \in Action /\ Kempt(session)
  BY <1>1, <1>2 DEF Elsewhere, IInv, Plan
<1>4. Later(session, session') /\ Kempt(session') /\ session' \in Session
  <2>1. s \in Session /\ Kempt(s) /\ s.id = session.id /\ s.version = session.version
    BY <1>2, <1>3, ActedFacts
  <2>2. Later(session, session') /\ Kempt(session')
    BY <1>2, <1>3, <2>1, NextVersion
  <2>3. QED  BY <2>2 DEF Later
<1>5. /\ plan' = [plan EXCEPT !.elsewhere = @ - 1] /\ plan.elsewhere > 0
      /\ win' = [w \in Window |-> [win[w] EXCEPT !.told = w \in plan.windows]]
      /\ UNCHANGED <<memories, receipts, net, scratch>>
  BY DEF Elsewhere
<1>6. plan' \in Plan
  BY <1>1, <1>5 DEF Plan
<1>7. \A w \in Window : /\ win'[w] \in WindowState /\ win'[w].view = win[w].view
                        /\ win'[w].fetched = win[w].fetched /\ win'[w].queue = win[w].queue
                        /\ win'[w].call = win[w].call
  <2> SUFFICES ASSUME NEW w \in Window
               PROVE  /\ win'[w] \in WindowState /\ win'[w].view = win[w].view
                      /\ win'[w].fetched = win[w].fetched /\ win'[w].queue = win[w].queue
                      /\ win'[w].call = win[w].call
    OBVIOUS
  <2> DEFINE b == w \in plan.windows
  <2>1. b \in BOOLEAN /\ win'[w] = [win[w] EXCEPT !.told = b] /\ win[w] \in WindowState
    BY <1>1, <1>5
  <2> HIDE DEF b
  <2>2. QED  BY <2>1 DEF WindowState
<1>8. \A w \in Window : WindowOK(w, win'[w], session', memories, receipts, net)
  <2>1. \A w \in Window : WindowOK(w, win[w], session, memories, receipts, net)
    BY DEF IInv
  <2>2. \A w \in Window : WindowOK(w, win[w], session', memories, receipts, net)
    BY <1>1, <1>4, <2>1, WindowLater
  <2>3. QED  BY <1>7, <2>2 DEF WindowOK
<1>9. TypeOK'
  <2>1. win' \in [Window -> WindowState]
    BY <1>5, <1>7
  <2>2. QED  BY <1>1, <1>4, <1>5, <1>6, <2>1 DEF TypeOK
<1>10. \A q \in net' : Behind(q, session')
  <2>1. \A q \in net : q \in Asking /\ Behind(q, session)
    BY ArrivedFacts
  <2>2. QED  BY <1>1, <1>4, <1>5, <2>1, BehindLater
<1>11. \A x \in receipts' : x.view # None => Dated(x.view, session')
  <2>1. \A x \in receipts : x.view # None => x.view \in Shown /\ Dated(x.view, session)
    BY <1>1, TypeFacts DEF IInv, Receipt
  <2>2. QED  BY <1>1, <1>4, <1>5, <2>1, DatedLater
<1>12. ObservedOnce'
  BY <1>5 DEF IInv, ObservedOnce
<1>13. QED  BY <1>4, <1>5, <1>8, <1>9, <1>10, <1>11, <1>12 DEF IInv

LEMMA LoseKeeps ==
    ASSUME IInv, NEW r \in net, Lose(r)
    PROVE  IInv'
<1>1. net' = net \ {r} /\ UNCHANGED <<session, memories, receipts, win, scratch, plan>>
  BY DEF Lose
<1>2. \A w \in Window : WindowOK(w, win[w], session, memories, receipts, net \ {r})
  <2>1. \A w \in Window : WindowOK(w, win[w], session, memories, receipts, net)
    BY DEF IInv
  <2>2. QED  BY <2>1, WindowElse
<1>3. TypeOK'
  BY <1>1 DEF IInv, TypeOK
<1>4. QED  BY <1>1, <1>2, <1>3 DEF IInv, ObservedOnce

Copies == [id : Nat, version : Nat, draft : Text]

\* What a window does by itself is right when it leaves the window right.
LEMMA SetKeeps ==
    ASSUME IInv, NEW w \in Window, NEW me \in WindowState, Set(w, me), Service, net' = net,
           scratch' \subseteq Copies, plan' \in Plan,
           WindowOK(w, me, session, memories, receipts, net)
    PROVE  IInv'
<1>1. /\ win' = [win EXCEPT ![w] = me] /\ session' = session /\ memories' = memories
      /\ receipts' = receipts
  BY DEF Set, Service
<1>2. TypeOK /\ win \in [Window -> WindowState]
  BY TypeFacts DEF IInv
<1>3. /\ win' \in [Window -> WindowState] /\ win'[w] = me
      /\ \A u \in Window : u # w => win'[u] = win[u]
  BY <1>1, <1>2
<1>4. \A u \in Window : WindowOK(u, win'[u], session, memories, receipts, net)
  BY <1>3 DEF IInv
<1>5. TypeOK'
  BY <1>1, <1>2, <1>3 DEF TypeOK, Copies
<1>6. QED  BY <1>1, <1>4, <1>5 DEF IInv, ObservedOnce

\* A job is put at the end of the queue.
LEMMA QueueFacts ==
    ASSUME NEW w, NEW me \in WindowState, NEW s, NEW ms, NEW rs, NEW n, WindowOK(w, me, s, ms, rs, n),
           NEW j \in Queued, j.id # None => s # None /\ j.id <= s.id
    PROVE  /\ Queue(me, j) \in WindowState /\ WindowOK(w, Queue(me, j), s, ms, rs, n)
           /\ Queue(me, j).draft = me.draft
<1> DEFINE q == me.queue
           p == Append(q, j)
           me2 == Queue(me, j)
<1>1. q \in Seq(Queued)
  BY WindowFacts
<1>2. /\ p \in Seq(Queued) /\ p # <<>> /\ (q # <<>> => Head(p) = Head(q))
      /\ DOMAIN p = 1 .. Len(q) + 1 /\ DOMAIN q = 1 .. Len(q) /\ Len(q) \in Nat
      /\ \A i \in 1 .. Len(q) : p[i] = q[i]
      /\ p[Len(q) + 1] = j
  BY <1>1, AppendFacts
<1> HIDE DEF p
<1>3. me2 = [me EXCEPT !.queue = p]
  BY DEF Queue, p
<1>4. /\ me2 \in WindowState /\ me2.queue = p /\ me2.view = me.view /\ me2.fetched = me.fetched
      /\ me2.call = me.call /\ me2.draft = me.draft
  BY <1>2, <1>3 DEF WindowState
<1> HIDE DEF me2
<1>5. \A i \in DOMAIN p : p[i].id # None => s # None /\ p[i].id <= s.id
  <2>1. \A i \in 1 .. Len(q) : q[i].id # None => s # None /\ q[i].id <= s.id
    BY <1>2 DEF WindowOK
  <2>2. \A i \in DOMAIN p : i \in 1 .. Len(q) \/ i = Len(q) + 1
    BY <1>2
  <2>3. QED  BY <1>2, <2>1, <2>2
<1>6. ASSUME me.call # None PROVE CallOK(me.call, p, s, ms, rs, n)
  BY <1>2, <1>6 DEF CallOK, WindowOK
<1>7. WindowOK(w, me2, s, ms, rs, n)
  BY <1>4, <1>5, <1>6 DEF WindowOK
<1>8. QED  BY <1>4, <1>7 DEF me2

LEMMA EditedFacts ==
    ASSUME NEW w, NEW me \in WindowState, NEW s, NEW ms, NEW rs, NEW n, WindowOK(w, me, s, ms, rs, n),
           NEW text \in Text
    PROVE  Edited(me, text) \in WindowState /\ WindowOK(w, Edited(me, text), s, ms, rs, n)
<1> DEFINE me2 == Edited(me, text)
<1>1. me2 = [me EXCEPT !.draft = text, !.timer = TRUE]
  BY DEF Edited
<1> HIDE DEF me2
<1>2. /\ me2 \in WindowState /\ me2.queue = me.queue /\ me2.view = me.view /\ me2.fetched = me.fetched
      /\ me2.call = me.call
  BY <1>1 DEF WindowState
<1>3. WindowOK(w, me2, s, ms, rs, n)
  BY <1>2 DEF WindowOK
<1>4. QED  BY <1>2, <1>3 DEF me2

\* A job that is done leaves the queue, and nothing is waited for.
LEMMA DoneFacts ==
    ASSUME NEW w, NEW me \in WindowState, NEW s, NEW ms, NEW rs, NEW n, WindowOK(w, me, s, ms, rs, n),
           me.queue # <<>>
    PROVE  /\ Done(me) \in WindowState /\ WindowOK(w, Done(me), s, ms, rs, n)
           /\ Done(me).draft = me.draft
<1> DEFINE q == me.queue
           p == Tail(q)
           a == IF me.ahead = 0 THEN 0 ELSE me.ahead - 1
           me2 == Done(me)
<1>1. q \in Seq(Queued) /\ me.ahead \in Nat
  BY WindowFacts
<1>2. /\ p \in Seq(Queued) /\ Len(p) = Len(q) - 1 /\ Len(q) \in Nat /\ DOMAIN q = 1 .. Len(q)
      /\ \A i \in 1 .. Len(q) - 1 : p[i] = q[i + 1]
  BY <1>1, HeadTailProperties
<1>3. a \in Nat
  BY <1>1
<1> HIDE DEF p, a
<1>4. me2 = [me EXCEPT !.queue = p, !.call = None, !.ahead = a]
  BY DEF Done, p, a
<1> HIDE DEF me2
<1>5. /\ me2 \in WindowState /\ me2.queue = p /\ me2.view = me.view /\ me2.fetched = me.fetched
      /\ me2.call = None /\ me2.draft = me.draft
  BY <1>2, <1>3, <1>4 DEF WindowState
<1>6. \A i \in DOMAIN p : p[i].id # None => s # None /\ p[i].id <= s.id
  <2>1. DOMAIN p = 1 .. Len(q) - 1
    BY <1>2
  <2>2. \A i \in 1 .. Len(q) - 1 : i + 1 \in DOMAIN q
    BY <1>2
  <2>3. QED  BY <1>2, <2>1, <2>2 DEF WindowOK
<1>7. WindowOK(w, me2, s, ms, rs, n)
  BY <1>5, <1>6 DEF WindowOK
<1>8. QED  BY <1>5, <1>7 DEF me2

\* The window that acts.
LEMMA ActingFacts ==
    ASSUME IInv, NEW w \in Window
    PROVE  /\ TypeOK /\ win[w] \in WindowState /\ plan \in Plan /\ scratch \subseteq Copies
           /\ WindowOK(w, win[w], session, memories, receipts, net)
           /\ session \in Session \cup {None}
BY TypeFacts DEF IInv, TypeOK, Copies

LEMMA StashedFacts ==
    ASSUME scratch \subseteq Copies, NEW v \in Shown \cup {None}, NEW draft \in Text
    PROVE  Stashed(v, draft) \subseteq Copies
BY DEF Stashed, Others, Copies, Shown

LEMMA SpendFacts ==
    ASSUME plan \in Plan
    PROVE  /\ Spend("texts") => plan' \in Plan /\ plan'.texts # plan.texts
           /\ Spend("acts") \/ Spend("starts") \/ Spend("saves") \/ Spend("failures") => plan' \in Plan
<1>1. ASSUME Spend("texts") PROVE plan' \in Plan /\ plan'.texts # plan.texts
  <2>1. plan' = [plan EXCEPT !.texts = plan.texts - 1] /\ plan.texts > 0 /\ plan.texts \in Text
    BY <1>1 DEF Spend, Plan
  <2>2. plan.texts - 1 \in Text /\ plan.texts - 1 # plan.texts
    BY <2>1, BoundsAssumption DEF Text
  <2>3. QED  BY <2>1, <2>2 DEF Plan
<1>2. ASSUME Spend("acts") PROVE plan' \in Plan
  BY <1>2 DEF Spend, Plan
<1>3. ASSUME Spend("starts") PROVE plan' \in Plan
  BY <1>3 DEF Spend, Plan
<1>4. ASSUME Spend("saves") PROVE plan' \in Plan
  BY <1>4 DEF Spend, Plan
<1>5. ASSUME Spend("failures") PROVE plan' \in Plan
  BY <1>5 DEF Spend, Plan
<1>6. QED  BY <1>1, <1>2, <1>3, <1>4, <1>5

LEMMA TypeKeeps ==
    ASSUME IInv, NEW w \in Window, Type(w)
    PROVE  IInv'
<1> DEFINE text == Cardinality({t \in Text : t >= plan.texts})
<1>1. PICK t \in {text, Blank} : Set(w, Edited(win[w], t)) /\ scratch' = Stashed(win[w].view, t)
  BY DEF Type
<1>2. /\ TypeOK /\ win[w] \in WindowState /\ plan \in Plan /\ scratch \subseteq Copies
      /\ WindowOK(w, win[w], session, memories, receipts, net) /\ win[w].view \in Shown \cup {None}
  BY ActingFacts, WindowFacts
<1>3. t \in Text
  <2>1. plan.texts \in 0 .. MaxTexts /\ MaxTexts \in Nat /\ plan.texts > 0
    BY <1>2, BoundsAssumption DEF Plan, Text, Type, Spend
  <2>2. {u \in Text : u >= plan.texts} = plan.texts .. MaxTexts
    BY <2>1 DEF Text
  <2>3. Cardinality(plan.texts .. MaxTexts) = MaxTexts - plan.texts + 1
    BY <2>1, FS_Interval
  <2> DEFINE n == plan.texts
  <2>4. text = MaxTexts - n + 1
    BY <2>2, <2>3, Zenon
  <2> HIDE DEF text, n
  <2>6. n \in 0 .. MaxTexts /\ MaxTexts \in Nat /\ n > 0
    BY <2>1 DEF n
  <2>7. text \in 0 .. MaxTexts
    BY <2>4, <2>6
  <2>5. QED  BY <2>1, <2>7 DEF Blank, Text
<1> HIDE DEF text
<1>4. Edited(win[w], t) \in WindowState /\ WindowOK(w, Edited(win[w], t), session, memories, receipts, net)
  BY <1>2, <1>3, EditedFacts
<1>5. plan' \in Plan /\ scratch' \subseteq Copies /\ Service /\ net' = net
  BY <1>1, <1>2, <1>3, SpendFacts, StashedFacts DEF Type
<1>6. QED  BY <1>1, <1>4, <1>5, SetKeeps

\* The jobs a window queues.
LEMMA JobFacts ==
    /\ \A text \in Text : Job("ui", Draft(text), None) \in Queued
    /\ \A a \in Action : Job("act", a, None) \in Queued
    /\ \A mode \in Mode : Job("start", [mode |-> mode], None) \in Queued
    /\ \A text \in Text, id \in Nat : Job("save", Draft(text), id) \in Queued
BY DEF Job, Draft, Queued, Body, Fits

LEMMA TimerKeeps ==
    ASSUME IInv, NEW w \in Window, TimerFires(w)
    PROVE  IInv'
<1> DEFINE me == [win[w] EXCEPT !.timer = FALSE]
           j == Job("ui", Draft(win[w].draft), None)
<1>1. /\ TypeOK /\ win[w] \in WindowState /\ plan \in Plan /\ scratch \subseteq Copies
      /\ WindowOK(w, win[w], session, memories, receipts, net) /\ win[w].draft \in Text
  BY ActingFacts, WindowFacts
<1>2. Set(w, Queue(me, j)) /\ Service /\ net' = net /\ scratch' = scratch /\ plan' = plan
  BY DEF TimerFires
<1>3. /\ me \in WindowState /\ me.queue = win[w].queue /\ me.view = win[w].view
      /\ me.fetched = win[w].fetched /\ me.call = win[w].call
  BY <1>1 DEF WindowState
<1> HIDE DEF me
<1>4. WindowOK(w, me, session, memories, receipts, net)
  BY <1>1, <1>3 DEF WindowOK
<1>5. j \in Queued /\ j.id = None
  BY <1>1, JobFacts DEF Job
<1> HIDE DEF j
<1>6. Queue(me, j) \in WindowState /\ WindowOK(w, Queue(me, j), session, memories, receipts, net)
  BY <1>3, <1>4, <1>5, QueueFacts
<1>7. QED  BY <1>1, <1>2, <1>6, SetKeeps

LEMMA UsersKeep ==
    ASSUME IInv, NEW w \in Window, Act(w) \/ Start(w) \/ Save(w)
    PROVE  IInv'
<1>1. /\ TypeOK /\ win[w] \in WindowState /\ plan \in Plan /\ scratch \subseteq Copies
      /\ WindowOK(w, win[w], session, memories, receipts, net) /\ win[w].draft \in Text
      /\ win[w].view \in Shown \cup {None} /\ session \in Session \cup {None}
  BY ActingFacts, WindowFacts
<1>2. \E j \in Queued : /\ Set(w, Queue(win[w], j))
                        /\ j.id # None => session # None /\ j.id <= session.id
  <2>1. CASE Act(w)
    <3>1. PICK a \in plan.actions : Set(w, Queue(win[w], Job("act", a, None)))
      BY <2>1 DEF Act
    <3>2. a \in Action
      BY <1>1 DEF Plan
    <3>3. Job("act", a, None) \in Queued /\ Job("act", a, None).id = None
      BY <3>2, JobFacts DEF Job
    <3>4. QED  BY <3>1, <3>3
  <2>2. CASE Start(w)
    <3>1. PICK mode \in Mode : Set(w, Queue(win[w], Job("start", [mode |-> mode], None)))
      BY <2>2 DEF Start
    <3>2. Job("start", [mode |-> mode], None) \in Queued /\ Job("start", [mode |-> mode], None).id = None
      BY JobFacts DEF Job
    <3>3. QED  BY <3>1, <3>2
  <2>3. CASE Save(w)
    <3> DEFINE id == win[w].view.id
               j == Job("save", Draft(win[w].draft), id)
    <3>1. Set(w, Queue(win[w], j)) /\ win[w].view # None
      BY <2>3 DEF Save
    <3>2. id \in Nat /\ Dated(win[w].view, session)
      BY <1>1, <3>1 DEF Shown, WindowOK
    <3>3. session # None /\ id <= session.id
      <4>1. session # None /\ session.id \in Nat
        BY <1>1, <3>2, SessionFacts DEF Dated
      <4>2. QED  BY <3>2, <4>1 DEF Dated
    <3> HIDE DEF id
    <3>4. j \in Queued /\ j.id = id
      BY <1>1, <3>2, JobFacts DEF Job, id
    <3> HIDE DEF j
    <3>5. QED  BY <3>1, <3>3, <3>4
  <2>4. QED  BY <2>1, <2>2, <2>3
<1>3. PICK j \in Queued : /\ Set(w, Queue(win[w], j))
                          /\ j.id # None => session # None /\ j.id <= session.id
  BY <1>2
<1>4. /\ Queue(win[w], j) \in WindowState
      /\ WindowOK(w, Queue(win[w], j), session, memories, receipts, net)
  BY <1>1, <1>3, QueueFacts
<1>5. plan' \in Plan /\ scratch' = scratch /\ Service /\ net' = net
  BY <1>1, SpendFacts DEF Act, Start, Save
<1>6. QED  BY <1>1, <1>3, <1>4, <1>5, SetKeeps
-----------------------------------------------------------------------------
(* What a window asks and hears *)

\* A window that asks or gives up is right when that leaves every window
\* right.
LEMMA AskKeeps ==
    ASSUME IInv, NEW w \in Window, NEW me \in WindowState, Set(w, me), session' = session,
           memories' = memories, receipts' \subseteq receipts, net' \subseteq Asking,
           \A r \in net' : Behind(r, session), scratch' = scratch, plan' \in Plan,
           \A u \in Window : u # w => WindowOK(u, win[u], session, memories, receipts', net'),
           WindowOK(w, me, session, memories, receipts', net')
    PROVE  IInv'
<1>1. TypeOK /\ win \in [Window -> WindowState] /\ win' = [win EXCEPT ![w] = me]
  BY TypeFacts DEF IInv, Set
<1>2. /\ win' \in [Window -> WindowState] /\ win'[w] = me
      /\ \A u \in Window : u # w => win'[u] = win[u]
  BY <1>1
<1>3. \A u \in Window : WindowOK(u, win'[u], session, memories, receipts', net')
  BY <1>2
<1>4. TypeOK'
  BY <1>1, <1>2 DEF TypeOK
<1>5. QED  BY <1>3, <1>4 DEF IInv, ObservedOnce

LEMMA KeyFacts ==
    ASSUME NEW w \in Window, FreeKeys(w) # {}
    PROVE  /\ FirstFree(w) \in Key /\ FirstFree(w)[1] = w
           /\ \A r \in net : r.key # FirstFree(w)
<1> DEFINE P(k) == k \in FreeKeys(w) /\ \A other \in FreeKeys(w) : k[2] <= other[2]
<1>1. \A k \in FreeKeys(w) : k = <<w, 1>> \/ k = <<w, 2>>
  BY DEF FreeKeys
<1>2. \E k : P(k)
  <2>1. CASE <<w, 1>> \in FreeKeys(w)
    <3>1. P(<<w, 1>>)
      BY <1>1, <2>1
    <3>2. QED  BY <3>1
  <2>2. CASE <<w, 1>> \notin FreeKeys(w)
    <3>1. P(<<w, 2>>)
      BY <1>1, <2>2
    <3>2. QED  BY <3>1
  <2>3. QED  BY <2>1, <2>2
<1>3. FirstFree(w) \in FreeKeys(w)
  BY <1>2 DEF FirstFree
<1>4. QED  BY <1>1, <1>3 DEF FreeKeys, Key

LEMMA AskedFacts ==
    ASSUME IInv, NEW w \in Window, win[w].queue # <<>>, FreeKeys(w) # {},
           NEW r, r = Asked(w, Head(win[w].queue))
    PROVE  /\ r \in Asking /\ r.key = FirstFree(w) /\ r.attempt = 1 /\ Behind(r, session)
           /\ r.kind = "observe" => r.body = Head(win[w].queue).body
<1> DEFINE me == win[w]
           j == Head(me.queue)
           k == FirstFree(w)
           id == IF me.view = None THEN None ELSE me.view.id
           version == IF me.view = None THEN None ELSE me.view.version
<1>1. /\ me \in WindowState /\ WindowOK(w, me, session, memories, receipts, net)
      /\ session \in Session \cup {None}
  BY ActingFacts
<1>2. j \in Queued /\ 1 \in DOMAIN me.queue /\ j = me.queue[1]
  BY <1>1, WindowFacts, FrontFacts
<1>3. j.id # None => j.id \in Nat /\ session # None /\ j.id <= session.id
  BY <1>1, <1>2 DEF WindowOK, Queued
<1>4. k \in Key /\ k[1] = w
  BY KeyFacts
<1>5. /\ id \in Nat \cup {None} /\ version \in Nat \cup {None}
      /\ id # None => /\ session # None /\ version \in Nat
                      /\ id < session.id \/ (id = session.id /\ version <= session.version)
  <2>1. CASE me.view = None
    BY <2>1
  <2>2. CASE me.view # None
    <3>1. me.view \in Shown /\ Dated(me.view, session)
      BY <1>1, <2>2, WindowFacts DEF WindowOK
    <3>2. /\ id = me.view.id /\ version = me.view.version /\ id \in Nat /\ version \in Nat
          /\ session \in Session /\ session # None
      BY <1>1, <2>2, <3>1 DEF Shown, Dated
    <3>3. /\ session.id \in Nat /\ session.version \in Nat
          /\ View(session).version = session.version
      BY <3>2, SessionFacts
    <3>4. id < session.id \/ (id = session.id /\ version <= session.version)
      BY <3>1, <3>2, <3>3 DEF Dated
    <3>5. QED  BY <3>2, <3>4
  <2>3. QED  BY <2>1, <2>2
<1>6. \/ \E kind \in {"start", "ui", "act"}, body \in Body :
           Fits(kind, body) /\ r = Request(w, k, kind, body, id, version)
      \/ Fits("observe", j.body) /\ j.body \in Body /\ r = Request(w, k, "observe", j.body, j.id, version)
  <2>1. j.body \in Body /\ Fits(j.kind, j.body) /\ j.kind \in {"start", "ui", "act", "save"}
    BY <1>2 DEF Queued
  <2>2. Draft(me.draft) \in Body /\ Fits("ui", Draft(me.draft))
    BY <1>1, WindowFacts DEF Draft, Body, Fits
  <2>3. CASE j.kind = "start"
    <3>1. \/ r = Request(w, k, "ui", Draft(me.draft), id, version)
          \/ r = Request(w, k, "start", j.body, id, version)
      BY <2>3 DEF Asked
    <3>2. QED  BY <2>1, <2>2, <2>3, <3>1
  <2>4. CASE j.kind = "save"
    <3>1. \/ r = Request(w, k, "observe", j.body, j.id, version)
          \/ r = Request(w, k, "ui", j.body, id, version)
      BY <2>4 DEF Asked
    <3>2. Fits("ui", j.body) /\ Fits("observe", j.body)
      BY <2>1, <2>4 DEF Fits
    <3>3. QED  BY <2>1, <3>1, <3>2
  <2>5. CASE j.kind = "ui"
    <3>1. r = Request(w, k, "ui", j.body, id, version)
      BY <2>5 DEF Asked
    <3>2. QED  BY <2>1, <2>5, <3>1
  <2>6. CASE j.kind = "act"
    <3>1. r = Request(w, k, "act", j.body, id, version)
      BY <2>6 DEF Asked
    <3>2. QED  BY <2>1, <2>6, <3>1
  <2>7. QED  BY <2>1, <2>3, <2>4, <2>5, <2>6
<1> HIDE DEF id, version, k, j
<1>7. CASE \E kind \in {"start", "ui", "act"}, body \in Body :
             Fits(kind, body) /\ r = Request(w, k, kind, body, id, version)
  <2>1. PICK kind \in {"start", "ui", "act"}, body \in Body :
           Fits(kind, body) /\ r = Request(w, k, kind, body, id, version)
    BY <1>7
  <2>2. /\ r \in Asking /\ r.key = k /\ r.attempt = 1 /\ r.kind # "observe"
        /\ r.id = id /\ r.version = version
    BY <1>4, <1>5, <2>1 DEF Request, Asking
  <2>3. Behind(r, session)
    BY <1>5, <2>2 DEF Behind
  <2>4. QED  BY <2>2, <2>3 DEF k
<1>8. CASE Fits("observe", j.body) /\ j.body \in Body /\ r = Request(w, k, "observe", j.body, j.id, version)
  <2>1. j.id \in Nat \cup {None}
    BY <1>2 DEF Queued
  <2>2. /\ r \in Asking /\ r.key = k /\ r.attempt = 1 /\ r.kind = "observe" /\ r.body = j.body
        /\ r.id = j.id
    BY <1>4, <1>5, <1>8, <2>1 DEF Request, Asking
  <2>3. j.id # None => j.id < session.id \/ j.id = session.id
    <3>1. j.id # None => session \in Session /\ session.id \in Nat
      BY <1>1, <1>3, SessionFacts
    <3>2. QED  BY <1>3, <3>1
  <2>4. Behind(r, session)
    BY <1>3, <2>2, <2>3 DEF Behind
  <2>5. QED  BY <2>2, <2>4 DEF k, j
<1>9. QED  BY <1>6, <1>7, <1>8

\* Nothing but its progress changes in the job at the head of the queue.
LEMMA HeadFacts ==
    ASSUME NEW q \in Seq(Queued), q # <<>>, NEW n \in {1, 2}, NEW p, p = [q EXCEPT ![1].next = n]
    PROVE  /\ p \in Seq(Queued) /\ p # <<>> /\ DOMAIN p = DOMAIN q
           /\ Head(p).body = Head(q).body /\ \A i \in DOMAIN q : p[i].id = q[i].id
<1>1. /\ Len(q) \in Nat /\ DOMAIN q = 1 .. Len(q) /\ 1 \in DOMAIN q /\ Head(q) = q[1]
      /\ \A i \in DOMAIN q : q[i] \in Queued
  BY FrontFacts
<1> DEFINE j == [q[1] EXCEPT !.next = n]
<1>2. j \in Queued /\ j.id = q[1].id /\ j.body = q[1].body
  BY <1>1 DEF Queued
<1>3. p = [q EXCEPT ![1] = j]
  OBVIOUS
<1> HIDE DEF j
<1>4. p \in Seq(Queued) /\ Len(p) = Len(q)
  BY <1>1, <1>2, <1>3, ExceptSeq
<1>5. DOMAIN p = DOMAIN q /\ p[1] = j /\ \A i \in DOMAIN q : i # 1 => p[i] = q[i]
  BY <1>1, <1>3
<1>6. p # <<>>
  BY <1>1, <1>4, EmptySeq
<1>7. Head(p) = p[1]
  BY <1>4, <1>6, FrontFacts
<1>8. QED  BY <1>1, <1>2, <1>4, <1>5, <1>6, <1>7
LEMMA SendKeeps ==
    ASSUME IInv, NEW w \in Window, Send(w)
    PROVE  IInv'
<1> DEFINE me == win[w]
           q == me.queue
           r == Asked(w, Head(q))
           begun == IF r.kind = "start" THEN 2 ELSE Head(q).next
           p == [q EXCEPT ![1].next = begun]
           c == [key |-> r.key, attempt |-> 1, request |-> r, reply |-> None]
           timer == me.timer /\ Head(q).kind # "start"
           me2 == [me EXCEPT !.call = c, !.queue = p, !.timer = timer]
           n == net \cup {r}
<1>1. /\ q # <<>> /\ FreeKeys(w) # {} /\ Set(w, me2) /\ net' = n
      /\ receipts' = {k \in receipts : \E x \in net : x.key = k.key}
      /\ UNCHANGED <<session, memories, scratch, plan>>
  BY DEF Send
<1>2. /\ TypeOK /\ me \in WindowState /\ plan \in Plan /\ net \subseteq Asking /\ q \in Seq(Queued)
      /\ WindowOK(w, me, session, memories, receipts, net) /\ me.timer \in BOOLEAN
  BY ActingFacts, WindowFacts, TypeFacts
<1>3. /\ r \in Asking /\ r.key = FirstFree(w) /\ r.attempt = 1 /\ Behind(r, session)
      /\ r.kind = "observe" => r.body = Head(q).body
  BY <1>1, AskedFacts
<1>4. r.key \in Key /\ r.key[1] = w /\ \A x \in net : x.key # r.key
  BY <1>1, <1>3, KeyFacts
<1>5. begun \in {1, 2}
  BY <1>1, <1>2, FrontFacts DEF Queued
<1> HIDE DEF begun
<1>15. p = [q EXCEPT ![1].next = begun]
  OBVIOUS
<1> HIDE DEF p
<1>6. /\ p \in Seq(Queued) /\ p # <<>> /\ DOMAIN p = DOMAIN q
      /\ Head(p).body = Head(q).body /\ \A i \in DOMAIN q : p[i].id = q[i].id
  BY <1>1, <1>2, <1>5, <1>15, HeadFacts
<1> HIDE DEF r
<1>7. c \in Call /\ c.key = r.key /\ c.request = r /\ c.reply = None
  BY <1>3, <1>4 DEF Call
<1> HIDE DEF c
<1>8. timer \in BOOLEAN
  OBVIOUS
<1> HIDE DEF timer
<1>9. /\ me2 \in WindowState /\ me2.view = me.view /\ me2.fetched = me.fetched
      /\ me2.queue = p /\ me2.call = c
  BY <1>2, <1>6, <1>7, <1>8 DEF WindowState
<1> HIDE DEF me2
<1>10. \A u \in Window : u # w => WindowOK(u, win[u], session, memories, receipts', n)
  <2> SUFFICES ASSUME NEW u \in Window, u # w
               PROVE  WindowOK(u, win[u], session, memories, receipts', n)
    OBVIOUS
  <2>1. WindowOK(u, win[u], session, memories, receipts, net)
    BY DEF IInv
  <2>2. win[u].call # None => r.key # win[u].call.key
    BY <1>4, <2>1 DEF WindowOK
  <2>3. \A k \in receipts' : k \in receipts
    BY <1>1
  <2>4. QED  BY <2>1, <2>2, <2>3, WindowElse
<1>11. CallOK(c, p, session, memories, receipts', n)
  <2>1. \A x \in n : x.key = c.key => x = [c.request EXCEPT !.attempt = x.attempt]
    <3>1. r = [r EXCEPT !.attempt = r.attempt]
      BY <1>3 DEF Asking
    <3>2. QED  BY <1>4, <1>7, <3>1
  <2>2. \A k \in receipts' : k.key # c.key
    BY <1>1, <1>4, <1>7
  <2>3. QED  BY <1>3, <1>6, <1>7, <2>1, <2>2 DEF CallOK
<1>12. WindowOK(w, me2, session, memories, receipts', n)
  BY <1>2, <1>4, <1>6, <1>7, <1>9, <1>11 DEF WindowOK
<1>13. receipts' \subseteq receipts /\ n \subseteq Asking /\ \A x \in n : Behind(x, session)
  BY <1>1, <1>2, <1>3 DEF IInv
<1>14. QED  BY <1>1, <1>2, <1>9, <1>10, <1>12, <1>13, AskKeeps

LEMMA BreakKeeps ==
    ASSUME IInv, NEW w \in Window, Break(w)
    PROVE  IInv'
<1> DEFINE me == win[w]
           c == me.call
           again == [c.request EXCEPT !.attempt = 2]
           n == net \cup {again}
<1>1. /\ c # None /\ Service /\ plan' \in Plan /\ scratch' = scratch
      /\ \/ c.attempt = 1 /\ Set(w, [me EXCEPT !.call.attempt = 2]) /\ net' = n
         \/ Set(w, Done(me)) /\ net' = net
  BY ActingFacts, SpendFacts DEF Break
<1>2. /\ TypeOK /\ me \in WindowState /\ net \subseteq Asking /\ scratch \subseteq Copies
      /\ WindowOK(w, me, session, memories, receipts, net)
  BY ActingFacts, TypeFacts
<1>3. CallOK(c, me.queue, session, memories, receipts, net) /\ c.key[1] = w /\ me.queue # <<>>
  BY <1>1, <1>2 DEF WindowOK, CallOK
<1>4. CASE Set(w, Done(me)) /\ net' = net
  <2>1. Done(me) \in WindowState /\ WindowOK(w, Done(me), session, memories, receipts, net)
    BY <1>2, <1>3, DoneFacts
  <2>2. QED  BY <1>1, <1>2, <1>4, <2>1, SetKeeps
<1>5. CASE c.attempt = 1 /\ Set(w, [me EXCEPT !.call.attempt = 2]) /\ net' = n
  <2> DEFINE d == [c EXCEPT !.attempt = 2]
             me2 == [me EXCEPT !.call = d]
  <2>1. c \in Call /\ c.request \in Asking
    BY <1>1, <1>2, WindowFacts, CallFacts
  <2>2. /\ again \in Asking /\ again.key = c.request.key /\ again.attempt = 2
        /\ Behind(again, session) <=> Behind(c.request, session)
    <3>1. again \in Asking /\ again = [c.request EXCEPT !.attempt = again.attempt] /\ again.attempt = 2
      BY <2>1 DEF Asking
    <3>2. QED  BY <2>1, <3>1, SameAsking
  <2>3. Set(w, me2)
    BY <1>2, <1>5 DEF WindowState
  <2>4. d \in Call /\ d.key = c.key /\ d.request = c.request /\ d.reply = c.reply
    BY <2>1 DEF Call
  <2>5. \A x \in n : x \in net \/ x.key # c.key \/ x = [c.request EXCEPT !.attempt = x.attempt]
    BY <2>2
  <2>6. again.key = c.key /\ Behind(again, session)
    BY <1>3, <2>2 DEF CallOK
  <2> HIDE DEF again, n
  <2>7. WindowOK(w, me, session, memories, receipts, n)
    <3>1. \A x \in receipts : x \in receipts
      OBVIOUS
    <3>2. QED  BY <1>2, <2>5, <3>1, WindowElse
  <2> HIDE DEF d
  <2>8. /\ me2 \in WindowState /\ me2.view = me.view /\ me2.fetched = me.fetched
        /\ me2.queue = me.queue /\ me2.call = d
    BY <1>2, <2>4 DEF WindowState
  <2> HIDE DEF me2
  <2>9. WindowOK(w, me2, session, memories, receipts, n)
    <3>1. CallOK(c, me.queue, session, memories, receipts, n)
      BY <1>1, <2>7 DEF WindowOK
    <3>2. CallOK(d, me.queue, session, memories, receipts, n)
      BY <2>4, <3>1 DEF CallOK
    <3>3. QED  BY <1>3, <2>4, <2>7, <2>8, <3>2 DEF WindowOK
  <2>10. \A u \in Window : u # w => WindowOK(u, win[u], session, memories, receipts, n)
    <3> SUFFICES ASSUME NEW u \in Window, u # w
                 PROVE  WindowOK(u, win[u], session, memories, receipts, n)
      OBVIOUS
    <3>1. WindowOK(u, win[u], session, memories, receipts, net)
      BY DEF IInv
    <3>2. win[u].call # None => again.key # win[u].call.key
      BY <1>3, <2>6, <3>1 DEF WindowOK
    <3>3. \A x \in receipts : x \in receipts
      OBVIOUS
    <3>4. QED  BY <3>1, <3>2, <3>3, WindowElse DEF n
  <2>11. n \subseteq Asking /\ \A x \in n : Behind(x, session)
    BY <1>2, <2>2, <2>6 DEF n, IInv, again
  <2>12. receipts' = receipts /\ session' = session /\ memories' = memories
    BY <1>1 DEF Service
  <2>13. net' = n
    BY <1>5 DEF n
  <2>14. QED  BY <1>1, <2>3, <2>8, <2>9, <2>10, <2>11, <2>12, <2>13, AskKeeps
<1>6. QED  BY <1>1, <1>4, <1>5

LEMMA FailedKeeps ==
    ASSUME IInv, NEW w \in Window, Failed(w)
    PROVE  IInv'
<1>1. /\ win[w].call # None /\ Set(w, Done(win[w])) /\ Service
      /\ net' = net /\ scratch' = scratch /\ plan' = plan
  BY DEF Failed, Got
<1>2. /\ win[w] \in WindowState /\ plan \in Plan /\ scratch \subseteq Copies
      /\ WindowOK(w, win[w], session, memories, receipts, net)
  BY ActingFacts
<1>3. win[w].queue # <<>>
  BY <1>1, <1>2 DEF WindowOK, CallOK
<1>4. Done(win[w]) \in WindowState /\ WindowOK(w, Done(win[w]), session, memories, receipts, net)
  BY <1>2, <1>3, DoneFacts
<1>5. QED  BY <1>1, <1>2, <1>4, SetKeeps

\* A window may show what it is answered.
LEMMA AppliedKeeps ==
    ASSUME IInv, NEW w \in Window, Applied(w)
    PROVE  IInv'
<1> DEFINE me == win[w]
           c == me.call
           v == c.reply.view
           q == me.queue
           j == Head(q)
           now == [me EXCEPT !.view = v]
           p == [q EXCEPT ![1].next = 2]
           going == [now EXCEPT !.queue = p, !.call = None]
           begun == [Done(now) EXCEPT !.draft = v.draft]
<1>1. /\ c # None /\ c.reply # None /\ v # None /\ Service /\ net' = net /\ plan' = plan
      /\ scratch' \subseteq Stashed(v, Kept(me, v))
  BY DEF Applied, Got
<1>2. Set(w, going) \/ Set(w, begun) \/ Set(w, Done(now))
  BY DEF Applied
<1>3. /\ me \in WindowState /\ plan \in Plan /\ scratch \subseteq Copies /\ me.draft \in Text
      /\ q \in Seq(Queued) /\ WindowOK(w, me, session, memories, receipts, net)
  BY ActingFacts, WindowFacts
<1>4. c \in Call /\ CallOK(c, q, session, memories, receipts, net)
  BY <1>1, <1>3, WindowFacts DEF WindowOK
<1>5. v \in Shown /\ Dated(v, session) /\ q # <<>> /\ v.draft \in Text
  BY <1>1, <1>4, CallFacts DEF CallOK, Shown
<1> HIDE DEF v
<1>6. /\ now \in WindowState /\ now.view = v /\ now.fetched = me.fetched
      /\ now.queue = q /\ now.call = c /\ now.draft = me.draft
  BY <1>3, <1>5 DEF WindowState
<1> HIDE DEF now
<1>7. WindowOK(w, now, session, memories, receipts, net)
  BY <1>3, <1>5, <1>6 DEF WindowOK
<1>15. \E n \in {1, 2} : p = [q EXCEPT ![1].next = n]
  OBVIOUS
<1> HIDE DEF p
<1>8. /\ p \in Seq(Queued) /\ p # <<>> /\ DOMAIN p = DOMAIN q
      /\ \A i \in DOMAIN q : p[i].id = q[i].id
  BY <1>3, <1>5, <1>15, HeadFacts
<1>9. going \in WindowState /\ WindowOK(w, going, session, memories, receipts, net)
  <2>1. /\ going \in WindowState /\ going.view = now.view /\ going.fetched = now.fetched
        /\ going.queue = p /\ going.call = None
    BY <1>6, <1>8 DEF WindowState
  <2> HIDE DEF going
  <2>2. QED  BY <1>6, <1>7, <1>8, <2>1 DEF WindowOK
<1>10. Done(now) \in WindowState /\ WindowOK(w, Done(now), session, memories, receipts, net)
  BY <1>5, <1>6, <1>7, DoneFacts
<1>11. begun \in WindowState /\ WindowOK(w, begun, session, memories, receipts, net)
  <2> DEFINE d == Done(now)
  <2>1. d \in WindowState /\ WindowOK(w, d, session, memories, receipts, net)
    BY <1>10
  <2> HIDE DEF d
  <2>2. begun = [d EXCEPT !.draft = v.draft]
    BY DEF d
  <2> HIDE DEF begun
  <2>3. /\ begun \in WindowState /\ begun.view = d.view /\ begun.fetched = d.fetched
        /\ begun.queue = d.queue /\ begun.call = d.call
    BY <1>5, <2>1, <2>2 DEF WindowState
  <2>4. QED  BY <2>1, <2>3 DEF WindowOK
<1> HIDE DEF going, begun
<1>12. PICK to \in WindowState : Set(w, to) /\ WindowOK(w, to, session, memories, receipts, net)
  BY <1>2, <1>9, <1>10, <1>11
<1>13. scratch' \subseteq Copies
  <2>1. Kept(me, v) \in Text
    BY <1>3, <1>5 DEF Kept
  <2>2. Stashed(v, Kept(me, v)) \subseteq Copies
    BY <1>3, <1>5, <2>1, StashedFacts
  <2>3. QED  BY <1>1, <2>2 DEF v
<1>14. QED  BY <1>1, <1>3, <1>12, <1>13, SetKeeps

LEMMA ObservedKeeps ==
    ASSUME IInv, NEW w \in Window, Observed(w)
    PROVE  IInv'
<1> DEFINE me == win[w]
<1>1. /\ me.call # None /\ Service /\ net' = net /\ plan' = plan
      /\ \/ Set(w, Edited(Done(me), Blank)) /\ scratch' = Stashed(me.view, Blank)
         \/ Set(w, Done(me)) /\ scratch' = scratch
  BY DEF Observed, Got
<1>2. /\ me \in WindowState /\ plan \in Plan /\ scratch \subseteq Copies
      /\ WindowOK(w, me, session, memories, receipts, net) /\ me.view \in Shown \cup {None}
  BY ActingFacts, WindowFacts
<1>3. me.queue # <<>>
  BY <1>1, <1>2 DEF WindowOK, CallOK
<1>4. Done(me) \in WindowState /\ WindowOK(w, Done(me), session, memories, receipts, net)
  BY <1>2, <1>3, DoneFacts
<1>5. Blank \in Text
  BY BoundsAssumption DEF Blank, Text
<1>6. /\ Edited(Done(me), Blank) \in WindowState
      /\ WindowOK(w, Edited(Done(me), Blank), session, memories, receipts, net)
  BY <1>4, <1>5, EditedFacts
<1>7. Stashed(me.view, Blank) \subseteq Copies
  BY <1>2, <1>5, StashedFacts
<1>8. QED  BY <1>1, <1>2, <1>4, <1>6, <1>7, SetKeeps

LEMMA NotifyKeeps ==
    ASSUME IInv, NEW w \in Window, Notify(w)
    PROVE  IInv'
<1> DEFINE me == win[w]
           l == Len(me.queue)
           me2 == [me EXCEPT !.told = FALSE, !.reload = "due", !.ahead = l, !.fetched = None]
<1>1. Set(w, me2) /\ Service /\ net' = net /\ scratch' = scratch /\ plan' = plan
  BY DEF Notify
<1>2. /\ me \in WindowState /\ plan \in Plan /\ scratch \subseteq Copies
      /\ WindowOK(w, me, session, memories, receipts, net) /\ me.queue \in Seq(Queued)
  BY ActingFacts, WindowFacts
<1>3. l \in Nat
  BY <1>2
<1> HIDE DEF l
<1>4. /\ me2 \in WindowState /\ me2.view = me.view /\ me2.fetched = None
      /\ me2.queue = me.queue /\ me2.call = me.call
  BY <1>2, <1>3 DEF WindowState
<1> HIDE DEF me2
<1>5. WindowOK(w, me2, session, memories, receipts, net)
  BY <1>2, <1>4 DEF WindowOK
<1>6. QED  BY <1>1, <1>2, <1>4, <1>5, SetKeeps

LEMMA FetchKeeps ==
    ASSUME IInv, NEW w \in Window, Fetch(w)
    PROVE  IInv'
<1> DEFINE me == win[w]
           v == View(session)
           me2 == [me EXCEPT !.reload = "fetched", !.fetched = v]
<1>1. Set(w, me2) /\ Service /\ net' = net /\ scratch' = scratch /\ plan' = plan
  BY DEF Fetch
<1>2. /\ me \in WindowState /\ plan \in Plan /\ scratch \subseteq Copies
      /\ WindowOK(w, me, session, memories, receipts, net) /\ session \in Session \cup {None}
  BY ActingFacts
<1>3. v = None \/ (v \in Shown /\ Dated(v, session))
  BY <1>2, SessionFacts DEF View, Dated
<1> HIDE DEF v
<1>4. /\ me2 \in WindowState /\ me2.view = me.view /\ me2.fetched = v
      /\ me2.queue = me.queue /\ me2.call = me.call
  BY <1>2, <1>3 DEF WindowState
<1> HIDE DEF me2
<1>5. WindowOK(w, me2, session, memories, receipts, net)
  BY <1>2, <1>3, <1>4 DEF WindowOK
<1>6. QED  BY <1>1, <1>2, <1>4, <1>5, SetKeeps

\* A reload keeps the text that is being typed.
LEMMA RecoveredFacts ==
    ASSUME NEW me \in WindowState, NEW v \in Shown, scratch \subseteq Copies
    PROVE  Recovered(me, v) \in Text /\ (me.draft # Blank => Recovered(me, v) = me.draft)
<1>1. me.draft \in Text /\ v.draft \in Text
  BY WindowFacts DEF Shown
<1>2. Stash(v) \subseteq Text
  BY DEF Stash, Copies
<1>3. Stash(v) # {} => (CHOOSE d \in Stash(v) : TRUE) \in Text
  BY <1>2
<1>4. QED  BY <1>1, <1>3 DEF Recovered

LEMMA ReloadedKeeps ==
    ASSUME IInv, NEW w \in Window, Reloaded(w)
    PROVE  IInv'
<1> DEFINE me == win[w]
           v == me.fetched
           now == [me EXCEPT !.view = v, !.reload = "no", !.fetched = None]
           draft == Recovered(me, v)
           shown == [now EXCEPT !.draft = draft]
           j == Job("ui", Draft(draft), None)
<1>1. /\ Service /\ net' = net /\ scratch' = scratch /\ plan' = plan
      /\ \/ v = None /\ Set(w, now)
         \/ v # None /\ (Set(w, shown) \/ Set(w, Queue(shown, j)))
  BY DEF Reloaded
<1>2. /\ me \in WindowState /\ plan \in Plan /\ scratch \subseteq Copies
      /\ WindowOK(w, me, session, memories, receipts, net) /\ v \in Shown \cup {None}
  BY ActingFacts, WindowFacts
<1>3. v # None => Dated(v, session)
  BY <1>2 DEF WindowOK
<1> HIDE DEF v
<1>4. /\ now \in WindowState /\ now.view = v /\ now.fetched = None
      /\ now.queue = me.queue /\ now.call = me.call
  BY <1>2 DEF WindowState
<1> HIDE DEF now
<1>5. WindowOK(w, now, session, memories, receipts, net)
  BY <1>2, <1>3, <1>4 DEF WindowOK
<1>6. CASE v = None /\ Set(w, now)
  BY <1>1, <1>2, <1>4, <1>5, <1>6, SetKeeps
<1>7. CASE v # None /\ (Set(w, shown) \/ Set(w, Queue(shown, j)))
  <2>1. draft \in Text
    BY <1>2, <1>7, RecoveredFacts
  <2>2. j \in Queued /\ j.id = None
    BY <2>1, JobFacts DEF Job
  <2> HIDE DEF draft, j
  <2>3. /\ shown \in WindowState /\ shown.view = now.view /\ shown.fetched = now.fetched
        /\ shown.queue = now.queue /\ shown.call = now.call
    BY <1>4, <2>1 DEF WindowState
  <2> HIDE DEF shown
  <2>4. WindowOK(w, shown, session, memories, receipts, net)
    BY <1>5, <2>3 DEF WindowOK
  <2>5. Queue(shown, j) \in WindowState /\ WindowOK(w, Queue(shown, j), session, memories, receipts, net)
    BY <2>2, <2>3, <2>4, QueueFacts
  <2>6. QED  BY <1>1, <1>2, <1>7, <2>3, <2>4, <2>5, SetKeeps
<1>8. QED  BY <1>1, <1>6, <1>7

-----------------------------------------------------------------------------
(* The theorems *)

LEMMA OpenedFacts ==
    ASSUME Init
    PROVE  IInv
<1>1. /\ plan \in Plan /\ memories = <<>> /\ receipts = {} /\ net = {} /\ scratch = {}
      /\ win = [w \in Window |-> Opened]
  BY PlansAssumption DEF Init
<1>2. <<>> \in Seq(Memory) /\ <<>> \in Seq(Queued) /\ <<>> \in Seq(Frame) /\ DOMAIN <<>> = {}
      /\ ToSet(<<>>) = {} /\ Len(<<>>) = 0
  BY DEF ToSet
<1>3. Blank \in Text
  BY BoundsAssumption DEF Blank, Text
<1>4. Opened \in WindowState
  BY <1>2, <1>3 DEF Opened, WindowState
<1>5. session \in Session \cup {None} /\ (session # None => Kempt(session))
  <2>1. CASE session = None
    BY <2>1
  <2>2. CASE session # None
    <3>1. PICK f \in Deals("practice") :
             session = [id |-> 0, version |-> 0, frame |-> f, past |-> <<>>, future |-> <<>>, draft |-> Blank]
      BY <2>2 DEF Init
    <3>2. FrameOK(f) /\ f \in Frame
      <4>1. FrameOK(f)
        BY DealFacts DEF Mode
      <4>2. QED  BY <4>1 DEF FrameOK, Laid
    <3>3. session \in Session /\ session.frame = f /\ session.past = <<>> /\ session.future = <<>>
      BY <1>2, <1>3, <3>1, <3>2 DEF Session
    <3>4. Frames(session) = {f}
      BY <1>2, <3>3 DEF Frames
    <3>5. Len(session.past) + Len(session.future) <= MaxPast
      BY <1>2, <3>3, BoundsAssumption
    <3>6. QED  BY <3>2, <3>3, <3>4, <3>5 DEF Kempt
  <2>3. QED  BY <2>1, <2>2
<1>6. \A w \in Window : WindowOK(w, win[w], session, memories, receipts, net)
  <2> SUFFICES ASSUME NEW w \in Window PROVE WindowOK(w, win[w], session, memories, receipts, net)
    OBVIOUS
  <2>1. win[w].view = None /\ win[w].fetched = None /\ win[w].queue = <<>> /\ win[w].call = None
    BY <1>1 DEF Opened
  <2>2. QED  BY <1>2, <2>1 DEF WindowOK
<1>7. TypeOK
  BY <1>1, <1>2, <1>4, <1>5 DEF TypeOK, Memory
<1>8. ObservedOnce
  BY <1>1, <1>2 DEF ObservedOnce
<1>9. QED  BY <1>1, <1>5, <1>6, <1>7, <1>8 DEF IInv

LEMMA StepKeeps ==
    ASSUME IInv, [Next]_vars
    PROVE  IInv'
<1>1. CASE UNCHANGED vars
  BY <1>1 DEF vars, IInv, TypeOK, ObservedOnce
<1>2. CASE Elsewhere
  BY <1>2, ElsewhereKeeps
<1>3. ASSUME NEW r \in net, Serve(r) \/ Lose(r) PROVE IInv'
  <2>1. CASE Replay(r)
    BY <2>1, ReplayKeeps
  <2>2. CASE Execute(r)
    BY <2>2, ExecuteKeeps
  <2>3. CASE Observe(r)
    BY <2>3, ObserveKeeps
  <2>4. CASE Refuse(r)
    BY <2>4, RefuseKeeps
  <2>5. CASE Lose(r)
    BY <2>5, LoseKeeps
  <2>6. QED  BY <1>3, <2>1, <2>2, <2>3, <2>4, <2>5 DEF Serve
<1>4. ASSUME NEW w \in plan.windows, Users(w) \/ Browser(w) \/ Break(w) PROVE IInv'
  <2>1. w \in Window
    BY TypeFacts DEF IInv, Plan
  <2>2. CASE Users(w)
    BY <2>1, <2>2, TypeKeeps, UsersKeep DEF Users
  <2>3. CASE Break(w)
    BY <2>1, <2>3, BreakKeeps
  <2>4. CASE Browser(w)
    BY <2>1, <2>4, TimerKeeps, SendKeeps, FailedKeeps, AppliedKeeps, ObservedKeeps, NotifyKeeps,
       FetchKeeps, ReloadedKeeps DEF Browser
  <2>5. QED  BY <1>4, <2>2, <2>3, <2>4
<1>5. QED  BY <1>1, <1>2, <1>3, <1>4 DEF Next

\* The invariant is inductive: of the service, the network and the windows, every step leaves every
\* frame lying right, every view dated, and every answer true.
THEOREM PlaytestInvariance == Spec => []IInv
<1>1. Init => IInv
  BY OpenedFacts
<1>2. IInv /\ [Next]_vars => IInv'
  BY StepKeeps
<1>3. QED  BY <1>1, <1>2, PTL DEF Spec

\* Whatever is moved, attached, copied, removed, mulliganed, undone and redone, read() finds every
\* stored frame whole: each object in one place, attachments on the battlefield, a history that fits.
THEOREM TablesStayReadable == Spec => []StoredCanBeRead
<1>1. IInv => StoredCanBeRead
  <2> SUFFICES ASSUME IInv, session # None
               PROVE  /\ \A f \in Frames(session) : Readable(f)
                      /\ Len(session.past) <= MaxPast /\ Len(session.future) <= MaxPast
    BY DEF StoredCanBeRead
  <2>1. session \in Session /\ Kempt(session)
    BY TypeFacts DEF IInv
  <2>2. ASSUME NEW f \in Frames(session) PROVE Readable(f)
    <3>1. Laid(f)
      BY <2>1, <2>2 DEF Kempt, FrameOK
    <3>2. \A z \in Zone : On(f, z) \subseteq Object
      BY <3>1, FrameFacts DEF Laid
    <3>3. InGame(f) \subseteq Object
      BY <3>2 DEF InGame
    <3>4. QED  BY <3>1, <3>3 DEF Laid, Readable
  <2>3. Len(session.past) <= MaxPast /\ Len(session.future) <= MaxPast
    <3>1. /\ Len(session.past) \in Nat /\ Len(session.future) \in Nat /\ MaxPast \in Nat
          /\ Len(session.past) + Len(session.future) <= MaxPast
      BY <2>1, SessionFacts, LenProperties, BoundsAssumption DEF Kempt
    <3>2. \A a, b, n \in Nat : a + b <= n => a <= n /\ b <= n
      OBVIOUS
    <3>3. QED  BY <3>1, <3>2
  <2>4. QED  BY <2>2, <2>3
<1>2. QED  BY <1>1, PlaytestInvariance, PTL

\* A session id and a version name one table, in every window, in every answer under way and in
\* every receipt: the check a write has to pass can not mistake an old table for the present one.
THEOREM VersionsNameTables == Spec => []VersionNamesTable
<1>1. IInv => VersionNamesTable
  <2> SUFFICES ASSUME IInv, NEW v \in Snapshots, session # None, v.id = session.id,
                      v.version = session.version
               PROVE  v = View(session)
    BY DEF VersionNamesTable
  <2>1. v # None /\ Dated(v, session)
    <3>1. \A w \in Window : WindowOK(w, win[w], session, memories, receipts, net)
      BY DEF IInv
    <3>2. CASE v \in UNION {{win[w].view, win[w].fetched} : w \in Window}
      <4>1. PICK w \in Window : v \in {win[w].view, win[w].fetched}
        BY <3>2
      <4>2. QED  BY <3>1, <4>1 DEF Snapshots, WindowOK
    <3>3. CASE v \in {win[w].call.reply.view : w \in {u \in Window : Got(u)}}
      <4>1. PICK w \in Window : Got(w) /\ v = win[w].call.reply.view
        BY <3>3
      <4>2. CallOK(win[w].call, win[w].queue, session, memories, receipts, net)
        BY <3>1, <4>1 DEF WindowOK, Got
      <4>3. QED  BY <4>1, <4>2 DEF CallOK, Got, Snapshots
    <3>4. CASE v \in {k.view : k \in receipts}
      BY <3>4 DEF IInv, Snapshots
    <3> DEFINE shown == UNION {{win[w].view, win[w].fetched} : w \in Window}
               heard == {win[w].call.reply.view : w \in {u \in Window : Got(u)}}
               kept == {k.view : k \in receipts}
    <3>5. Snapshots = (shown \cup heard \cup kept) \ {None}
      BY DEF Snapshots
    <3> HIDE DEF shown, heard, kept
    <3>6. v \in shown \/ v \in heard \/ v \in kept
      BY <3>5
    <3>7. QED  BY <3>2, <3>3, <3>4, <3>6 DEF shown, heard, kept
  <2>2. session \in Session /\ session.id \in Nat /\ session.version \in Nat
    BY TypeFacts, SessionFacts DEF IInv
  <2>3. QED  BY <2>1, <2>2 DEF Dated
<1>2. QED  BY <1>1, PlaytestInvariance, PTL

\* However an observation is asked for again, by the transport, by the user or by another window,
\* it is saved once.
THEOREM ObservationsAreSavedOnce == Spec => []ObservedOnce
<1>1. IInv => ObservedOnce
  BY DEF IInv
<1>2. QED  BY <1>1, PlaytestInvariance, PTL

\* A window that hears of a refusal can believe that nothing was done under its key.
THEOREM RefusalsCanBeBelieved == Spec => []RefusalsAreTrue
<1>1. IInv => RefusalsAreTrue
  <2> SUFFICES ASSUME IInv, NEW w \in Window, Got(w), ~win[w].call.reply.ok, NEW k \in receipts
               PROVE  k.key # win[w].call.key
    BY DEF RefusalsAreTrue
  <2>1. CallOK(win[w].call, win[w].queue, session, memories, receipts, net)
    BY DEF IInv, WindowOK, Got
  <2>2. QED  BY <2>1 DEF CallOK, Got
<1>2. QED  BY <1>1, PlaytestInvariance, PTL
\* What happens to the text in the editor of a window.
TextKept(w) ==
    win[w].draft # Blank /\ win'[w].draft # win[w].draft =>
      \/ plan'.texts # plan.texts
      \/ \E m \in ToSet(memories) : m.text = win[w].draft
      \/ win[w].queue # <<>> /\ Head(win[w].queue).kind = "start"

LEMMA SetTextKept ==
    ASSUME IInv, NEW w \in Window, NEW me, Set(w, me),
           \/ me.draft = win[w].draft \/ win[w].draft = Blank \/ plan'.texts # plan.texts
           \/ \E m \in ToSet(memories) : m.text = win[w].draft
           \/ win[w].queue # <<>> /\ Head(win[w].queue).kind = "start"
    PROVE  \A u \in Window : TextKept(u)
<1>1. win \in [Window -> WindowState] /\ win' = [win EXCEPT ![w] = me]
  BY TypeFacts DEF IInv, Set
<1>2. win'[w] = me /\ \A u \in Window : u # w => win'[u] = win[u]
  BY <1>1
<1>3. QED  BY <1>2 DEF TextKept

LEMMA QueuedText ==
    ASSUME NEW me \in WindowState, NEW j
    PROVE  Queue(me, j).draft = me.draft
<1> DEFINE p == Append(me.queue, j)
<1>1. Queue(me, j) = [me EXCEPT !.queue = p]
  BY DEF Queue
<1> HIDE DEF p
<1>2. QED  BY <1>1 DEF WindowState

LEMMA DoneText ==
    ASSUME NEW me \in WindowState
    PROVE  Done(me).draft = me.draft
<1> DEFINE p == Tail(me.queue)
           a == IF me.ahead = 0 THEN 0 ELSE me.ahead - 1
<1>1. Done(me) = [me EXCEPT !.queue = p, !.call = None, !.ahead = a]
  BY DEF Done
<1> HIDE DEF p, a
<1>2. QED  BY <1>1 DEF WindowState

LEMMA UsersText ==
    ASSUME IInv, NEW w \in Window, Users(w) \/ TimerFires(w) \/ Send(w) \/ Break(w) \/ Failed(w)
    PROVE  \A u \in Window : TextKept(u)
<1> DEFINE me == win[w]
<1>1. me \in WindowState /\ plan \in Plan
  BY ActingFacts
<1>2. CASE Type(w)
  <2>1. PICK t : Set(w, Edited(me, t))
    BY <1>2 DEF Type
  <2>2. plan'.texts # plan.texts
    BY <1>1, <1>2, SpendFacts DEF Type
  <2>3. QED  BY <2>1, <2>2, SetTextKept
<1>3. CASE Act(w) \/ Start(w) \/ Save(w)
  <2>1. PICK j : Set(w, Queue(me, j))
    BY <1>3 DEF Act, Start, Save
  <2>2. QED  BY <1>1, <2>1, QueuedText, SetTextKept
<1>4. CASE TimerFires(w)
  <2> DEFINE me2 == [me EXCEPT !.timer = FALSE]
             j == Job("ui", Draft(me.draft), None)
  <2>1. Set(w, Queue(me2, j))
    BY <1>4 DEF TimerFires
  <2>2. me2 \in WindowState /\ me2.draft = me.draft
    BY <1>1 DEF WindowState
  <2> HIDE DEF me2, j
  <2>3. QED  BY <2>1, <2>2, QueuedText, SetTextKept
<1>5. CASE Send(w)
  <2>1. PICK c, n, b : Set(w, [me EXCEPT !.call = c, !.queue[1].next = n, !.timer = b])
    BY <1>5 DEF Send
  <2>2. [me EXCEPT !.call = c, !.queue[1].next = n, !.timer = b].draft = me.draft
    BY <1>1 DEF WindowState
  <2>3. QED  BY <2>1, <2>2, SetTextKept
<1>6. CASE Break(w)
  <2>1. Set(w, Done(me)) \/ Set(w, [me EXCEPT !.call.attempt = 2])
    BY <1>6 DEF Break
  <2>2. [me EXCEPT !.call.attempt = 2].draft = me.draft
    BY <1>1 DEF WindowState
  <2>3. QED  BY <1>1, <2>1, <2>2, DoneText, SetTextKept
<1>7. CASE Failed(w)
  <2>1. Set(w, Done(me))
    BY <1>7 DEF Failed
  <2>2. QED  BY <1>1, <2>1, DoneText, SetTextKept
<1>8. QED  BY <1>2, <1>3, <1>4, <1>5, <1>6, <1>7 DEF Users

\* An answer takes nothing but the text of an observation that was saved, or of a game that is
\* left for another.
LEMMA AnswersText ==
    ASSUME IInv, NEW w \in Window, Applied(w) \/ Observed(w)
    PROVE  \A u \in Window : TextKept(u)
<1> DEFINE me == win[w]
           c == me.call
           j == Head(me.queue)
<1>1. me \in WindowState /\ WindowOK(w, me, session, memories, receipts, net)
  BY ActingFacts
<1>2. c # None /\ CallOK(c, me.queue, session, memories, receipts, net) /\ me.queue # <<>>
  BY <1>1 DEF Applied, Observed, Got, WindowOK, CallOK
<1>3. CASE Applied(w)
  <2> DEFINE v == c.reply.view
             now == [me EXCEPT !.view = v]
             going == [now EXCEPT !.queue[1].next = 2, !.call = None]
             begun == [Done(now) EXCEPT !.draft = v.draft]
  <2>1. \/ Set(w, going) \/ Set(w, Done(now)) \/ (j.kind = "start" /\ Set(w, begun))
    BY <1>3 DEF Applied
  <2>2. v \in Shown
    <3>1. c \in Call /\ c.reply # None /\ v # None
      BY <1>1, <1>3, WindowFacts DEF Applied, Got
    <3>2. QED  BY <3>1, CallFacts
  <2> HIDE DEF v
  <2>3. now \in WindowState /\ now.draft = me.draft
    BY <1>1, <2>2 DEF WindowState
  <2> HIDE DEF now
  <2>4. going.draft = me.draft
    BY <2>3 DEF WindowState
  <2>5. Done(now).draft = me.draft
    BY <2>3, DoneText
  <2> HIDE DEF going, begun
  <2>6. QED  BY <1>2, <2>1, <2>4, <2>5, SetTextKept
<1>4. CASE Observed(w)
  <2>1. \/ me.draft = j.body.text /\ Set(w, Edited(Done(me), Blank))
        \/ Set(w, Done(me))
    BY <1>4 DEF Observed
  <2>2. Saved(c.request, memories)
    BY <1>2, <1>4 DEF Observed, Got, CallOK
  <2>3. c.request.body = j.body
    BY <1>2, <2>2 DEF CallOK, Saved
  <2>4. me.draft = j.body.text => \E m \in ToSet(memories) : m.text = me.draft
    BY <2>2, <2>3 DEF Saved
  <2>5. QED  BY <1>1, <2>1, <2>4, DoneText, SetTextKept
<1>5. QED  BY <1>3, <1>4

LEMMA ReloadText ==
    ASSUME IInv, NEW w \in Window, Notify(w) \/ Fetch(w) \/ Reloaded(w)
    PROVE  \A u \in Window : TextKept(u)
<1> DEFINE me == win[w]
<1>1. /\ me \in WindowState /\ scratch \subseteq Copies
      /\ WindowOK(w, me, session, memories, receipts, net)
  BY ActingFacts
<1>2. CASE Notify(w)
  <2>1. PICK n : Set(w, [me EXCEPT !.told = FALSE, !.reload = "due", !.ahead = n, !.fetched = None])
    BY <1>2 DEF Notify
  <2>2. [me EXCEPT !.told = FALSE, !.reload = "due", !.ahead = n, !.fetched = None].draft = me.draft
    BY <1>1 DEF WindowState
  <2>3. QED  BY <2>1, <2>2, SetTextKept
<1>3. CASE Fetch(w)
  <2>1. PICK v : Set(w, [me EXCEPT !.reload = "fetched", !.fetched = v])
    BY <1>3 DEF Fetch
  <2>2. [me EXCEPT !.reload = "fetched", !.fetched = v].draft = me.draft
    BY <1>1 DEF WindowState
  <2>3. QED  BY <2>1, <2>2, SetTextKept
<1>4. CASE Reloaded(w)
  <2> DEFINE v == me.fetched
             now == [me EXCEPT !.view = v, !.reload = "no", !.fetched = None]
             draft == Recovered(me, v)
             shown == [now EXCEPT !.draft = draft]
             j == Job("ui", Draft(draft), None)
  <2>1. \/ v = None /\ Set(w, now)
        \/ v # None /\ (Set(w, shown) \/ Set(w, Queue(shown, j)))
    BY <1>4 DEF Reloaded
  <2>2. v \in Shown \cup {None}
    BY <1>1, WindowFacts
  <2> HIDE DEF v
  <2>3. now \in WindowState /\ now.draft = me.draft
    BY <1>1, <2>2 DEF WindowState
  <2>4. v # None => draft \in Text /\ (me.draft # Blank => draft = me.draft)
    BY <1>1, <2>2, RecoveredFacts
  <2> HIDE DEF now, draft, j
  <2>5. v # None => shown \in WindowState /\ shown.draft = draft
    BY <2>3, <2>4 DEF WindowState
  <2> HIDE DEF shown
  <2>6. v # None => Queue(shown, j).draft = draft
    BY <2>5, QueuedText
  <2>7. CASE v = None /\ Set(w, now)
    BY <2>3, <2>7, SetTextKept
  <2>8. CASE v # None /\ (Set(w, shown) \/ Set(w, Queue(shown, j)))
    BY <2>4, <2>5, <2>6, <2>8, SetTextKept
  <2>9. QED  BY <2>1, <2>7, <2>8
<1>5. QED  BY <1>2, <1>3, <1>4

LEMMA ServiceText ==
    ASSUME IInv, Elsewhere \/ \E r \in net : Serve(r) \/ Lose(r)
    PROVE  \A u \in Window : win'[u].draft = win[u].draft
<1>1. TypeOK /\ win \in [Window -> WindowState] /\ session \in Session \cup {None}
  BY TypeFacts DEF IInv
<1>2. CASE Elsewhere
  <2> SUFFICES ASSUME NEW u \in Window PROVE win'[u].draft = win[u].draft
    OBVIOUS
  <2>1. PICK b : win'[u] = [win[u] EXCEPT !.told = b]
    BY <1>2 DEF Elsewhere
  <2>2. QED  BY <1>1, <2>1 DEF WindowState
<1>3. ASSUME NEW r \in net, Lose(r) PROVE \A u \in Window : win'[u].draft = win[u].draft
  BY <1>3 DEF Lose
<1>4. ASSUME NEW r \in net, Serve(r) PROVE \A u \in Window : win'[u].draft = win[u].draft
  <2>1. \E rep : Answers(r, rep)
    <3>1. CASE Replay(r)
      <4>1. PICK k \in Known(r) : Answer(r, TRUE, k.view, FALSE)
        BY <3>1 DEF Replay
      <4>2. k.view \in Shown \cup {None}
        BY <1>1, TypeFacts DEF Known, Receipt
      <4>3. Answers(r, [ok |-> TRUE, view |-> k.view])
        BY <4>1, <4>2, Zenon DEF Answers
      <4>4. QED  BY <4>3
    <3>2. CASE Execute(r)
      <4>1. PICK t \in After(r) : Answer(r, TRUE, View(t), TRUE)
        BY <3>2 DEF Execute
      <4>2. t \in Session
        <5>1. r \in Asking /\ r.kind # "observe"
          BY <3>2, ArrivedFacts DEF Execute
        <5>2. Later(session, t)
          BY <1>1, <4>1, <5>1, AfterFacts DEF IInv
        <5>3. QED  BY <5>2 DEF Later
      <4>3. View(t) \in Shown \cup {None}
        BY <4>2, SessionFacts
      <4>4. Answers(r, [ok |-> TRUE, view |-> View(t)])
        BY <4>1, <4>3, Zenon DEF Answers
      <4>5. QED  BY <4>4
    <3>3. CASE Observe(r)
      <4>1. Answer(r, TRUE, None, FALSE)
        BY <3>3 DEF Observe
      <4>2. Answers(r, [ok |-> TRUE, view |-> None])
        BY <4>1, Zenon DEF Answers
      <4>3. QED  BY <4>2
    <3>4. CASE Refuse(r)
      <4>1. Answer(r, FALSE, None, FALSE)
        BY <3>4 DEF Refuse
      <4>2. Answers(r, [ok |-> FALSE, view |-> None])
        BY <4>1, Zenon DEF Answers
      <4>3. QED  BY <4>2
    <3>5. QED  BY <1>4, <3>1, <3>2, <3>3, <3>4 DEF Serve
  <2>2. QED  BY <1>1, <2>1, AnswerFacts
<1>5. QED  BY <1>2, <1>3, <1>4

\* Text leaves the editor of a window only when its user types, when it is saved as an observation,
\* or when a new session is started there: no reload, no late answer and no failure takes it.
THEOREM TypingStays == Spec => TypingIsKept
<1>1. IInv /\ [Next]_vars => [\A w \in Window : TextKept(w)]_vars
  <2> SUFFICES ASSUME IInv, Next PROVE \A w \in Window : TextKept(w)
    OBVIOUS
  <2>1. CASE Elsewhere \/ \E r \in net : Serve(r) \/ Lose(r)
    BY <2>1, ServiceText DEF TextKept
  <2>2. ASSUME NEW w \in plan.windows, Users(w) \/ Browser(w) \/ Break(w)
        PROVE  \A u \in Window : TextKept(u)
    <3>1. w \in Window
      BY TypeFacts DEF IInv, Plan
    <3>2. QED  BY <2>2, <3>1, UsersText, AnswersText, ReloadText DEF Browser
  <2>3. QED  BY <2>1, <2>2 DEF Next
<1>2. [\A w \in Window : TextKept(w)]_vars =>
        [\A w \in Window :
           win[w].draft # Blank /\ win'[w].draft # win[w].draft =>
             \/ plan'.texts # plan.texts
             \/ \E m \in ToSet(memories) : m.text = win[w].draft
             \/ win[w].queue # <<>> /\ Head(win[w].queue).kind = "start"]_vars
  BY DEF TextKept
<1>3. QED  BY <1>1, <1>2, PlaytestInvariance, PTL DEF Spec, TypingIsKept
=============================================================================
