----------------------------- MODULE Positions -----------------------------
(***************************************************************************)
(* What the code does with the positions of a list: names some of them in  *)
(* the order they have, or drops the others.                               *)
(***************************************************************************)
EXTENDS Integers, FiniteSets, Sequences

\* A set of positions, listed from the first to the last.
InOrder(S) ==
    CHOOSE s \in [1 .. Cardinality(S) -> S] :
        /\ \A i \in S : \E k \in DOMAIN s : s[k] = i
        /\ \A j, k \in DOMAIN s : j < k => s[j] < s[k]

\* A list without the members of X: Array.filter.
Excluding(s, X) ==
    LET kept == InOrder({i \in DOMAIN s : s[i] \notin X})
    IN [k \in DOMAIN kept |-> s[kept[k]]]
=============================================================================
