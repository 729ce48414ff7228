------------------------------ MODULE Scenarios ------------------------------
(***************************************************************************)
(* The admitted scenarios without turns, as engine.rs lists their cards.   *)
(* Forest makes G, Island makes U; the spell costs U.                      *)
(***************************************************************************)
EXTENDS Integers

Colour == {"G", "U"}
CostU == "U"

\* ScenarioConfig::stack_response: one Island and one spell per seat, and a
\* creature owned by seat 1 under the control of seat 2.
ResponseLands == {"island0", "island1", "island2", "island3"}
ResponseSpells == {"spell0", "spell1", "spell2", "spell3"}
Bears == {"bears"}
ResponseOwner ==
    [c \in ResponseLands \cup ResponseSpells \cup Bears |->
        CASE c \in {"island0", "spell0"} -> 0
          [] c \in {"island1", "spell1", "bears"} -> 1
          [] c \in {"island2", "spell2"} -> 2
          [] OTHER -> 3]
ResponseController ==
    [c \in ResponseLands \cup Bears |-> IF c = "bears" THEN 2 ELSE ResponseOwner[c]]
ResponseProduces == [l \in ResponseLands |-> "U"]

\* stack_response with one seat, its Island and its spell left out, and with a
\* Forest as in casting_reversal, whose mana pays for no spell, for the questions
\* that are too expensive over the whole scenario.
ThreeLands == (ResponseLands \ {"island3"}) \cup {"forest0"}
ThreeSpells == ResponseSpells \ {"spell3"}
ThreeOwner ==
    [c \in ThreeLands \cup ThreeSpells \cup Bears |-> IF c = "forest0" THEN 0 ELSE ResponseOwner[c]]
ThreeController ==
    [c \in ThreeLands \cup Bears |-> IF c = "forest0" THEN 0 ELSE ResponseController[c]]
ThreeProduces == [l \in ThreeLands |-> IF l = "forest0" THEN "G" ELSE "U"]
=============================================================================
