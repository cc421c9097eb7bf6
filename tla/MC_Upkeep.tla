----------------------------- MODULE MC_Upkeep -----------------------------
(* Small instances of Upkeep: the file changes once or twice, and the new  *)
(* version has a lower limit or switches the budget off.                   *)
EXTENDS Upkeep

CONSTANTS r1, r2, s1

SomeLimits == [v \in 0..3 |->
    [enabled |-> v # 0, daily |-> IF v = 1 THEN 6 ELSE 4, reject |-> v = 2]]
=============================================================================
