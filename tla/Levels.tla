------------------------------ MODULE Levels ------------------------------
(***************************************************************************)
(* The tiers L1..L5 (app/schemas/router.py) as numbers, and the clamps the *)
(* router applies to them.                                                 *)
(***************************************************************************)
EXTENDS Integers

Level == 1..5

\* An option the request does not set.
NoLevel == 0

\* Level.from_numeric: beyond the ends the end itself.
FromNumeric(n) == IF n < 1 THEN 1 ELSE IF n > 5 THEN 5 ELSE n

\* max_level is applied first, min_level last.
Clamp(level, max, min) ==
    LET capped == IF max # NoLevel /\ level > max THEN max ELSE level
    IN  IF min # NoLevel /\ capped < min THEN min ELSE capped
=============================================================================
