--------------------------- MODULE MC_FirstTurn ---------------------------
(* Small instances of FirstTurn: three requests of one session, with and   *)
(* without the calls that delete or set the pin from outside.              *)
EXTENDS FirstTurn, TLC

CONSTANTS r1, r2, r3, d1, c1, s1

\* Requests that ask for nothing special are interchangeable.
RequestSymmetry == Permutations(Requests)
=============================================================================
