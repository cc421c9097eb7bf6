------------------------- MODULE MC_FallbackChain -------------------------
(* Small instances of FallbackChain: two or three models, up to three      *)
(* tiers, and times that let the deadline fall anywhere.                   *)
EXTENDS FallbackChain
=============================================================================
