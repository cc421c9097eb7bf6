-------------------------- MODULE MC_IpRedaction --------------------------
(* Small instances of IpRedaction: requests of one session that overlap in *)
(* the addresses they mention.                                             *)
EXTENDS IpRedaction, TLC

CONSTANTS r1, r2, r3, ipA, ipB

\* Two texts that share an address, and one text with two addresses.
SomePrompts == {<<{ipB}, {ipA, ipB}>>, <<{ipA, ipB}>>}

RequestSymmetry == Permutations(Requests)
=============================================================================
