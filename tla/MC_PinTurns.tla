---------------------------- MODULE MC_PinTurns ----------------------------
(* Small instances of PinTurns: two or three turns of one session that     *)
(* overlap, with the options and the evidence worth telling apart.         *)
EXTENDS PinTurns, TLC

CONSTANTS t1, t2, t3, sig1, set1

TurnSymmetry == Permutations(Turns)

\* What a completion may ask for: nothing, with or without signals in its text.
Plain == [forced |-> NoLevel, repin |-> FALSE, max |-> NoLevel, min |-> NoLevel,
          weight |-> 0, strong |-> FALSE, stream |-> FALSE]
Deep == [Plain EXCEPT !.weight = 2]
Repair == [Plain EXCEPT !.weight = 3, !.strong = TRUE]
Streamed(o) == [o EXCEPT !.stream = TRUE]
Forced(level) == [Plain EXCEPT !.forced = level]
Capped(o, level) == [o EXCEPT !.max = level]

SignalOptions == {Repair, Deep, Streamed(Repair)}
OverrideOptions ==
    {Repair, Streamed(Forced(1)), [Forced(2) EXCEPT !.repin = TRUE],
     Streamed(Capped(Repair, 2))}

AnyEvidence == {[weight |-> 3, strong |-> b] : b \in BOOLEAN}
SomeEvidence == {[weight |-> 3, strong |-> TRUE], [weight |-> -1, strong |-> FALSE]}
=============================================================================
