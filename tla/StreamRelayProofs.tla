------------------------- MODULE StreamRelayProofs -------------------------
(***************************************************************************)
(* That a recovery from a stall is invisible to the client                 *)
(* (StreamRelay!OneTierAnswers), and that the client reads what it would   *)
(* read of an answer relayed whole (StreamRelay!RelayedWhole), for any     *)
(* answers, cut in any way, and any number of tiers.                       *)
(*                                                                         *)
(* What has to be known of a stream that goes on is, for the first, that   *)
(* as long as no line was forwarded nothing else was: only then is the     *)
(* tier changed.  For the second, that the client has what it should read  *)
(* of the answer but for what it should read of the carry followed by the  *)
(* rest; that the carry has no placeholder; and that the end of the carry  *)
(* behind its last address is an end of what has come of the answer, so    *)
(* that what the next chunk completes there is what the answer has there.  *)
(*                                                                         *)
(* Between them the types, which say of the text operations what they      *)
(* give: a text is rehydrated and masked by replacing parts of it.         *)
(***************************************************************************)
EXTENDS StreamRelay, FiniteSetTheorems, SequenceTheorems, TLAPS

Types ==
    /\ tier \in Nat \ {0} /\ usage \in Nat /\ metadata \in Nat
    /\ phase \in Ended \cup {"stream"}

\* The one upstream that is open is the tier's.
OneUpstream == phase = "stream" => open = {tier}

\* Before the first line the client has been sent nothing, and told nothing.
NothingYet == phase = "stream" /\ lines = {} => metadata = 0 /\ usage = 0

IInv == Types /\ OneUpstream /\ NothingYet /\ OneTierAnswers

LEMMA InitHolds == Init => IInv
BY DEF Init, IInv, Types, OneUpstream, NothingYet, OneTierAnswers, Ended

\* A line of the current tier goes out, after its metadata.
LEMMA ForwardKeeps ==
    ASSUME IInv, phase = "stream", Forward,
           UNCHANGED <<phase, tier, open>>, usage' \in {usage, tier}
    PROVE  IInv'
<1>1. metadata' = tier /\ lines' = {tier} /\ tier # 0
  BY DEF IInv, Types, OneTierAnswers, Forward
<1>2. Types' /\ OneUpstream'
  BY <1>1 DEF IInv, Types, OneUpstream
<1>3. NothingYet' /\ OneTierAnswers'
  BY <1>1 DEF IInv, Types, OneTierAnswers, NothingYet, Ended
<1> QED
  BY <1>2, <1>3 DEF IInv

\* The stream ends in a way that forwards nothing more, or its [DONE].
LEMMA EndKeeps ==
    ASSUME IInv, phase = "stream", phase' \in Ended \ {"gone"}, open' = open \ {tier},
           UNCHANGED <<tier, usage, lines>>,
           \/ metadata' = metadata /\ out' = out /\ phase' # "done"
           \/ metadata' = IF metadata = 0 THEN tier ELSE metadata
    PROVE  IInv'
<1>1. open' = {} /\ phase' # "stream" /\ metadata' \in {metadata, tier} /\ tier # 0
  BY DEF IInv, Types, OneUpstream, Ended
<1>2. Types' /\ OneUpstream' /\ NothingYet'
  BY <1>1 DEF IInv, Types, OneUpstream, NothingYet
<1>3. metadata' = 0 => out' = <<>> /\ phase' # "done"
  BY <1>1 DEF IInv, OneTierAnswers
<1>4. lines' \cup ({metadata', usage'} \ {0}) \subseteq {tier'}
  BY <1>1 DEF IInv, OneTierAnswers
<1> QED
  BY <1>1, <1>2, <1>3, <1>4 DEF IInv, OneTierAnswers

\* The tier changes while the client knows of none.
LEMMA RecoveryKeeps ==
    ASSUME IInv, Restream \/ RestreamFails
    PROVE  IInv'
<1>1. /\ phase = "stream" /\ lines = {} /\ metadata = 0 /\ usage = 0 /\ out = <<>>
      /\ open = {tier}
  BY DEF Restream, RestreamFails, Recoverable, IInv, NothingYet, OneUpstream, OneTierAnswers
<1>2. tier' = tier + 1 /\ tier' \in Nat \ {0} /\ metadata' = 0 /\ usage' = 0 /\ lines' = {}
  BY <1>1 DEF Restream, RestreamFails, NextTier, IInv, Types, sent, signals
<1>3. out' = <<>>
  BY <1>1 DEF Restream, RestreamFails, content
<1>4. CASE Restream
  BY <1>1, <1>2, <1>3, <1>4
     DEF Restream, NextTier, IInv, Types, OneUpstream, NothingYet, OneTierAnswers, Ended
<1>5. CASE RestreamFails
  <2>1. phase' = "error" /\ open' = {}
    BY <1>1, <1>5 DEF RestreamFails, ErrorEvent
  <2> QED
    BY <1>2, <1>3, <2>1 DEF IInv, Types, OneUpstream, NothingYet, OneTierAnswers, Ended
<1> QED
  BY <1>4, <1>5

LEMMA NextKeeps == ASSUME IInv, [Next]_vars PROVE IInv'
<1>1. CASE Chunk \/ ToolCall \/ Usage \/ Comment
  BY <1>1, ForwardKeeps DEF Chunk, ToolCall, Usage, Comment, signals
<1>2. CASE Done \/ Eof \/ Breaks
  BY <1>2, EndKeeps DEF Done, Eof, Breaks, ErrorEvent, Ended, signals, sent, content
<1>3. CASE Restream \/ RestreamFails
  BY <1>3, RecoveryKeeps
<1>4. CASE ClientGone
  BY <1>4 DEF ClientGone, IInv, Types, OneUpstream, NothingYet, OneTierAnswers, Ended,
              signals, sent, content
<1>5. CASE UNCHANGED vars
  BY <1>5 DEF vars, IInv, Types, OneUpstream, NothingYet, OneTierAnswers, Ended,
              signals, sent, content
<1> QED
  BY <1>1, <1>2, <1>3, <1>4, <1>5 DEF Next, Progress

\* Whatever stalls and however often the tier changes, lines, metadata and usage
\* come from one tier, and its upstream is closed at the end.
THEOREM OneTierOnly == Spec => []OneTierAnswers
<1>1. Init => IInv
  BY InitHolds
<1>2. IInv /\ [Next]_vars => IInv'
  BY NextKeeps
<1>3. IInv => OneTierAnswers
  BY DEF IInv
<1> QED
  BY <1>1, <1>2, <1>3, PTL DEF Spec

-----------------------------------------------------------------------------
(* The types                                                               *)

\* Some set of a family of parts of a finite one is smallest,
LEMMA SmallestSet ==
    ASSUME NEW S, IsFiniteSet(S), NEW Family \in SUBSET SUBSET S, Family # {}
    PROVE  \E u \in Family : \A v \in Family : v \subseteq u => v = u
<1>1. IsWellFoundedOn(StrictSubsetOrdering(S), SUBSET S)
  BY FS_StrictSubsetOrderingWellFounded, FS_FiniteSubsetsOfFinite
<1>2. PICK u \in Family : \A v \in Family : ~ (<<v, u>> \in StrictSubsetOrdering(S))
  <2> HIDE DEF StrictSubsetOrdering
  <2> QED
    BY <1>1, WFMin
<1>3. ASSUME NEW v \in Family, v \subseteq u PROVE v = u
  BY <1>2, <1>3 DEF StrictSubsetOrdering
<1> QED
  BY <1>3

\* and so a set of natural numbers has a least one: the sets of those below them.
LEMMA LeastNumber ==
    ASSUME NEW T \in SUBSET Nat, T # {}
    PROVE  \E i \in T : \A j \in T : i <= j
<1>1. PICK n \in Nat : n \in T
  OBVIOUS
<1>2. PICK S : S = 0..n
  OBVIOUS
<1>3. IsFiniteSet(S)
  BY <1>2, FS_Interval
<1>4. PICK F : F = {0..i : i \in {k \in T : k <= n}}
  OBVIOUS
<1>5. F \in SUBSET SUBSET S /\ F # {}
  <2>1. 0..n \in F
    BY <1>1, <1>4
  <2> QED
    BY <1>2, <1>4, <2>1
<1>6. PICK u \in F : \A v \in F : v \subseteq u => v = u
  BY <1>3, <1>5, SmallestSet
<1>7. PICK i \in T : i <= n /\ u = 0..i
  BY <1>4
<1>8. ASSUME NEW j \in T, j < i PROVE FALSE
  <2>1. 0..j \in F
    BY <1>4, <1>7, <1>8
  <2>2. 0..j \subseteq u
    BY <1>7, <1>8
  <2>3. 0..j = u
    BY <1>6, <2>1, <2>2
  <2>4. i \in 0..i /\ i \notin 0..j
    BY <1>8
  <2> QED
    BY <1>7, <2>3, <2>4
<1> QED
  BY <1>8

\* A property of the numbers up to N that holds of 1 and passes on holds of all.
LEMMA UpTo ==
    ASSUME NEW N \in Nat, NEW G, 1 \in G,
           \A k \in 1..N : k + 1 \in 1..N /\ k \in G => k + 1 \in G
    PROVE  1..N \subseteq G
<1>1. SUFFICES ASSUME (1..N) \ G # {} PROVE FALSE
  OBVIOUS
<1>2. (1..N) \ G \in SUBSET Nat
  OBVIOUS
<1>3. PICK k \in (1..N) \ G : \A j \in (1..N) \ G : k <= j
  BY <1>1, <1>2, LeastNumber
<1>4. k # 1 /\ k \in 1..N
  OBVIOUS
<1>5. k - 1 \in 1..N /\ (k - 1) + 1 = k /\ ~(k <= k - 1)
  BY <1>4
<1>6. k - 1 \in G
  BY <1>3, <1>5
<1> QED
  BY <1>3, <1>5, <1>6

\* The function by which FlattenSeq puts sequences together.
Flat(g, seqs, n) ==
    g = [i \in 1..n |-> IF i = 1 THEN seqs[i] ELSE g[i - 1] \o seqs[i]]

LEMMA FlatGoesOn ==
    ASSUME NEW U, NEW seqs, NEW n \in Nat \ {0}, NEW h \in [1..n -> Seq(U)], Flat(h, seqs, n),
           seqs[n + 1] \in Seq(U)
    PROVE  \E g \in [1..(n + 1) -> Seq(U)] : Flat(g, seqs, n + 1)
<1>1. PICK g : g = [i \in 1..(n + 1) |-> IF i = n + 1 THEN h[n] \o seqs[n + 1] ELSE h[i]]
  OBVIOUS
<1>2. h[n] \o seqs[n + 1] \in Seq(U)
  BY n \in 1..n
<1>3. g \in [1..(n + 1) -> Seq(U)]
  <2>1. \A i \in 1..(n + 1) : i = n + 1 \/ i \in 1..n
    OBVIOUS
  <2> QED
    BY <1>1, <1>2, <2>1
<1>4. ASSUME NEW i \in 1..(n + 1)
      PROVE  g[i] = IF i = 1 THEN seqs[i] ELSE g[i - 1] \o seqs[i]
  <2>1. CASE i = n + 1
    <3>1. i - 1 = n /\ n \in 1..(n + 1) /\ n # n + 1 /\ i # 1
      BY <2>1
    <3>2. g[i - 1] = h[n] /\ g[i] = h[n] \o seqs[n + 1]
      BY <1>1, <2>1, <3>1
    <3> QED
      BY <2>1, <3>1, <3>2
  <2>2. CASE i # n + 1
    <3>1. i \in 1..n /\ (i # 1 => i - 1 \in 1..(n + 1) /\ i - 1 # n + 1)
      BY <2>2
    <3>2. g[i] = h[i] /\ (i # 1 => g[i - 1] = h[i - 1])
      BY <1>1, <2>2, <3>1
    <3>3. h[i] = IF i = 1 THEN seqs[i] ELSE h[i - 1] \o seqs[i]
      BY <3>1 DEF Flat
    <3> QED
      BY <3>2, <3>3
  <2> QED
    BY <2>1, <2>2
<1>5. Flat(g, seqs, n + 1)
  <2>1. g = [i \in 1..(n + 1) |-> g[i]]
    BY <1>1
  <2>2. [i \in 1..(n + 1) |-> g[i]]
          = [i \in 1..(n + 1) |-> IF i = 1 THEN seqs[i] ELSE g[i - 1] \o seqs[i]]
    BY <1>4
  <2> QED
    BY <2>1, <2>2 DEF Flat
<1> QED
  BY <1>3, <1>5

LEMMA FlatExists ==
    ASSUME NEW U, NEW seqs \in Seq(Seq(U)), NEW n \in 1..Len(seqs)
    PROVE  \E g \in [1..n -> Seq(U)] : Flat(g, seqs, n)
<1>1. PICK N : N = Len(seqs)
  OBVIOUS
<1>2. N \in Nat /\ \A i \in 1..N : seqs[i] \in Seq(U)
  BY <1>1
<1>3. PICK G : G = {k \in 1..N : \E g \in [1..k -> Seq(U)] : Flat(g, seqs, k)}
  OBVIOUS
<1>4. 1 \in G
  <2>1. PICK g : g = [i \in 1..1 |-> seqs[1]]
    OBVIOUS
  <2>2. 1 \in 1..N
    BY <1>1, <1>2
  <2>3. g \in [1..1 -> Seq(U)] /\ g = [i \in 1..1 |-> seqs[i]]
    BY <1>2, <2>1, <2>2
  <2>4. Flat(g, seqs, 1)
    BY <2>3 DEF Flat
  <2> QED
    BY <1>3, <2>2, <2>3, <2>4
<1>5. ASSUME NEW k \in 1..N, k + 1 \in 1..N, k \in G PROVE k + 1 \in G
  <2>1. PICK h \in [1..k -> Seq(U)] : Flat(h, seqs, k)
    BY <1>3, <1>5
  <2>2. k \in Nat \ {0} /\ seqs[k + 1] \in Seq(U)
    BY <1>2, <1>5
  <2>3. \E g \in [1..(k + 1) -> Seq(U)] : Flat(g, seqs, k + 1)
    BY <2>1, <2>2, FlatGoesOn
  <2> QED
    BY <1>3, <1>5, <2>3
<1>6. 1..N \subseteq G
  BY <1>2, <1>4, <1>5, UpTo
<1> QED
  BY <1>1, <1>3, <1>6

LEMMA FlatTyped ==
    ASSUME NEW U, NEW seqs, NEW n \in Nat, NEW f, Flat(f, seqs, n),
           \A i \in 1..n : seqs[i] \in Seq(U)
    PROVE  \A i \in 1..n : f[i] \in Seq(U)
<1>1. PICK G : G = {i \in 1..n : f[i] \in Seq(U)}
  OBVIOUS
<1>2. \A i \in 1..n : f[i] = IF i = 1 THEN seqs[i] ELSE f[i - 1] \o seqs[i]
  BY DEF Flat
<1>3. CASE n = 0
  BY <1>3
<1>4. CASE n # 0
  <2>1. 1 \in G
    BY <1>1, <1>2, <1>4
  <2>2. ASSUME NEW k \in 1..n, k + 1 \in 1..n, k \in G PROVE k + 1 \in G
    <3>1. f[k] \in Seq(U) /\ seqs[k + 1] \in Seq(U)
      BY <1>1, <2>2
    <3>2. f[k + 1] = f[k] \o seqs[k + 1]
      <4>1. k + 1 # 1 /\ (k + 1) - 1 = k
        BY <2>2
      <4> QED
        BY <1>2, <2>2, <4>1
    <3>3. f[k + 1] \in Seq(U)
      BY <3>1, <3>2
    <3> QED
      BY <1>1, <2>2, <3>3
  <2>3. 1..n \subseteq G
    BY <2>1, <2>2, UpTo
  <2> QED
    BY <1>1, <2>3
<1> QED
  BY <1>3, <1>4

\* Sequences of units put together are one.
LEMMA FlattenTyped ==
    ASSUME NEW U, NEW seqs \in Seq(Seq(U))
    PROVE  FlattenSeq(seqs) \in Seq(U)
<1>1. CASE Len(seqs) = 0
  <2>1. seqs = <<>>
    BY <1>1
  <2> QED
    BY <1>1, <2>1 DEF FlattenSeq
<1>2. CASE Len(seqs) # 0
  <2>1. PICK N : N = Len(seqs)
    OBVIOUS
  <2>2. N \in 1..N /\ N \in Nat /\ \A i \in 1..N : seqs[i] \in Seq(U)
    BY <1>2, <2>1
  <2> DEFINE f == CHOOSE g : Flat(g, seqs, N)
  <2>3. Flat(f, seqs, N)
    BY <2>1, <2>2, FlatExists
  <2>4. FlattenSeq(seqs) = f[N]
    BY <1>2, <2>1 DEF FlattenSeq, Flat
  <2> HIDE DEF f
  <2> QED
    BY <2>2, <2>3, <2>4, FlatTyped
<1> QED
  BY <1>1, <1>2

Text == Units \cup Addresses
Masked == Text \cup {"***REDACTED***"}

LEMMA ReplaceTyped ==
    ASSUME NEW U, NEW t \in Seq(U), NEW Spans, \A s \in Spans : s.by \in U
    PROVE  Replace(t, Spans) \in Seq(U)
<1> DEFINE piece(i) == IF \E s \in Spans : i \in (s.first + 1)..s.last THEN <<>>
                       ELSE IF \E s \in Spans : s.first = i
                       THEN <<(CHOOSE s \in Spans : s.first = i).by>>
                       ELSE <<t[i]>>
           pieces == [i \in 1..Len(t) |-> piece(i)]
<1>1. ASSUME NEW i \in 1..Len(t) PROVE piece(i) \in Seq(U)
  <2>1. t[i] \in U
    OBVIOUS
  <2>2. ASSUME \E s \in Spans : s.first = i
        PROVE  (CHOOSE s \in Spans : s.first = i).by \in U
    BY <2>2
  <2> QED
    BY <2>1, <2>2
<1> HIDE DEF piece
<1>2. pieces \in Seq(Seq(U))
  BY <1>1
<1>3. Replace(t, Spans) = IF Spans = {} THEN t ELSE FlattenSeq(pieces)
  BY DEF Replace, piece
<1> HIDE DEF pieces
<1> QED
  BY <1>2, <1>3, FlattenTyped

LEMMA RehydrateTyped == ASSUME NEW t \in Seq(Text) PROVE Rehydrate(t) \in Seq(Text)
<1>1. \A n \in Known : Address[n] \in Text
  <2>1. \A n \in {0, 1, 12} : Address[n] \in Text
    BY DEF Address, Text, Addresses
  <2> QED
    BY <2>1, StreamRelayAssumption
<1>2. \A s \in Placeholders(t) : s.by \in Text
  BY <1>1 DEF Placeholders
<1> QED
  BY <1>2, ReplaceTyped DEF Rehydrate

LEMMA MaskTyped == ASSUME NEW t \in Seq(Text) PROVE Mask(t) \in Seq(Masked)
<1>1. t \in Seq(Masked) /\ "***REDACTED***" \in Masked
  BY DEF Masked
<1>2. \A s \in Secrets(t) : s.by \in Masked
  BY <1>1 DEF Secrets
<1> QED
  BY <1>1, <1>2, ReplaceTyped DEF Mask

\* What is held: from the first place of a placeholder, or else of a secret.
LEMMA HeldIs ==
    ASSUME NEW t \in Seq(Text)
    PROVE  /\ Held(t) \in 1..(Len(t) + 1)
           /\ \A i \in 1..Len(t) : i < Held(t) => ~HoldsPlaceholder(t, i)
           /\ Held(t) <= Len(t) => HoldsPlaceholder(t, Held(t)) \/ HoldsSecret(t, Held(t))
           /\ mode = "mask" /\ Held(t) = Len(t) + 1 => \A i \in 1..Len(t) : ~HoldsSecret(t, i)
<1>1. PICK P : P = {i \in 1..Len(t) : HoldsPlaceholder(t, i)}
  OBVIOUS
<1>2. PICK S : S = {i \in 1..Len(t) : mode = "mask" /\ HoldsSecret(t, i)}
  OBVIOUS
<1>3. PICK T : T = IF P # {} THEN P ELSE S
  OBVIOUS
<1>4. Held(t) = IF T = {} THEN Len(t) + 1 ELSE CHOOSE i \in T : \A j \in T : i <= j
  BY <1>1, <1>2, <1>3 DEF Held
<1>5. /\ \A i \in 1..Len(t) : i \in P <=> HoldsPlaceholder(t, i)
      /\ \A i \in 1..Len(t) : i \in S <=> mode = "mask" /\ HoldsSecret(t, i)
      /\ P \subseteq 1..Len(t) /\ S \subseteq 1..Len(t)
  BY <1>1, <1>2
<1>6. CASE T = {}
  <2>1. P = {} /\ S = {} /\ Held(t) = Len(t) + 1
    BY <1>3, <1>4, <1>6
  <2> QED
    BY <1>5, <2>1
<1>7. CASE T # {}
  <2>1. T \in SUBSET Nat /\ T \subseteq 1..Len(t)
    BY <1>3, <1>5
  <2>2. \E i \in T : \A j \in T : i <= j
    BY <1>7, <2>1, LeastNumber
  <2>3. PICK h : h = Held(t)
    OBVIOUS
  <2>4. h \in T /\ \A j \in T : h <= j
    BY <1>4, <1>7, <2>2, <2>3
  <2>5. h \in 1..Len(t) /\ (h \in P \/ h \in S)
    BY <1>3, <2>1, <2>4
  <2>6. \A i \in 1..Len(t) : i < h => i \notin P
    <3>1. ASSUME NEW i \in P PROVE ~(i < h)
      <4>1. i \in T
        BY <1>3, <3>1
      <4> QED
        BY <1>5, <2>4, <2>5, <4>1
    <3> QED
      BY <3>1
  <2>7. HoldsPlaceholder(t, h) \/ HoldsSecret(t, h)
    BY <1>5, <2>5
  <2>8. h \in 1..(Len(t) + 1) /\ h # Len(t) + 1
    BY <2>5
  <2> QED
    BY <1>5, <2>3, <2>6, <2>7, <2>8
<1> QED
  BY <1>6, <1>7

LEMMA RelayedTyped ==
    ASSUME NEW chunk \in Seq(Text), carry \in Seq(Text)
    PROVE  Relayed(chunk).flush \in Seq(Masked) /\ Relayed(chunk).carry \in Seq(Text)
<1> DEFINE text == carry \o chunk
           whole == IF MentionsPlaceholder(text) THEN Rehydrate(text) ELSE text
           flush == SubSeq(whole, 1, Held(whole) - 1)
           rest == SubSeq(whole, Held(whole), Len(whole))
<1>1. chunk \in Seq(Masked) /\ <<>> \in Seq(Text)
  BY DEF Masked
<1>2. text \in Seq(Text)
  OBVIOUS
<1>3. whole \in Seq(Text)
  BY <1>2, RehydrateTyped
<1> HIDE DEF text, whole
<1>4. Held(whole) \in 1..(Len(whole) + 1) /\ Len(whole) \in Nat
  BY <1>3, HeldIs
<1>5. flush \in Seq(Text) /\ rest \in Seq(Text)
  BY <1>3, <1>4
<1> HIDE DEF flush, rest
<1>6. flush \in Seq(Masked) /\ Mask(flush) \in Seq(Masked)
  BY <1>5, MaskTyped DEF Masked
<1>7. \E a \in Seq(Masked), b \in Seq(Text) : Relayed(chunk) = [flush |-> a, carry |-> b]
  <2>1. CASE mode # "mask" /\ ~MentionsPlaceholder(chunk) /\ carry = <<>>
    <3>1. Relayed(chunk) = [flush |-> chunk, carry |-> <<>>]
      BY <2>1 DEF Relayed
    <3> QED
      BY <1>1, <3>1
  <2>2. CASE ~(mode # "mask" /\ ~MentionsPlaceholder(chunk) /\ carry = <<>>)
    <3> DEFINE a == IF mode = "off" THEN flush ELSE Mask(flush)
    <3>1. Relayed(chunk) = [flush |-> a, carry |-> rest]
      BY <2>2 DEF Relayed, text, whole, flush, rest
    <3>2. a \in Seq(Masked)
      BY <1>6
    <3> HIDE DEF a
    <3> QED
      BY <1>5, <3>1, <3>2
  <2> QED
    BY <2>1, <2>2
<1> QED
  BY <1>7

LEMMA TypesNext == ASSUME TypeOK, OneUpstream, [Next]_vars PROVE TypeOK'
<1>1. /\ answer \in Seq(Text) /\ pos \in 0..Len(answer) /\ Len(answer) \in Nat
      /\ Tiers \in Nat \ {0} /\ MaxComments \in Nat /\ Answers \subseteq Seq(Text)
  BY StreamRelayAssumption DEF TypeOK, Text
<1>2. CASE Chunk
  <2>1. PICK p \in (pos + 1)..Len(answer) :
          LET relayed == Relayed(SubSeq(answer, pos + 1, p))
          IN  /\ pos' = p
              /\ out' = out \o relayed.flush /\ carry' = relayed.carry
              /\ torn' = (torn \/ Tears(p))
    BY <1>2 DEF Chunk
  <2> DEFINE chunk == SubSeq(answer, pos + 1, p)
  <2>2. chunk \in Seq(Text)
    BY <1>1
  <2> HIDE DEF chunk
  <2>3. Relayed(chunk).flush \in Seq(Masked) /\ Relayed(chunk).carry \in Seq(Text)
    BY <2>2, RelayedTyped DEF TypeOK, Text
  <2>4. out' \in Seq(Masked) /\ carry' \in Seq(Text) /\ pos' \in 0..Len(answer)
    BY <1>1, <2>1, <2>3 DEF TypeOK, Masked, Text, chunk
  <2>5. torn' \in BOOLEAN
    BY <2>1, Zenon DEF TypeOK, Tears
  <2> QED
    BY <1>2, <2>4, <2>5 DEF Chunk, Forward, TypeOK, Masked, Text, signals
<1>3. CASE ToolCall \/ Usage \/ Comment
  <2>1. tier \in 1..Tiers /\ tier \in 0..Tiers
    BY <1>1 DEF TypeOK
  <2>2. Forward
    BY <1>3 DEF ToolCall, Usage, Comment
  <2>3. metadata' \in 0..Tiers /\ lines' \subseteq 1..Tiers
    BY <2>1, <2>2 DEF Forward, TypeOK
  <2>4. tools' = TRUE \/ tools' = tools
    BY <1>3 DEF ToolCall, Usage, Comment, signals
  <2>5. usage' \in 0..Tiers
    BY <1>3, <2>1 DEF ToolCall, Usage, Comment, TypeOK, signals
  <2>6. comments' \in 0..MaxComments
    BY <1>1, <1>3 DEF ToolCall, Usage, Comment, TypeOK
  <2> QED
    BY <1>3, <2>3, <2>4, <2>5, <2>6 DEF ToolCall, Usage, Comment, TypeOK, content, signals
<1>4. CASE Done
  <2>1. carry \in Seq(Masked) /\ Mask(carry) \in Seq(Masked) /\ <<>> \in Seq(Text)
    BY MaskTyped DEF TypeOK, Masked, Text
  <2>2. out' \in Seq(Masked) /\ carry' \in Seq(Text)
    BY <1>4, <2>1 DEF Done, TypeOK, Masked, Text
  <2>3. closing' \in {<<"[DONE]">>, <<"postfix", "[DONE]">>}
    BY <1>4 DEF Done
  <2>4. open' \subseteq 1..Tiers /\ metadata' \in 0..Tiers
    BY <1>1, <1>4 DEF Done, TypeOK
  <2> QED
    BY <1>4, <2>2, <2>3, <2>4 DEF Done, TypeOK, Masked, Text, signals, Ended
<1>5. CASE Eof \/ Breaks \/ ClientGone
  BY <1>5 DEF Eof, Breaks, ClientGone, ErrorEvent, TypeOK, content, signals, sent, Ended
<1>6. CASE Restream \/ RestreamFails
  <2>1. tier' \in 1..Tiers /\ open' \subseteq 1..Tiers
    BY <1>1, <1>6
       DEF Restream, RestreamFails, ErrorEvent, Recoverable, NextTier, TypeOK, OneUpstream
  <2>2. <<>> \in Seq(Text) /\ \A t \in Answers : 0 \in 0..Len(t)
    BY <1>1
  <2>3. CASE Restream
    <3>1. answer' \in Answers /\ pos' \in 0..Len(answer') /\ carry' \in Seq(Text)
      BY <2>2, <2>3 DEF Restream
    <3>2. tools' = FALSE /\ usage' = 0 /\ 0 \in 0..Tiers
      BY <1>1, <2>3 DEF Restream
    <3> QED
      BY <2>1, <2>3, <3>1, <3>2 DEF Restream, TypeOK, sent, Text
  <2>4. CASE RestreamFails
    BY <2>1, <2>4 DEF RestreamFails, ErrorEvent, TypeOK, content, signals, Ended
  <2> QED
    BY <1>6, <2>3, <2>4
<1>7. CASE UNCHANGED vars
  BY <1>7 DEF vars, TypeOK, content, signals, sent
<1> QED
  BY <1>2, <1>3, <1>4, <1>5, <1>6, <1>7 DEF Next, Progress

LEMMA TypesInit == Init => TypeOK
<1>1. \A t \in Answers : 0 \in 0..Len(t)
  BY StreamRelayAssumption
<1>2. 1 \in 1..Tiers /\ 0 \in 0..Tiers /\ 0 \in 0..MaxComments
  BY StreamRelayAssumption
<1>3. <<>> \in Seq(Units \cup Addresses)
      /\ <<>> \in Seq(Units \cup Addresses \cup {"***REDACTED***"})
  OBVIOUS
<1> QED
  BY <1>1, <1>2, <1>3 DEF Init, TypeOK

\* TypeOK: whatever the chunks cut, the client is sent units of the answer, addresses
\* and redaction marks in their order only, and what is carried is never masked.
THEOREM TypesHold == Spec => []TypeOK
<1>1. IInv /\ TypeOK /\ [Next]_vars => (IInv /\ TypeOK)'
  BY NextKeeps, TypesNext DEF IInv
<1>2. Init => IInv /\ TypeOK
  BY InitHolds, TypesInit
<1> QED
  BY <1>1, <1>2, PTL DEF Spec

-----------------------------------------------------------------------------
(* Putting pieces together                                                 *)

\* FlattenSeq, by the function it is defined with,
LEMMA FlattenIs ==
    ASSUME NEW U, NEW seqs \in Seq(Seq(U)), NEW n \in Nat \ {0}, Len(seqs) = n
    PROVE  \E f \in [1..n -> Seq(U)] : Flat(f, seqs, n) /\ FlattenSeq(seqs) = f[n]
<1>1. n \in 1..n /\ n \in Nat /\ \A i \in 1..n : seqs[i] \in Seq(U)
  OBVIOUS
<1> DEFINE f == CHOOSE g : Flat(g, seqs, n)
<1>2. Flat(f, seqs, n)
  BY <1>1, FlatExists
<1>3. FlattenSeq(seqs) = f[n]
  BY DEF FlattenSeq, Flat
<1> HIDE DEF f
<1>4. \A i \in 1..n : f[i] \in Seq(U)
  BY <1>1, <1>2, FlatTyped
<1>5. f \in [1..n -> Seq(U)]
  <2>1. f = [i \in 1..n |-> f[i]]
    BY <1>2 DEF Flat
  <2> QED
    BY <1>4, <2>1
<1> QED
  BY <1>2, <1>3, <1>5

\* of nothing and of one sequence more.
LEMMA FlattenEmpty == FlattenSeq(<<>>) = <<>>
BY DEF FlattenSeq

LEMMA FlattenAppend ==
    ASSUME NEW U, NEW s \in Seq(Seq(U)), NEW x \in Seq(U)
    PROVE  FlattenSeq(Append(s, x)) = FlattenSeq(s) \o x
<1>1. PICK n \in Nat : n = Len(s)
  OBVIOUS
<1>2. PICK q : q = Append(s, x)
  OBVIOUS
<1>3. /\ q \in Seq(Seq(U)) /\ Len(q) = n + 1 /\ q[n + 1] = x
      /\ \A i \in 1..n : s[i] = q[i]
  BY <1>1, <1>2
<1>4. PICK f \in [1..(n + 1) -> Seq(U)] : Flat(f, q, n + 1) /\ FlattenSeq(q) = f[n + 1]
  <2>1. n + 1 \in Nat \ {0} /\ Len(q) = n + 1 /\ q \in Seq(Seq(U))
    BY <1>3
  <2> QED
    BY <2>1, FlattenIs
<1>5. f[n + 1] = IF n + 1 = 1 THEN q[n + 1] ELSE f[n] \o q[n + 1]
  <2>1. n + 1 \in 1..(n + 1) /\ (n + 1) - 1 = n
    OBVIOUS
  <2> QED
    BY <1>4, <2>1 DEF Flat
<1>6. CASE n = 0
  <2>1. s = <<>>
    BY <1>1, <1>6, EmptySeq
  <2>2. FlattenSeq(q) = x
    BY <1>3, <1>4, <1>5, <1>6
  <2> QED
    BY <1>2, <2>1, <2>2, FlattenEmpty, ConcatEmptySeq
<1>7. CASE n # 0
  <2>1. PICK g \in [1..n -> Seq(U)] : Flat(g, s, n) /\ FlattenSeq(s) = g[n]
    <3>1. n \in Nat \ {0} /\ Len(s) = n
      BY <1>1, <1>7
    <3> QED
      BY <3>1, FlattenIs
  <2>2. f[n] = g[n]
    <3>1. \A i \in 1..n : g[i] = IF i = 1 THEN s[i] ELSE g[i - 1] \o s[i]
      BY <2>1 DEF Flat
    <3>2. \A i \in 1..n : f[i] = IF i = 1 THEN s[i] ELSE f[i - 1] \o s[i]
      <4>1. \A i \in 1..(n + 1) : f[i] = IF i = 1 THEN q[i] ELSE f[i - 1] \o q[i]
        BY <1>4 DEF Flat
      <4>2. 1..n \subseteq 1..(n + 1)
        OBVIOUS
      <4> QED
        BY <1>3, <4>1, <4>2
    <3>3. PICK G : G = {i \in 1..n : f[i] = g[i]}
      OBVIOUS
    <3>4. 1 \in G
      <4>1. 1 \in 1..n
        BY <1>7
      <4>2. f[1] = s[1] /\ g[1] = s[1]
        BY <3>1, <3>2, <4>1
      <4> QED
        BY <3>3, <4>1, <4>2
    <3>5. ASSUME NEW k \in 1..n, k + 1 \in 1..n, k \in G PROVE k + 1 \in G
      <4>1. k + 1 # 1 /\ (k + 1) - 1 = k /\ f[k] = g[k]
        BY <3>3, <3>5
      <4>2. f[k + 1] = f[k] \o s[k + 1] /\ g[k + 1] = g[k] \o s[k + 1]
        BY <3>1, <3>2, <3>5, <4>1
      <4> QED
        BY <3>3, <3>5, <4>1, <4>2
    <3>6. 1..n \subseteq G
      BY <3>4, <3>5, UpTo
    <3> QED
      BY <1>7, <3>3, <3>6
  <2>3. n + 1 # 1
    BY <1>7
  <2> QED
    BY <1>2, <1>3, <1>4, <1>5, <2>1, <2>2, <2>3
<1> QED
  BY <1>6, <1>7

LEMMA AppendConcat ==
    ASSUME NEW S, NEW s \in Seq(S), NEW p \in Seq(S), NEW x \in S
    PROVE  s \o Append(p, x) = Append(s \o p, x)
<1>1. PICK a : a = s \o Append(p, x)
  OBVIOUS
<1>2. PICK b : b = Append(s \o p, x)
  OBVIOUS
<1>3. a \in Seq(S) /\ b \in Seq(S) /\ Len(a) = Len(b) /\ Len(a) = Len(s) + Len(p) + 1
  BY <1>1, <1>2
<1>4. ASSUME NEW i \in 1..Len(a) PROVE a[i] = b[i]
  BY <1>1, <1>2, <1>3
<1>5. a = b
  BY <1>3, <1>4, SeqEqual
<1> QED
  BY <1>1, <1>2, <1>5

\* What holds of the empty sequence, and of one that is one longer than one it
\* holds of, holds of all: G is the set of those it holds of.
LEMMA ByAppending ==
    ASSUME NEW S, NEW G, <<>> \in G, \A s \in Seq(S), x \in S : s \in G => Append(s, x) \in G
    PROVE  Seq(S) \subseteq G
<1>1. SUFFICES ASSUME NEW q \in Seq(S), q \notin G PROVE FALSE
  OBVIOUS
<1>2. PICK T : T = {n \in Nat : \E r \in Seq(S) \ G : Len(r) = n}
  OBVIOUS
<1>3. T \in SUBSET Nat /\ Len(q) \in T
  BY <1>1, <1>2
<1>4. PICK n \in T : \A m \in T : n <= m
  BY <1>3, LeastNumber
<1>5. PICK r \in Seq(S) \ G : Len(r) = n
  BY <1>2
<1>6. PICK p \in Seq(S), x \in S : r = Append(p, x)
  BY <1>5, SequenceEmptyOrAppend
<1>7. Len(p) \in Nat /\ Len(p) < Len(r)
  BY <1>6
<1>8. p \in G
  BY <1>2, <1>3, <1>4, <1>5, <1>7
<1> QED
  BY <1>5, <1>6, <1>8

LEMMA FlattenLonger ==
    ASSUME NEW U, NEW s \in Seq(Seq(U)), NEW p \in Seq(Seq(U)), NEW x \in Seq(U),
           FlattenSeq(s \o p) = FlattenSeq(s) \o FlattenSeq(p)
    PROVE  FlattenSeq(s \o Append(p, x)) = FlattenSeq(s) \o FlattenSeq(Append(p, x))
<1>1. s \o Append(p, x) = Append(s \o p, x)
  BY AppendConcat
<1>2. s \o p \in Seq(Seq(U))
  OBVIOUS
<1>3. FlattenSeq(s \o Append(p, x)) = FlattenSeq(s \o p) \o x
  BY <1>1, <1>2, FlattenAppend
<1>4. FlattenSeq(Append(p, x)) = FlattenSeq(p) \o x
  BY FlattenAppend
<1>5. PICK a \in Seq(U) : a = FlattenSeq(s)
  BY FlattenTyped
<1>6. PICK b \in Seq(U) : b = FlattenSeq(p)
  BY FlattenTyped
<1>7. (a \o b) \o x = a \o (b \o x)
  OBVIOUS
<1> QED
  BY <1>3, <1>4, <1>5, <1>6, <1>7

\* Sequences put together in two parts.
LEMMA FlattenConcat ==
    ASSUME NEW U, NEW s \in Seq(Seq(U)), NEW q \in Seq(Seq(U))
    PROVE  FlattenSeq(s \o q) = FlattenSeq(s) \o FlattenSeq(q)
<1>1. PICK G : G = {r \in Seq(Seq(U)) : FlattenSeq(s \o r) = FlattenSeq(s) \o FlattenSeq(r)}
  OBVIOUS
<1>2. <<>> \in G
  <2>1. s \o <<>> = s
    OBVIOUS
  <2>2. FlattenSeq(s) \o <<>> = FlattenSeq(s)
    BY FlattenTyped, ConcatEmptySeq
  <2>3. <<>> \in Seq(Seq(U))
    OBVIOUS
  <2> QED
    BY <1>1, <2>1, <2>2, <2>3, FlattenEmpty
<1>3. ASSUME NEW p \in Seq(Seq(U)), NEW x \in Seq(U), p \in G PROVE Append(p, x) \in G
  <2>1. FlattenSeq(s \o p) = FlattenSeq(s) \o FlattenSeq(p)
    BY <1>1, <1>3
  <2>2. Append(p, x) \in Seq(Seq(U))
    OBVIOUS
  <2>3. FlattenSeq(s \o Append(p, x)) = FlattenSeq(s) \o FlattenSeq(Append(p, x))
    BY <2>1, FlattenLonger
  <2> QED
    BY <1>1, <2>2, <2>3
<1>4. Seq(Seq(U)) \subseteq G
  BY <1>2, <1>3, ByAppending
<1> QED
  BY <1>1, <1>4

-----------------------------------------------------------------------------
(* Replacing spans                                                         *)

SpansOf(S, last, by) == {[first |-> i, last |-> last[i], by |-> by[i]] : i \in S}

\* What comes of the unit at i.
Piece(t, S, last, by, i) ==
    IF \E k \in S : i \in (k + 1)..last[k] THEN <<>>
    ELSE IF i \in S THEN <<by[i]>> ELSE <<t[i]>>

Pieces(t, S, last, by) == [i \in 1..Len(t) |-> Piece(t, S, last, by, i)]

\* Units put together are the text.
LEMMA FlattenUnits ==
    ASSUME NEW U, NEW t \in Seq(U)
    PROVE  FlattenSeq([i \in 1..Len(t) |-> <<t[i]>>]) = t
<1>1. PICK G : G = {r \in Seq(U) : FlattenSeq([i \in 1..Len(r) |-> <<r[i]>>]) = r}
  OBVIOUS
<1>2. <<>> \in G
  <2>1. [i \in 1..Len(<<>>) |-> <<(<<>>)[i]>>] = <<>>
    OBVIOUS
  <2> QED
    BY <1>1, <2>1, FlattenEmpty
<1>3. ASSUME NEW r \in Seq(U), NEW x \in U, r \in G PROVE Append(r, x) \in G
  <2>1. PICK q : q = Append(r, x)
    OBVIOUS
  <2>2. PICK a : a = [i \in 1..Len(r) |-> <<r[i]>>]
    OBVIOUS
  <2>3. PICK b : b = [i \in 1..Len(q) |-> <<q[i]>>]
    OBVIOUS
  <2>4. /\ a \in Seq(Seq(U)) /\ b \in Seq(Seq(U)) /\ Append(a, <<x>>) \in Seq(Seq(U))
        /\ <<x>> \in Seq(U)
    BY <2>1, <2>2, <2>3
  <2>5. b = Append(a, <<x>>)
    <3>1. PICK c : c = Append(a, <<x>>)
      OBVIOUS
    <3>2. Len(b) = Len(c) /\ Len(b) = Len(r) + 1
      BY <2>1, <2>2, <2>3, <3>1
    <3>3. ASSUME NEW i \in 1..Len(b) PROVE b[i] = c[i]
      BY <2>1, <2>2, <2>3, <3>1, <3>2
    <3>4. b = c
      BY <2>4, <3>1, <3>2, <3>3, SeqEqual
    <3> QED
      BY <3>1, <3>4
  <2>6. FlattenSeq(a) = r
    BY <1>1, <1>3, <2>2
  <2>7. FlattenSeq(b) = r \o <<x>>
    BY <2>4, <2>5, <2>6, FlattenAppend
  <2>8. r \o <<x>> = q
    BY <2>1
  <2>9. q \in Seq(U) /\ FlattenSeq([i \in 1..Len(q) |-> <<q[i]>>]) = q
    <3>1. q \in Seq(U)
      BY <2>1
    <3>2. FlattenSeq(b) = q
      BY <2>7, <2>8
    <3> QED
      BY <2>3, <3>1, <3>2
  <2>10. q \in G
    BY <1>1, <2>9
  <2> QED
    BY <2>1, <2>10
<1>4. Seq(U) \subseteq G
  BY <1>2, <1>3, ByAppending
<1> QED
  BY <1>1, <1>4

\* The pieces Replace puts together.
LEMMA PiecesTyped ==
    ASSUME NEW U, NEW t \in Seq(U), NEW S, NEW last, NEW by, \A i \in S : by[i] \in U
    PROVE  Pieces(t, S, last, by) \in Seq(Seq(U)) /\ Len(Pieces(t, S, last, by)) = Len(t)
<1>1. ASSUME NEW i \in 1..Len(t) PROVE Piece(t, S, last, by, i) \in Seq(U)
  BY <1>1 DEF Piece
<1>2. \A i \in 1..Len(t) : Piece(t, S, last, by, i) \in Seq(U)
  BY <1>1
<1> QED
  BY <1>2 DEF Pieces

LEMMA ReplaceIs ==
    ASSUME NEW U, NEW t \in Seq(U), NEW S, NEW last, NEW by, \A i \in S : by[i] \in U
    PROVE  Replace(t, SpansOf(S, last, by)) = FlattenSeq(Pieces(t, S, last, by))
<1> DEFINE Spans == SpansOf(S, last, by)
           piece(i) == IF \E s \in Spans : i \in (s.first + 1)..s.last THEN <<>>
                       ELSE IF \E s \in Spans : s.first = i
                       THEN <<(CHOOSE s \in Spans : s.first = i).by>>
                       ELSE <<t[i]>>
<1>1. CASE S = {}
  <2>1. Spans = {}
    BY <1>1 DEF SpansOf
  <2>2. Pieces(t, S, last, by) = [i \in 1..Len(t) |-> <<t[i]>>]
    BY <1>1 DEF Pieces, Piece
  <2> QED
    BY <2>1, <2>2, FlattenUnits DEF Replace
<1>2. CASE S # {}
  <2>1. Spans # {}
    BY <1>2 DEF SpansOf
  <2>2. ASSUME NEW i \in 1..Len(t) PROVE piece(i) = Piece(t, S, last, by, i)
    <3>1. (\E s \in Spans : i \in (s.first + 1)..s.last) <=> (\E k \in S : i \in (k + 1)..last[k])
      <4>1. ASSUME NEW s \in Spans, i \in (s.first + 1)..s.last
            PROVE  \E k \in S : i \in (k + 1)..last[k]
        <5>1. PICK k \in S : s = [first |-> k, last |-> last[k], by |-> by[k]]
          BY DEF SpansOf
        <5>2. s.first = k /\ s.last = last[k]
          BY <5>1
        <5> HIDE DEF Spans
        <5> QED
          BY <4>1, <5>2
      <4>2. ASSUME NEW k \in S, i \in (k + 1)..last[k]
            PROVE  \E s \in Spans : i \in (s.first + 1)..s.last
        <5>1. PICK s : s = [first |-> k, last |-> last[k], by |-> by[k]]
          OBVIOUS
        <5>2. s \in Spans /\ s.first = k /\ s.last = last[k]
          BY <5>1 DEF SpansOf
        <5> HIDE DEF Spans
        <5> QED
          BY <4>2, <5>2
      <4> HIDE DEF Spans
      <4> QED
        BY <4>1, <4>2
    <3>2. (\E s \in Spans : s.first = i) <=> i \in S
      <4>1. ASSUME NEW s \in Spans, s.first = i PROVE i \in S
        <5>1. PICK k \in S : s = [first |-> k, last |-> last[k], by |-> by[k]]
          BY DEF SpansOf
        <5> HIDE DEF Spans
        <5> QED
          BY <4>1, <5>1
      <4>2. ASSUME i \in S PROVE \E s \in Spans : s.first = i
        <5>1. PICK s : s = [first |-> i, last |-> last[i], by |-> by[i]]
          OBVIOUS
        <5>2. s \in Spans /\ s.first = i
          BY <4>2, <5>1 DEF SpansOf
        <5> HIDE DEF Spans
        <5> QED
          BY <5>2
      <4> HIDE DEF Spans
      <4> QED
        BY <4>1, <4>2
    <3>3. ASSUME i \in S PROVE (CHOOSE s \in Spans : s.first = i).by = by[i]
      <4>1. \A s \in Spans : s.first = i => s.by = by[i]
        BY DEF SpansOf
      <4>2. \E s \in Spans : s.first = i
        BY <3>2, <3>3
      <4> QED
        BY <4>1, <4>2
    <3> HIDE DEF Spans
    <3> QED
      BY <3>1, <3>2, <3>3 DEF Piece
  <2>3. Replace(t, Spans) = FlattenSeq([i \in 1..Len(t) |-> piece(i)])
    BY <2>1 DEF Replace
  <2> HIDE DEF piece, Spans
  <2>4. [i \in 1..Len(t) |-> piece(i)] = Pieces(t, S, last, by)
    BY <2>2 DEF Pieces
  <2> QED
    BY <2>3, <2>4 DEF Spans
<1> QED
  BY <1>1, <1>2

LEMMA ConcatIs ==
    ASSUME NEW S, NEW a \in Seq(S), NEW b \in Seq(S)
    PROVE  /\ a \o b \in Seq(S) /\ Len(a \o b) = Len(a) + Len(b)
           /\ \A i \in 1..Len(a) : (a \o b)[i] = a[i]
           /\ \A i \in 1..Len(b) : (a \o b)[Len(a) + i] = b[i]
OBVIOUS

\* A sequence that has the elements of two others, in order.
LEMMA ConcatEqual ==
    ASSUME NEW S, NEW a \in Seq(S), NEW b \in Seq(S), NEW c \in Seq(S),
           Len(c) = Len(a) + Len(b),
           \A i \in 1..Len(a) : c[i] = a[i],
           \A i \in 1..Len(b) : c[Len(a) + i] = b[i]
    PROVE  c = a \o b
<1>1. PICK d : d = a \o b
  OBVIOUS
<1>2. /\ d \in Seq(S) /\ Len(d) = Len(a) + Len(b)
      /\ \A i \in 1..Len(a) : d[i] = a[i]
      /\ \A i \in 1..Len(b) : d[Len(a) + i] = b[i]
  BY <1>1, ConcatIs
<1>3. ASSUME NEW i \in 1..Len(c) PROVE c[i] = d[i]
  <2>1. i \in 1..Len(a) \/ (i - Len(a) \in 1..Len(b) /\ i = Len(a) + (i - Len(a)))
    OBVIOUS
  <2> QED
    BY <1>2, <2>1
<1>4. c = d
  BY <1>2, <1>3, SeqEqual
<1> QED
  BY <1>1, <1>4

\* Spans of a text, none of them over a place: those of the n units before it and
\* those of the m after it.
Apart(n, m, S, last, by, Su, lu, bu, Sv, lv, bv) ==
    /\ S \subseteq 1..(n + m) /\ Su \subseteq 1..n /\ Sv \subseteq 1..m
    /\ \A i \in 1..n : i \in S <=> i \in Su
    /\ \A i \in 1..m : n + i \in S <=> i \in Sv
    /\ \A i \in Su : last[i] = lu[i] /\ lu[i] \in 0..n /\ by[i] = bu[i]
    /\ \A i \in Sv : last[n + i] = n + lv[i] /\ lv[i] \in Nat /\ by[n + i] = bv[i]

\* The text can be cut there.
LEMMA ReplaceCut ==
    ASSUME NEW U, NEW u \in Seq(U), NEW v \in Seq(U), NEW S, NEW last, NEW by,
           NEW Su, NEW lu, NEW bu, NEW Sv, NEW lv, NEW bv,
           (\A i \in S : by[i] \in U) /\ (\A i \in Su : bu[i] \in U) /\ (\A i \in Sv : bv[i] \in U),
           Apart(Len(u), Len(v), S, last, by, Su, lu, bu, Sv, lv, bv)
    PROVE  Replace(u \o v, SpansOf(S, last, by))
             = Replace(u, SpansOf(Su, lu, bu)) \o Replace(v, SpansOf(Sv, lv, bv))
<1>1. PICK n \in Nat, m \in Nat : n = Len(u) /\ m = Len(v)
  OBVIOUS
<1>2. Apart(n, m, S, last, by, Su, lu, bu, Sv, lv, bv)
  BY <1>1
<1>3. /\ S \subseteq 1..(n + m) /\ Su \subseteq 1..n /\ Sv \subseteq 1..m
      /\ \A i \in 1..n : i \in S <=> i \in Su
      /\ \A i \in 1..m : n + i \in S <=> i \in Sv
      /\ \A i \in Su : last[i] = lu[i] /\ lu[i] \in 0..n /\ by[i] = bu[i]
      /\ \A i \in Sv : last[n + i] = n + lv[i] /\ lv[i] \in Nat /\ by[n + i] = bv[i]
  BY <1>2 DEF Apart
<1>4. PICK t : t = u \o v
  OBVIOUS
<1>5. /\ t \in Seq(U) /\ Len(t) = n + m /\ m \in Nat
      /\ \A i \in 1..n : t[i] = u[i]
      /\ \A i \in 1..m : t[n + i] = v[i]
  BY <1>1, <1>4
<1>6. ASSUME NEW i \in 1..n PROVE Piece(t, S, last, by, i) = Piece(u, Su, lu, bu, i)
  <2>1. ASSUME NEW k \in S, i \in (k + 1)..last[k] PROVE k \in Su /\ i \in (k + 1)..lu[k]
    <3>1. k \in 1..(n + m) /\ k < i
      BY <1>3, <2>1
    <3>2. k \in 1..n
      BY <1>6, <2>1, <3>1
    <3>3. k \in Su /\ last[k] = lu[k]
      BY <1>3, <3>2
    <3> QED
      BY <2>1, <3>3
  <2>2. ASSUME NEW k \in Su, i \in (k + 1)..lu[k] PROVE k \in S /\ i \in (k + 1)..last[k]
    BY <1>3, <2>2
  <2>3. (\E k \in S : i \in (k + 1)..last[k]) <=> (\E k \in Su : i \in (k + 1)..lu[k])
    BY <2>1, <2>2
  <2>4. i \in S <=> i \in Su
    BY <1>3
  <2>5. i \in Su => by[i] = bu[i]
    BY <1>3
  <2>6. t[i] = u[i]
    BY <1>5
  <2> QED
    BY <2>3, <2>4, <2>5, <2>6 DEF Piece
<1>7. ASSUME NEW i \in 1..m PROVE Piece(t, S, last, by, n + i) = Piece(v, Sv, lv, bv, i)
  <2>1. ASSUME NEW k \in S, n + i \in (k + 1)..last[k]
        PROVE  \E j \in Sv : i \in (j + 1)..lv[j]
    <3>1. k \in 1..(n + m)
      BY <1>3
    <3>2. k \notin 1..n
      <4>1. ASSUME k \in 1..n PROVE FALSE
        <5>1. k \in Su /\ last[k] \in 0..n
          BY <1>3, <2>1, <4>1
        <5> QED
          BY <2>1, <5>1
      <4> QED
        BY <4>1
    <3>3. PICK j \in 1..m : k = n + j
      <4>1. k - n \in 1..m /\ k = n + (k - n)
        BY <1>5, <3>1, <3>2
      <4> QED
        BY <4>1
    <3>4. j \in Sv /\ last[k] = n + lv[j] /\ lv[j] \in Nat
      BY <1>3, <2>1, <3>3
    <3>5. i \in (j + 1)..lv[j]
      BY <2>1, <3>3, <3>4
    <3> QED
      BY <3>4, <3>5
  <2>2. ASSUME NEW j \in Sv, i \in (j + 1)..lv[j]
        PROVE  \E k \in S : n + i \in (k + 1)..last[k]
    <3>1. j \in 1..m /\ n + j \in S /\ last[n + j] = n + lv[j] /\ lv[j] \in Nat
      BY <1>3, <2>2
    <3>2. n + i \in ((n + j) + 1)..last[n + j]
      BY <2>2, <3>1
    <3> QED
      BY <3>1, <3>2
  <2>3. (\E k \in S : n + i \in (k + 1)..last[k]) <=> (\E j \in Sv : i \in (j + 1)..lv[j])
    BY <2>1, <2>2
  <2>4. n + i \in S <=> i \in Sv
    BY <1>3
  <2>5. i \in Sv => by[n + i] = bv[i]
    BY <1>3
  <2>6. t[n + i] = v[i]
    BY <1>5
  <2> QED
    BY <2>3, <2>4, <2>5, <2>6 DEF Piece
<1>8. PICK a : a = Pieces(u, Su, lu, bu)
  OBVIOUS
<1>9. PICK b : b = Pieces(v, Sv, lv, bv)
  OBVIOUS
<1>10. PICK c : c = Pieces(t, S, last, by)
  OBVIOUS
<1>11. a \in Seq(Seq(U)) /\ Len(a) = n
  BY <1>1, <1>8, PiecesTyped
<1>12. b \in Seq(Seq(U)) /\ Len(b) = m
  BY <1>1, <1>9, PiecesTyped
<1>13. c \in Seq(Seq(U)) /\ Len(c) = n + m
  BY <1>5, <1>10, PiecesTyped
<1>14. c = a \o b
  <2>1. ASSUME NEW i \in 1..n PROVE c[i] = a[i]
    <3>1. i \in 1..Len(t) /\ i \in 1..Len(u)
      BY <1>1, <1>5
    <3>2. c[i] = Piece(t, S, last, by, i) /\ a[i] = Piece(u, Su, lu, bu, i)
      BY <1>8, <1>10, <3>1 DEF Pieces
    <3> QED
      BY <1>6, <3>2
  <2>2. ASSUME NEW i \in 1..m PROVE c[n + i] = b[i]
    <3>1. n + i \in 1..Len(t) /\ i \in 1..Len(v)
      BY <1>1, <1>5
    <3>2. c[n + i] = Piece(t, S, last, by, n + i) /\ b[i] = Piece(v, Sv, lv, bv, i)
      BY <1>9, <1>10, <3>1 DEF Pieces
    <3> QED
      BY <1>7, <3>2
  <2>3. PICK V : V = Seq(U)
    OBVIOUS
  <2>4. a \in Seq(V) /\ b \in Seq(V) /\ c \in Seq(V)
    BY <1>11, <1>12, <1>13, <2>3
  <2>5. /\ Len(c) = Len(a) + Len(b)
        /\ \A i \in 1..Len(a) : c[i] = a[i]
        /\ \A i \in 1..Len(b) : c[Len(a) + i] = b[i]
    BY <1>11, <1>12, <1>13, <2>1, <2>2
  <2> QED
    BY <2>4, <2>5, ConcatEqual
<1>15. FlattenSeq(c) = FlattenSeq(a) \o FlattenSeq(b)
  BY <1>14, <1>11, <1>12, FlattenConcat
<1>16. Replace(u, SpansOf(Su, lu, bu)) = FlattenSeq(a)
  BY <1>8, ReplaceIs
<1>17. Replace(v, SpansOf(Sv, lv, bv)) = FlattenSeq(b)
  BY <1>9, ReplaceIs
<1>18. Replace(t, SpansOf(S, last, by)) = FlattenSeq(c)
  BY <1>5, <1>10, ReplaceIs
<1> QED
  BY <1>4, <1>15, <1>16, <1>17, <1>18

\* Nothing put together is nothing.
LEMMA FlattenBlank == \A s \in Seq({<<>>}) : FlattenSeq(s) = <<>>
<1>1. PICK G : G = {s \in Seq({<<>>}) : FlattenSeq(s) = <<>>}
  OBVIOUS
<1>2. <<>> \in G
  BY <1>1, FlattenEmpty
<1>3. ASSUME NEW r \in Seq({<<>>}), NEW x \in {<<>>}, r \in G PROVE Append(r, x) \in G
  <2>1. {<<>>} \subseteq Seq({1})
    OBVIOUS
  <2>2. PICK V : V = Seq({1})
    OBVIOUS
  <2>3. {<<>>} \subseteq V
    BY <2>2
  <2>4. r \in Seq(V) /\ x \in V
    BY <2>3
  <2>5. r \in Seq(Seq({1})) /\ x \in Seq({1}) /\ x = <<>> /\ FlattenSeq(r) = <<>>
    BY <1>1, <1>3, <2>2, <2>4
  <2>6. FlattenSeq(Append(r, x)) = FlattenSeq(r) \o x
    BY <2>5, FlattenAppend
  <2>7. FlattenSeq(Append(r, x)) = <<>>
    BY <2>5, <2>6
  <2>8. Append(r, x) \in Seq({<<>>})
    OBVIOUS
  <2> QED
    BY <1>1, <2>7, <2>8
<1>4. Seq({<<>>}) \subseteq G
  BY <1>2, <1>3, ByAppending
<1> QED
  BY <1>1, <1>4

\* A text that is one span is replaced by one unit.
LEMMA ReplaceSpan ==
    ASSUME NEW U, NEW t \in Seq(U), t # <<>>, NEW S, S = {1}, NEW last, last[1] = Len(t),
           NEW by, by[1] \in U
    PROVE  Replace(t, SpansOf(S, last, by)) = <<by[1]>>
<1>1. PICK n \in Nat : Len(t) = n + 1
  <2>1. Len(t) \in Nat /\ Len(t) # 0
    OBVIOUS
  <2>2. Len(t) - 1 \in Nat /\ Len(t) = (Len(t) - 1) + 1
    BY <2>1
  <2> QED
    BY <2>2
<1>2. PICK b : b = [i \in 1..n |-> <<>>]
  OBVIOUS
<1>3. b \in Seq({<<>>}) /\ b \in Seq(Seq(U)) /\ Len(b) = n /\ \A i \in 1..n : b[i] = <<>>
  BY <1>2
<1>4. PICK e \in Seq(U) : e = <<by[1]>>
  <2>1. PICK x \in U : x = by[1]
    OBVIOUS
  <2>2. <<x>> \in Seq(U)
    OBVIOUS
  <2> QED
    BY <2>1, <2>2
<1>5. PICK a : a = <<e>>
  OBVIOUS
<1>6. a \in Seq(Seq(U)) /\ Len(a) = 1 /\ a[1] = e
  BY <1>5
<1>7. PICK c : c = Pieces(t, S, last, by)
  OBVIOUS
<1>8. \A i \in S : by[i] \in U
  OBVIOUS
<1>9. c \in Seq(Seq(U)) /\ Len(c) = n + 1
  BY <1>1, <1>7, <1>8, PiecesTyped
<1>10. \A i \in 1..(n + 1) : c[i] = Piece(t, S, last, by, i)
  BY <1>1, <1>7 DEF Pieces
<1>11. c = a \o b
  <2>1. c[1] = e
    <3>1. Piece(t, S, last, by, 1) = <<by[1]>>
      BY DEF Piece
    <3> QED
      BY <1>4, <1>10, <3>1
  <2>2. ASSUME NEW i \in 1..n PROVE c[1 + i] = <<>>
    <3>1. 1 + i \in (1 + 1)..last[1] /\ 1 + i \in 1..(n + 1)
      BY <1>1
    <3>2. Piece(t, S, last, by, 1 + i) = <<>>
      BY <3>1 DEF Piece
    <3> QED
      BY <1>10, <3>1, <3>2
  <2>3. PICK V : V = Seq(U)
    OBVIOUS
  <2>4. a \in Seq(V) /\ b \in Seq(V) /\ c \in Seq(V)
    BY <1>3, <1>6, <1>9, <2>3
  <2>5. /\ Len(c) = Len(a) + Len(b)
        /\ \A i \in 1..Len(a) : c[i] = a[i]
        /\ \A i \in 1..Len(b) : c[Len(a) + i] = b[i]
    BY <1>3, <1>6, <1>9, <2>1, <2>2
  <2> QED
    BY <2>4, <2>5, ConcatEqual
<1>12. FlattenSeq(c) = FlattenSeq(a) \o FlattenSeq(b)
  BY <1>3, <1>6, <1>11, FlattenConcat
<1>13. FlattenSeq(b) = <<>>
  BY <1>3, FlattenBlank
<1>14. FlattenSeq(a) = e
  <2>1. <<>> \in Seq(Seq(U)) /\ a = Append(<<>>, e)
    BY <1>5
  <2>2. FlattenSeq(a) = FlattenSeq(<<>>) \o e
    BY <2>1, FlattenAppend
  <2>3. <<>> \o e = e
    OBVIOUS
  <2> QED
    BY <2>2, <2>3, FlattenEmpty
<1>15. FlattenSeq(c) = e
  <2>1. e \o <<>> = e
    OBVIOUS
  <2> QED
    BY <1>12, <1>13, <1>14, <2>1
<1>16. Replace(t, SpansOf(S, last, by)) = FlattenSeq(c)
  BY <1>7, <1>8, ReplaceIs
<1> QED
  BY <1>4, <1>15, <1>16

-----------------------------------------------------------------------------
(* Placeholders                                                            *)

\* The longest run is the one that ends where the next unit is not of it.
LEMMA RunEndIs ==
    ASSUME NEW U, NEW t \in Seq(U), NEW i \in Nat \ {0}, NEW S, NEW j \in (i - 1)..Len(t),
           \A k \in i..j : t[k] \in S, j < Len(t) => t[j + 1] \notin S
    PROVE  RunEnd(t, i, S) = j
<1>1. ASSUME NEW e \in (i - 1)..Len(t), \A k \in i..e : t[k] \in S,
             e < Len(t) => t[e + 1] \notin S
      PROVE  e = j
  <2>1. CASE e < j
    <3>1. e + 1 \in i..j /\ e < Len(t)
      BY <2>1
    <3> QED
      BY <1>1, <3>1
  <2>2. CASE j < e
    <3>1. j + 1 \in i..e /\ j < Len(t)
      BY <2>2
    <3> QED
      BY <1>1, <3>1
  <2> QED
    BY <2>1, <2>2
<1> QED
  BY <1>1 DEF RunEnd

LEMMA RunEndTyped ==
    ASSUME NEW U, NEW t \in Seq(U), NEW i \in 1..(Len(t) + 1), NEW S
    PROVE  /\ RunEnd(t, i, S) \in (i - 1)..Len(t)
           /\ \A k \in i..RunEnd(t, i, S) : t[k] \in S
           /\ RunEnd(t, i, S) < Len(t) => t[RunEnd(t, i, S) + 1] \notin S
<1>1. PICK n \in Nat : n = Len(t)
  OBVIOUS
<1>2. PICK T : T = {j \in (i - 1)..n : j = n \/ t[j + 1] \notin S}
  OBVIOUS
<1>3. T \in SUBSET Nat /\ n \in T
  BY <1>1, <1>2
<1>4. PICK j \in T : \A k \in T : j <= k
  BY <1>3, LeastNumber
<1>5. j \in (i - 1)..n /\ (j < n => t[j + 1] \notin S)
  BY <1>1, <1>2
<1>6. ASSUME NEW k \in i..j PROVE t[k] \in S
  <2>1. k - 1 \in (i - 1)..n /\ k - 1 # n /\ ~(j <= k - 1) /\ (k - 1) + 1 = k
    BY <1>1, <1>5
  <2>2. k - 1 \notin T
    BY <1>4, <2>1
  <2> QED
    BY <1>2, <2>1, <2>2
<1>7. RunEnd(t, i, S) = j
  BY <1>1, <1>5, <1>6, RunEndIs
<1> QED
  BY <1>1, <1>5, <1>6, <1>7

\* Short parts of a text.
LEMMA SubSeqShort ==
    ASSUME NEW U, NEW t \in Seq(U), NEW i \in 1..Len(t)
    PROVE  /\ SubSeq(t, i, i) = <<t[i]>>
           /\ i + 1 <= Len(t) => SubSeq(t, i, i + 1) = <<t[i], t[i + 1]>>
           /\ i + 2 <= Len(t) => SubSeq(t, i, i + 2) = <<t[i], t[i + 1], t[i + 2]>>
<1>1. SubSeq(t, i, i) = <<t[i]>>
  <2>1. PICK a : a = SubSeq(t, i, i)
    OBVIOUS
  <2>2. PICK x \in U : x = t[i]
    OBVIOUS
  <2>3. PICK b : b = <<x>>
    OBVIOUS
  <2>4. a \in Seq(U) /\ Len(a) = 1 /\ a[1] = x
    BY <2>1, <2>2
  <2>5. b \in Seq(U) /\ Len(b) = 1 /\ b[1] = x
    BY <2>3
  <2>6. a = b
    BY <2>4, <2>5, SeqEqual
  <2> QED
    BY <2>1, <2>2, <2>3, <2>6
<1>2. ASSUME i + 1 <= Len(t) PROVE SubSeq(t, i, i + 1) = <<t[i], t[i + 1]>>
  <2>1. PICK a : a = SubSeq(t, i, i + 1)
    OBVIOUS
  <2>2. PICK x \in U, y \in U : x = t[i] /\ y = t[i + 1]
    BY <1>2
  <2>3. PICK b : b = <<x, y>>
    OBVIOUS
  <2>4. a \in Seq(U) /\ Len(a) = 2 /\ a[1] = x /\ a[2] = y
    BY <1>2, <2>1, <2>2
  <2>5. b \in Seq(U) /\ Len(b) = 2 /\ b[1] = x /\ b[2] = y
    BY <2>3
  <2>6. a = b
    BY <2>4, <2>5, SeqEqual
  <2> QED
    BY <2>1, <2>2, <2>3, <2>6
<1>3. ASSUME i + 2 <= Len(t) PROVE SubSeq(t, i, i + 2) = <<t[i], t[i + 1], t[i + 2]>>
  <2>1. PICK a : a = SubSeq(t, i, i + 2)
    OBVIOUS
  <2>2. PICK x \in U, y \in U, z \in U : x = t[i] /\ y = t[i + 1] /\ z = t[i + 2]
    BY <1>3
  <2>3. PICK b : b = <<x, y, z>>
    OBVIOUS
  <2>4. a \in Seq(U) /\ Len(a) = 3 /\ a[1] = x /\ a[2] = y /\ a[3] = z
    BY <1>3, <2>1, <2>2
  <2>5. b \in Seq(U) /\ Len(b) = 3 /\ b[1] = x /\ b[2] = y /\ b[3] = z
    BY <2>3
  <2>6. a = b
    BY <2>4, <2>5, SeqEqual
  <2> QED
    BY <2>1, <2>2, <2>3, <2>6
<1> QED
  BY <1>1, <1>2, <1>3

\* The unit at a place, or that there is none.
At(t, i) == IF i \in 1..Len(t) THEN t[i] ELSE "end"

\* What a placeholder is, is in six units.
NumberOf(d, e, f) ==
    IF e \notin Digits THEN Number(<<d>>)
    ELSE IF f \in Digits THEN -1
    ELSE Number(<<d, e>>)

PhNumber(t, i) == NumberOf(At(t, i + 3), At(t, i + 4), At(t, i + 5))

PhAt(t, i) ==
    /\ At(t, i) = "[ipaddres" /\ At(t, i + 1) = "s" /\ At(t, i + 2) = "-"
    /\ At(t, i + 3) \in Digits
    /\ PhNumber(t, i) \in Known

PhLast(t, i) ==
    IF At(t, i + 4) \in Digits
    THEN IF At(t, i + 5) = "]" THEN i + 5 ELSE i + 4
    ELSE IF At(t, i + 4) = "]" THEN i + 4 ELSE i + 3

PhSet(t) == {i \in 1..Len(t) : PhAt(t, i)}
PhLasts(t) == [i \in 1..Len(t) |-> PhLast(t, i)]
PhBys(t) == [i \in 1..Len(t) |-> Address[PhNumber(t, i)]]

LEMMA EndNoDigit == "end" \notin Digits /\ "]" \notin Digits
BY DEF Digits

\* StartsNumber and Placeholders, unit by unit.
LEMMA StartsIs ==
    ASSUME NEW U, NEW t \in Seq(U), NEW i \in 1..Len(t)
    PROVE  StartsNumber(t, i) <=>
             /\ At(t, i) = "[ipaddres" /\ At(t, i + 1) = "s" /\ At(t, i + 2) = "-"
             /\ At(t, i + 3) \in Digits
<1>1. CASE i + 3 <= Len(t)
  <2>1. /\ i + 1 \in 1..Len(t) /\ i + 2 \in 1..Len(t) /\ i + 3 \in 1..Len(t)
        /\ At(t, i) = t[i] /\ At(t, i + 1) = t[i + 1] /\ At(t, i + 2) = t[i + 2]
        /\ At(t, i + 3) = t[i + 3]
    BY <1>1 DEF At
  <2>2. SubSeq(t, i, i + 2) = <<t[i], t[i + 1], t[i + 2]>>
    BY <1>1, SubSeqShort
  <2> QED
    BY <1>1, <2>1, <2>2 DEF StartsNumber
<1>2. CASE ~(i + 3 <= Len(t))
  <2>1. At(t, i + 3) = "end"
    BY <1>2 DEF At
  <2> QED
    BY <1>2, <2>1, EndNoDigit DEF StartsNumber
<1> QED
  BY <1>1, <1>2

LEMMA LongNumber ==
    ASSUME NEW U, NEW s \in Seq(U), Len(s) > 2
    PROVE  Number(s) = -1
<1>1. /\ Len(<<"0">>) = 1 /\ Len(<<"1">>) = 1 /\ Len(<<"0", "0">>) = 2
      /\ Len(<<"0", "1">>) = 2 /\ Len(<<"1", "2">>) = 2
  OBVIOUS
<1>2. s \notin {<<"0">>, <<"0", "0">>} /\ s \notin {<<"1">>, <<"0", "1">>} /\ s # <<"1", "2">>
  <2>1. PICK n : n = Len(s)
    OBVIOUS
  <2>2. n # 1 /\ n # 2
    BY <2>1
  <2> QED
    BY <1>1, <2>1, <2>2, Zenon
<1> QED
  BY <1>2 DEF Number

LEMMA NotKnown == -1 \notin Known
BY StreamRelayAssumption

LEMMA PlaceholderIs ==
    ASSUME NEW U, NEW t \in Seq(U), NEW i \in 1..Len(t), StartsNumber(t, i)
    PROVE  LET end == RunEnd(t, i + 3, Digits) IN
           /\ Number(SubSeq(t, i + 3, end)) = PhNumber(t, i)
           /\ PhNumber(t, i) \in Known =>
                (IF end < Len(t) /\ t[end + 1] = "]" THEN end + 1 ELSE end) = PhLast(t, i)
<1>1. i + 3 \in 1..Len(t) /\ t[i + 3] \in Digits /\ At(t, i + 3) = t[i + 3]
  <2>1. i + 3 \in 1..Len(t)
    BY DEF StartsNumber
  <2> QED
    BY <2>1 DEF StartsNumber, At
<1>2. PICK end : end = RunEnd(t, i + 3, Digits)
  OBVIOUS
<1>3. /\ end \in (i + 2)..Len(t) /\ \A k \in (i + 3)..end : t[k] \in Digits
      /\ end < Len(t) => t[end + 1] \notin Digits
  <2>1. i + 3 \in 1..(Len(t) + 1) /\ (i + 3) - 1 = i + 2
    BY <1>1
  <2> QED
    BY <1>2, <2>1, RunEndTyped
<1>4. end # i + 2
  <2>1. (i + 2) + 1 = i + 3 /\ i + 2 < Len(t)
    BY <1>1
  <2> QED
    BY <1>1, <1>3, <2>1
<1>5. CASE end = i + 3
  <2>1. At(t, i + 4) \notin Digits
    BY <1>3, <1>5, EndNoDigit DEF At
  <2>2. SubSeq(t, i + 3, end) = <<At(t, i + 3)>>
    BY <1>1, <1>5, SubSeqShort
  <2>3. Number(SubSeq(t, i + 3, end)) = PhNumber(t, i)
    BY <2>1, <2>2 DEF PhNumber, NumberOf
  <2>4. (end < Len(t) /\ t[end + 1] = "]") <=> At(t, i + 4) = "]"
    BY <1>1, <1>5 DEF At
  <2> QED
    BY <1>2, <1>5, <2>1, <2>3, <2>4 DEF PhLast
<1>6. CASE end = i + 4
  <2>1. i + 4 \in 1..Len(t) /\ At(t, i + 4) = t[i + 4] /\ At(t, i + 4) \in Digits
    BY <1>1, <1>3, <1>6 DEF At
  <2>2. At(t, i + 5) \notin Digits
    BY <1>3, <1>6, EndNoDigit DEF At
  <2>3. SubSeq(t, i + 3, end) = <<At(t, i + 3), At(t, i + 4)>>
    <3>1. (i + 3) + 1 = i + 4 /\ i + 4 <= Len(t)
      BY <2>1
    <3>2. SubSeq(t, i + 3, (i + 3) + 1) = <<t[i + 3], t[(i + 3) + 1]>>
      BY <1>1, <3>1, SubSeqShort
    <3> QED
      BY <1>1, <1>6, <2>1, <3>1, <3>2
  <2>4. Number(SubSeq(t, i + 3, end)) = PhNumber(t, i)
    BY <2>1, <2>2, <2>3 DEF PhNumber, NumberOf
  <2>5. (end < Len(t) /\ t[end + 1] = "]") <=> At(t, i + 5) = "]"
    BY <1>1, <1>6 DEF At
  <2> QED
    BY <1>2, <1>6, <2>1, <2>4, <2>5 DEF PhLast
<1>7. CASE end > i + 4
  <2>1. /\ i + 4 \in (i + 3)..end /\ i + 5 \in (i + 3)..end
        /\ i + 4 \in 1..Len(t) /\ i + 5 \in 1..Len(t)
    BY <1>1, <1>3, <1>7
  <2>2. At(t, i + 4) \in Digits /\ At(t, i + 5) \in Digits
    BY <1>3, <2>1 DEF At
  <2>3. SubSeq(t, i + 3, end) \in Seq(U) /\ Len(SubSeq(t, i + 3, end)) > 2
    BY <1>1, <1>3, <1>7
  <2>4. PhNumber(t, i) = -1 /\ Number(SubSeq(t, i + 3, end)) = -1
    BY <2>2, <2>3, LongNumber DEF PhNumber, NumberOf
  <2> QED
    BY <1>2, <2>4, NotKnown
<1> QED
  BY <1>3, <1>4, <1>5, <1>6, <1>7

LEMMA PlaceholdersAre ==
    ASSUME NEW U, NEW t \in Seq(U)
    PROVE  Placeholders(t) = SpansOf(PhSet(t), PhLasts(t), PhBys(t))
<1> DEFINE end(i) == RunEnd(t, i + 3, Digits)
           number(i) == Number(SubSeq(t, i + 3, end(i)))
           last(i) == IF end(i) < Len(t) /\ t[end(i) + 1] = "]" THEN end(i) + 1 ELSE end(i)
           S == {k \in 1..Len(t) : StartsNumber(t, k) /\ number(k) \in Known}
<1>1. Placeholders(t) = {[first |-> i, last |-> last(i), by |-> Address[number(i)]] : i \in S}
  BY DEF Placeholders
<1>2. ASSUME NEW i \in 1..Len(t)
      PROVE  /\ (StartsNumber(t, i) /\ number(i) \in Known) <=> PhAt(t, i)
             /\ PhAt(t, i) => last(i) = PhLast(t, i) /\ number(i) = PhNumber(t, i)
  <2>1. StartsNumber(t, i) => number(i) = PhNumber(t, i)
                              /\ (PhNumber(t, i) \in Known => last(i) = PhLast(t, i))
    BY PlaceholderIs
  <2> HIDE DEF number, last, end
  <2> QED
    BY <2>1, StartsIs DEF PhAt
<1> HIDE DEF number, last, end
<1>3. S = PhSet(t)
  BY <1>2 DEF PhSet
<1>4. \A i \in PhSet(t) : /\ last(i) = PhLasts(t)[i] /\ Address[number(i)] = PhBys(t)[i]
  BY <1>2 DEF PhSet, PhLasts, PhBys
<1> HIDE DEF S
<1> QED
  BY <1>1, <1>3, <1>4 DEF SpansOf

LEMMA AtConcat ==
    ASSUME NEW U, NEW u \in Seq(U), NEW v \in Seq(U), NEW i \in Nat \ {0}
    PROVE  /\ i <= Len(u) => At(u \o v, i) = At(u, i)
           /\ At(u \o v, Len(u) + i) = At(v, i)
<1>1. PICK t : t = u \o v
  OBVIOUS
<1>2. PICK n \in Nat, m \in Nat : n = Len(u) /\ m = Len(v)
  OBVIOUS
<1>3. /\ Len(t) = n + m /\ \A k \in 1..n : t[k] = u[k]
      /\ \A k \in 1..m : t[n + k] = v[k]
  BY <1>1, <1>2, ConcatIs
<1>4. i <= n => At(t, i) = At(u, i)
  BY <1>2, <1>3 DEF At
<1>5. At(t, n + i) = At(v, i)
  BY <1>2, <1>3 DEF At
<1> QED
  BY <1>1, <1>2, <1>4, <1>5

\* Where a text is "end", and where it is not.
LEMMA AtEnd ==
    ASSUME NEW t \in Seq(Text), NEW i \in Nat \ {0}
    PROVE  /\ i <= Len(t) <=> At(t, i) # "end"
           /\ i <= Len(t) => At(t, i) = t[i] /\ t[i] \in Text
           /\ "end" \notin Text
<1>1. "end" \notin Text
  BY DEF Text, Units, Addresses, Digits
<1> QED
  BY <1>1 DEF At

\* Nothing before a placeholder matters to it,
LEMMA PhShift ==
    ASSUME NEW u \in Seq(Text), NEW v \in Seq(Text), NEW i \in 1..Len(v)
    PROVE  /\ PhAt(u \o v, Len(u) + i) <=> PhAt(v, i)
           /\ PhNumber(u \o v, Len(u) + i) = PhNumber(v, i)
           /\ PhLast(u \o v, Len(u) + i) = Len(u) + PhLast(v, i)
<1>1. PICK n \in Nat : n = Len(u)
  OBVIOUS
<1>2. PICK t : t = u \o v
  OBVIOUS
<1>3. \A j \in Nat \ {0} : At(t, n + j) = At(v, j)
  BY <1>1, <1>2, AtConcat
<1>4. /\ At(t, n + i) = At(v, i)
      /\ At(t, (n + i) + 1) = At(v, i + 1) /\ At(t, (n + i) + 2) = At(v, i + 2)
      /\ At(t, (n + i) + 3) = At(v, i + 3) /\ At(t, (n + i) + 4) = At(v, i + 4)
      /\ At(t, (n + i) + 5) = At(v, i + 5)
  <2>1. ASSUME NEW d \in 0..5 PROVE At(t, (n + i) + d) = At(v, i + d)
    <3>1. PICK j \in Nat \ {0} : j = i + d
      OBVIOUS
    <3>2. (n + i) + d = n + j
      BY <3>1
    <3> QED
      BY <1>3, <3>1, <3>2
  <2>2. (n + i) + 0 = n + i /\ i + 0 = i
    OBVIOUS
  <2> QED
    BY <2>1, <2>2
<1>5. PhNumber(t, n + i) = PhNumber(v, i)
  BY <1>4 DEF PhNumber
<1>6. PhAt(t, n + i) <=> PhAt(v, i)
  BY <1>4, <1>5 DEF PhAt
<1>7. PhLast(t, n + i) = n + PhLast(v, i)
  <2>1. /\ n + (i + 3) = (n + i) + 3 /\ n + (i + 4) = (n + i) + 4 /\ n + (i + 5) = (n + i) + 5
    OBVIOUS
  <2> QED
    BY <1>4, <2>1 DEF PhLast
<1> QED
  BY <1>1, <1>2, <1>5, <1>6, <1>7

\* it ends in the text,
LEMMA PhEnds ==
    ASSUME NEW t \in Seq(Text), NEW i \in 1..Len(t), PhAt(t, i)
    PROVE  /\ PhLast(t, i) \in (i + 3)..Len(t)
           /\ \A j \in (i + 1)..PhLast(t, i) : t[j] \in {"s", "-", "]"} \cup Digits
<1>1. /\ At(t, i + 1) # "end" /\ At(t, i + 2) # "end" /\ At(t, i + 3) # "end"
      /\ At(t, i + 1) = "s" /\ At(t, i + 2) = "-" /\ At(t, i + 3) \in Digits
  BY EndNoDigit DEF PhAt
<1>2. At(t, i + 4) \in Digits => At(t, i + 4) # "end"
  BY EndNoDigit
<1>3. PhLast(t, i) \in (i + 3)..Len(t)
  <2>1. i + 3 <= Len(t)
    BY <1>1, AtEnd
  <2>2. At(t, i + 4) # "end" => i + 4 <= Len(t)
    BY AtEnd
  <2>3. At(t, i + 5) # "end" => i + 5 <= Len(t)
    BY AtEnd
  <2> QED
    BY <1>2, <2>1, <2>2, <2>3 DEF PhLast
<1>4. PhLast(t, i) \in {i + 3, i + 4, i + 5}
  BY DEF PhLast
<1>5. PhLast(t, i) = i + 4 => At(t, i + 4) \in {"]"} \cup Digits
  BY DEF PhLast
<1>6. PhLast(t, i) = i + 5 => At(t, i + 4) \in Digits /\ At(t, i + 5) = "]"
  BY DEF PhLast
<1>7. ASSUME NEW j \in (i + 1)..PhLast(t, i) PROVE t[j] \in {"s", "-", "]"} \cup Digits
  <2>1. At(t, j) = t[j]
    BY <1>3 DEF At
  <2>2. j \in {i + 1, i + 2, i + 3, i + 4, i + 5}
    BY <1>4
  <2>3. j = i + 4 => PhLast(t, i) \in {i + 4, i + 5}
    BY <1>4
  <2>4. j = i + 5 => PhLast(t, i) = i + 5
    BY <1>4
  <2> QED
    BY <1>1, <1>5, <1>6, <2>1, <2>2, <2>3, <2>4
<1> QED
  BY <1>3, <1>7

\* and gives an address.
LEMMA PhAddress ==
    ASSUME NEW t, NEW i, PhAt(t, i)
    PROVE  Address[PhNumber(t, i)] \in Addresses
<1>1. PhNumber(t, i) \in {0, 1, 12}
  BY StreamRelayAssumption DEF PhAt
<1>2. \A n \in {0, 1, 12} : Address[n] \in Addresses
  BY DEF Address, Addresses
<1> QED
  BY <1>1, <1>2

LEMMA PhBysTyped ==
    ASSUME NEW t
    PROVE  \A i \in PhSet(t) : PhBys(t)[i] \in Text
BY PhAddress DEF PhSet, PhBys, Text

LEMMA RehydrateIs ==
    ASSUME NEW t \in Seq(Text)
    PROVE  Rehydrate(t) = Replace(t, SpansOf(PhSet(t), PhLasts(t), PhBys(t)))
BY PlaceholdersAre DEF Rehydrate

\* A text in which a placeholder begins nowhere.
Free(t) == \A i \in 1..Len(t) : ~PhAt(t, i)

LEMMA ReplaceNothing == ASSUME NEW t, NEW last, NEW by PROVE Replace(t, SpansOf({}, last, by)) = t
<1>1. SpansOf({}, last, by) = {}
  BY DEF SpansOf
<1> QED
  BY <1>1 DEF Replace

\* A text without placeholders stays as it is.
LEMMA FreeSame == ASSUME NEW t \in Seq(Text), Free(t) PROVE Rehydrate(t) = t
<1>1. PhSet(t) = {}
  BY DEF PhSet, Free
<1> QED
  BY <1>1, RehydrateIs, ReplaceNothing

\* The placeholders of the first part are those of the whole that begin in it.
Sealed(u, v) ==
    \A i \in 1..Len(u) :
        /\ PhAt(u \o v, i) <=> PhAt(u, i)
        /\ PhAt(u, i) => /\ PhNumber(u \o v, i) = PhNumber(u, i)
                         /\ PhLast(u \o v, i) = PhLast(u, i)

\* What a first part's spans are for the whole to be rehydrated by them.
Leads(u, v, Su, lu, bu) ==
    /\ Su \subseteq 1..Len(u)
    /\ \A i \in 1..Len(u) : PhAt(u \o v, i) <=> i \in Su
    /\ \A i \in Su : /\ PhLast(u \o v, i) = lu[i] /\ lu[i] \in 0..Len(u)
                    /\ Address[PhNumber(u \o v, i)] = bu[i]

\* A text can be cut where the spans of its placeholders are apart,
LEMMA PhApart ==
    ASSUME NEW u \in Seq(Text), NEW v \in Seq(Text), NEW Su, NEW lu, NEW bu,
           Leads(u, v, Su, lu, bu)
    PROVE  Rehydrate(u \o v) = Replace(u, SpansOf(Su, lu, bu)) \o Rehydrate(v)
<1>1. PICK n \in Nat, m \in Nat : n = Len(u) /\ m = Len(v)
  OBVIOUS
<1>2. PICK t \in Seq(Text) : t = u \o v
  BY ConcatIs
<1>3. Len(t) = n + m
  BY <1>1, <1>2
<1>4. PICK S, last, by : S = PhSet(t) /\ last = PhLasts(t) /\ by = PhBys(t)
  OBVIOUS
<1>5. PICK Sv, lv, bv : Sv = PhSet(v) /\ lv = PhLasts(v) /\ bv = PhBys(v)
  OBVIOUS
<1>6. /\ \A i \in 1..(n + m) : /\ i \in S <=> PhAt(t, i)
                               /\ last[i] = PhLast(t, i)
                               /\ by[i] = Address[PhNumber(t, i)]
      /\ S \subseteq 1..(n + m)
  BY <1>3, <1>4 DEF PhSet, PhLasts, PhBys
<1>7. /\ \A i \in 1..m : /\ i \in Sv <=> PhAt(v, i)
                         /\ lv[i] = PhLast(v, i)
                         /\ bv[i] = Address[PhNumber(v, i)]
      /\ Sv \subseteq 1..m
  BY <1>1, <1>5 DEF PhSet, PhLasts, PhBys
<1>8. /\ Su \subseteq 1..n
      /\ \A i \in 1..n : PhAt(t, i) <=> i \in Su
      /\ \A i \in Su : /\ PhLast(t, i) = lu[i] /\ lu[i] \in 0..n
                      /\ Address[PhNumber(t, i)] = bu[i]
  BY <1>1, <1>2 DEF Leads
<1>9. \A i \in 1..n : i \in S <=> i \in Su
  BY <1>8, <1>6
<1>10. \A i \in Su : last[i] = lu[i] /\ lu[i] \in 0..n /\ by[i] = bu[i]
  BY <1>8, <1>6
<1>11. \A i \in 1..m : n + i \in S <=> i \in Sv
  <2>1. ASSUME NEW i \in 1..m PROVE n + i \in S <=> i \in Sv
    <3>1. n + i \in 1..(n + m) /\ (PhAt(t, n + i) <=> PhAt(v, i))
      BY <1>1, <1>2, PhShift
    <3> QED
      BY <1>6, <1>7, <3>1
  <2> QED
    BY <2>1
<1>12. \A i \in Sv : last[n + i] = n + lv[i] /\ lv[i] \in Nat /\ by[n + i] = bv[i]
  <2>1. ASSUME NEW i \in Sv
        PROVE  last[n + i] = n + lv[i] /\ lv[i] \in Nat /\ by[n + i] = bv[i]
    <3>1. i \in 1..m /\ PhAt(v, i)
      BY <1>7
    <3>2. /\ n + i \in 1..(n + m) /\ PhLast(t, n + i) = n + PhLast(v, i)
          /\ PhNumber(t, n + i) = PhNumber(v, i)
      BY <1>1, <1>2, <3>1, PhShift
    <3>3. PhLast(v, i) \in Nat
      BY <1>1, <3>1, PhEnds
    <3> QED
      BY <1>6, <1>7, <3>1, <3>2, <3>3
  <2> QED
    BY <2>1
<1>13. Apart(Len(u), Len(v), S, last, by, Su, lu, bu, Sv, lv, bv)
  <2>1. Apart(n, m, S, last, by, Su, lu, bu, Sv, lv, bv)
    BY <1>8, <1>6, <1>7, <1>9, <1>10, <1>11, <1>12 DEF Apart
  <2> QED
    BY <1>1, <2>1
<1>14. /\ \A i \in S : by[i] \in Text
       /\ \A i \in Sv : bv[i] \in Text
  BY <1>4, <1>5, PhBysTyped
<1>15. \A i \in Su : bu[i] \in Text
  <2>1. ASSUME NEW i \in Su PROVE bu[i] \in Text
    <3>1. i \in S /\ by[i] = bu[i]
      BY <1>8, <1>9, <1>10
    <3> QED
      BY <1>14, <3>1
  <2> QED
    BY <2>1
<1>16. Replace(u \o v, SpansOf(S, last, by))
        = Replace(u, SpansOf(Su, lu, bu)) \o Replace(v, SpansOf(Sv, lv, bv))
  BY <1>13, <1>14, <1>15, ReplaceCut
<1>17. Rehydrate(t) = Replace(t, SpansOf(S, last, by))
  BY <1>4, RehydrateIs
<1>18. Rehydrate(v) = Replace(v, SpansOf(Sv, lv, bv))
  BY <1>5, RehydrateIs
<1> QED
  BY <1>2, <1>16, <1>17, <1>18

\* where nothing after it changes those before it,
LEMMA CutSealed ==
    ASSUME NEW u \in Seq(Text), NEW v \in Seq(Text), Sealed(u, v)
    PROVE  Rehydrate(u \o v) = Rehydrate(u) \o Rehydrate(v)
<1>1. PICK Su, lu, bu : Su = PhSet(u) /\ lu = PhLasts(u) /\ bu = PhBys(u)
  OBVIOUS
<1>2. Su \subseteq 1..Len(u) /\ \A i \in 1..Len(u) : i \in Su <=> PhAt(u, i)
  BY <1>1 DEF PhSet
<1>3. \A i \in 1..Len(u) : lu[i] = PhLast(u, i) /\ bu[i] = Address[PhNumber(u, i)]
  BY <1>1 DEF PhLasts, PhBys
<1>4. \A i \in Su : lu[i] \in 0..Len(u)
  BY <1>2, <1>3, PhEnds
<1>5. \A i \in 1..Len(u) : PhAt(u \o v, i) <=> i \in Su
  BY <1>2 DEF Sealed
<1>6. \A i \in Su : PhLast(u \o v, i) = lu[i] /\ Address[PhNumber(u \o v, i)] = bu[i]
  BY <1>2, <1>3 DEF Sealed
<1>7. Rehydrate(u \o v) = Replace(u, SpansOf(Su, lu, bu)) \o Rehydrate(v)
  <2>1. Leads(u, v, Su, lu, bu)
    BY <1>2, <1>4, <1>5, <1>6 DEF Leads
  <2> QED
    BY <2>1, PhApart
<1> QED
  BY <1>1, <1>7, RehydrateIs

\* where there are none before it,
LEMMA CutBare ==
    ASSUME NEW u \in Seq(Text), NEW v \in Seq(Text), \A i \in 1..Len(u) : ~PhAt(u \o v, i)
    PROVE  Rehydrate(u \o v) = u \o Rehydrate(v)
<1>1. PICK Su, lu, bu : Su = {} /\ lu = 0 /\ bu = 0
  OBVIOUS
<1>2. Rehydrate(u \o v) = Replace(u, SpansOf(Su, lu, bu)) \o Rehydrate(v)
  <2>1. Leads(u, v, Su, lu, bu)
    BY <1>1 DEF Leads
  <2> QED
    BY <2>1, PhApart
<1> QED
  BY <1>1, <1>2, ReplaceNothing

\* or behind one at its beginning.
LEMMA CutHead ==
    ASSUME NEW u \in Seq(Text), NEW v \in Seq(Text), PhAt(u \o v, 1),
           PhLast(u \o v, 1) = Len(u)
    PROVE  Rehydrate(u \o v) = <<Address[PhNumber(u \o v, 1)]>> \o Rehydrate(v)
<1>1. PICK t \in Seq(Text) : t = u \o v
  BY ConcatIs
<1>2. PICK n \in Nat : n = Len(u)
  OBVIOUS
<1>3. 1 \in 1..Len(t)
  <2>1. At(t, 1) # "end"
    BY <1>1 DEF PhAt
  <2> QED
    BY <2>1 DEF At
<1>4. n \in (1 + 3)..Len(t) /\ \A j \in 2..n : t[j] \in {"s", "-", "]"} \cup Digits
  <2>1. /\ PhLast(t, 1) \in (1 + 3)..Len(t)
        /\ \A j \in (1 + 1)..PhLast(t, 1) : t[j] \in {"s", "-", "]"} \cup Digits
    BY <1>1, <1>3, PhEnds
  <2>2. PhLast(t, 1) = n /\ 1 + 1 = 2
    BY <1>1, <1>2
  <2> QED
    BY <2>1, <2>2
<1>5. ASSUME NEW i \in 1..n PROVE PhAt(t, i) <=> i = 1
  <2>1. i # 1 => t[i] # "[ipaddres" /\ At(t, i) = t[i]
    BY <1>4 DEF At, Digits
  <2> QED
    BY <1>1, <2>1 DEF PhAt
<1>6. PICK a \in Text : a = Address[PhNumber(t, 1)]
  BY <1>1, PhAddress DEF Text
<1>7. PICK Su, lu, bu : Su = {1} /\ lu = [i \in {1} |-> n] /\ bu = [i \in {1} |-> a]
  OBVIOUS
<1>8. Rehydrate(u \o v) = Replace(u, SpansOf(Su, lu, bu)) \o Rehydrate(v)
  <2>1. Su \subseteq 1..n /\ \A i \in 1..n : PhAt(t, i) <=> i \in Su
    BY <1>4, <1>5, <1>7
  <2>2. \A i \in Su : PhLast(t, i) = lu[i] /\ lu[i] \in 0..n /\ Address[PhNumber(t, i)] = bu[i]
    BY <1>1, <1>2, <1>6, <1>7
  <2>3. Leads(u, v, Su, lu, bu)
    BY <1>1, <1>2, <2>1, <2>2 DEF Leads
  <2> QED
    BY <2>3, PhApart
<1>9. Replace(u, SpansOf(Su, lu, bu)) = <<bu[1]>>
  <2>1. u # <<>> /\ lu[1] = Len(u) /\ bu[1] \in Text
    BY <1>2, <1>4, <1>7
  <2> QED
    BY <1>7, <2>1, ReplaceSpan
<1> QED
  BY <1>1, <1>6, <1>7, <1>8, <1>9

\* A unit that goes on with a placeholder.
Joins == {"s", "-", "]"} \cup Digits

\* A text whose first unit does not is sealed from what is before it.
LEMMA SealsAt ==
    ASSUME NEW u \in Seq(Text), NEW v \in Seq(Text), At(v, 1) \notin Joins
    PROVE  Sealed(u, v)
<1>1. PICK n \in Nat : n = Len(u)
  OBVIOUS
<1>2. PICK t : t = u \o v
  OBVIOUS
<1>3. \A j \in Nat \ {0} : j <= n => At(t, j) = At(u, j)
  BY <1>1, <1>2, AtConcat
<1>4. At(t, n + 1) \notin Joins /\ At(u, n + 1) \notin Joins
  <2>1. At(t, n + 1) = At(v, 1)
    BY <1>1, <1>2, AtConcat
  <2>2. At(u, n + 1) = "end"
    BY <1>1 DEF At
  <2> QED
    BY <2>1, <2>2 DEF Joins, Digits
<1>5. ASSUME NEW i \in 1..n
      PROVE  /\ PhAt(t, i) <=> PhAt(u, i)
             /\ PhAt(u, i) => PhNumber(t, i) = PhNumber(u, i) /\ PhLast(t, i) = PhLast(u, i)
  <2>1. \A d \in 0..5 : i + d <= n => At(t, i + d) = At(u, i + d)
    <3>1. ASSUME NEW d \in 0..5, i + d <= n PROVE At(t, i + d) = At(u, i + d)
      <4>1. PICK j \in Nat \ {0} : j = i + d
        OBVIOUS
      <4> QED
        BY <1>3, <3>1, <4>1
    <3> QED
      BY <3>1
  <2>2. At(t, i) = At(u, i)
    BY <1>3
  <2>3. CASE i + 5 <= n
    <3>1. /\ At(t, i + 1) = At(u, i + 1) /\ At(t, i + 2) = At(u, i + 2)
          /\ At(t, i + 3) = At(u, i + 3) /\ At(t, i + 4) = At(u, i + 4)
          /\ At(t, i + 5) = At(u, i + 5)
      BY <2>1, <2>3
    <3> QED
      BY <2>2, <3>1 DEF PhAt, PhNumber, PhLast
  <2>4. CASE n = i + 4
    <3>1. /\ At(t, i + 1) = At(u, i + 1) /\ At(t, i + 2) = At(u, i + 2)
          /\ At(t, i + 3) = At(u, i + 3) /\ At(t, i + 4) = At(u, i + 4)
      BY <2>1, <2>4
    <3>2. /\ At(t, i + 5) \notin Digits /\ At(t, i + 5) # "]"
          /\ At(u, i + 5) \notin Digits /\ At(u, i + 5) # "]"
      <4>1. n + 1 = i + 5
        BY <2>4
      <4> QED
        BY <1>4, <4>1 DEF Joins
    <3> QED
      BY <2>2, <3>1, <3>2 DEF PhAt, PhNumber, NumberOf, PhLast
  <2>5. CASE n = i + 3
    <3>1. /\ At(t, i + 1) = At(u, i + 1) /\ At(t, i + 2) = At(u, i + 2)
          /\ At(t, i + 3) = At(u, i + 3)
      BY <2>1, <2>5
    <3>2. /\ At(t, i + 4) \notin Digits /\ At(t, i + 4) # "]"
          /\ At(u, i + 4) \notin Digits /\ At(u, i + 4) # "]"
      <4>1. n + 1 = i + 4
        BY <2>5
      <4> QED
        BY <1>4, <4>1 DEF Joins
    <3> QED
      BY <2>2, <3>1, <3>2 DEF PhAt, PhNumber, NumberOf, PhLast
  <2>6. CASE n \in {i, i + 1, i + 2}
    <3>1. n + 1 \in {i + 1, i + 2, i + 3}
      BY <2>6
    <3> QED
      BY <1>4, <3>1 DEF PhAt, Joins
  <2>7. i + 5 <= n \/ n = i + 4 \/ n = i + 3 \/ n \in {i, i + 1, i + 2}
    BY <1>1
  <2> QED
    BY <2>3, <2>4, <2>5, <2>6, <2>7
<1> QED
  BY <1>1, <1>2, <1>5 DEF Sealed

\* A text with a placeholder has a last one.
LEMMA LastPlaceholder ==
    ASSUME NEW t \in Seq(Text), ~Free(t)
    PROVE  \E m \in 1..Len(t) : PhAt(t, m) /\ \A i \in (m + 1)..Len(t) : ~PhAt(t, i)
<1>1. PICK n \in Nat : n = Len(t)
  OBVIOUS
<1>2. PICK T : T = {j \in 0..n : j < n /\ PhAt(t, n - j)}
  OBVIOUS
<1>3. PICK k \in 1..n : PhAt(t, k)
  BY <1>1 DEF Free
<1>4. T \in SUBSET Nat /\ T # {}
  <2>1. PICK j \in 0..n : j = n - k
    OBVIOUS
  <2>2. j < n /\ n - j = k
    BY <2>1
  <2>3. j \in T
    BY <1>2, <1>3, <2>2
  <2>4. T \subseteq 0..n
    BY <1>2
  <2>5. 0..n \subseteq Nat
    OBVIOUS
  <2> QED
    BY <2>3, <2>4, <2>5, Zenon
<1>5. PICK j \in T : \A i \in T : j <= i
  BY <1>4, LeastNumber
<1>6. PICK m \in 1..n : m = n - j
  BY <1>2
<1>7. PhAt(t, m)
  BY <1>2, <1>6
<1>8. ASSUME NEW i \in (m + 1)..n, PhAt(t, i) PROVE FALSE
  <2>1. PICK q \in 0..n : q = n - i
    BY <1>6
  <2>2. q < n /\ n - q = i /\ ~(j <= q)
    BY <1>2, <1>6, <2>1
  <2>3. q \in T
    BY <1>2, <1>8, <2>2
  <2> QED
    BY <1>5, <2>2, <2>3
<1> QED
  BY <1>1, <1>7, <1>8

LEMMA CutAt ==
    ASSUME NEW t \in Seq(Text), NEW k \in 0..Len(t)
    PROVE  \E u \in Seq(Text), v \in Seq(Text) : t = u \o v /\ Len(u) = k /\ Len(v) = Len(t) - k
<1>1. PICK u : u = SubSeq(t, 1, k)
  OBVIOUS
<1>2. PICK v : v = SubSeq(t, k + 1, Len(t))
  OBVIOUS
<1>3. /\ u \in Seq(Text) /\ Len(u) = k
      /\ \A i \in 1..k : t[i] = u[i]
  BY <1>1
<1>4. /\ v \in Seq(Text) /\ Len(v) = Len(t) - k
      /\ \A i \in 1..Len(v) : t[k + i] = v[i]
  BY <1>2
<1>5. /\ Len(t) = Len(u) + Len(v)
      /\ \A i \in 1..Len(u) : t[i] = u[i]
      /\ \A i \in 1..Len(v) : t[Len(u) + i] = v[i]
  BY <1>3, <1>4
<1>6. t = u \o v
  BY <1>3, <1>4, <1>5, ConcatEqual
<1> QED
  BY <1>3, <1>4, <1>6

LEMMA ConcatText == \A a, b \in Seq(Text) : a \o b \in Seq(Text)
OBVIOUS

LEMMA ConcatAssoc == \A a, b, c \in Seq(Text) : (a \o b) \o c = a \o (b \o c)
OBVIOUS

\* What comes after does not change the placeholders of a text.
Stable(t, r) ==
    \A i \in 1..Len(t) :
        PhAt(t, i) => PhLast(t \o r, i) = PhLast(t, i) /\ PhNumber(t \o r, i) = PhNumber(t, i)

\* The text s is u, then p, a placeholder at m, then y.
Around(s, u, p, y, m) ==
    /\ u \in Seq(Text) /\ p \in Seq(Text) /\ y \in Seq(Text)
    /\ s = u \o (p \o y) /\ p # <<>> /\ m = Len(u) + 1
    /\ PhAt(s, m) /\ PhLast(s, m) = Len(u) + Len(p)

\* A placeholder is replaced whatever is before it and after it.
LEMMA AroundPlaceholder ==
    ASSUME NEW s, NEW u, NEW p, NEW y, NEW m, Around(s, u, p, y, m)
    PROVE  Rehydrate(s) = Rehydrate(u) \o (<<Address[PhNumber(s, m)]>> \o Rehydrate(y))
<1>1. /\ u \in Seq(Text) /\ p \in Seq(Text) /\ y \in Seq(Text)
      /\ s = u \o (p \o y) /\ p # <<>> /\ m = Len(u) + 1
      /\ PhAt(s, m) /\ PhLast(s, m) = Len(u) + Len(p)
  BY DEF Around
<1>2. PICK x \in Seq(Text) : x = p \o y
  BY <1>1, ConcatText, Zenon
<1>3. 1 \in 1..Len(x)
  BY <1>1, <1>2
<1>4. PICK f \in Nat : f = PhLast(x, 1)
  BY DEF PhLast
<1>5. /\ PhAt(x, 1) /\ PhNumber(s, m) = PhNumber(x, 1) /\ PhLast(s, m) = Len(u) + f
  BY <1>1, <1>2, <1>3, <1>4, PhShift
<1>6. PhLast(x, 1) = Len(p)
  BY <1>1, <1>4, <1>5
<1>7. Rehydrate(x) = <<Address[PhNumber(x, 1)]>> \o Rehydrate(y)
  BY <1>1, <1>2, <1>5, <1>6, CutHead
<1>8. At(x, 1) \notin Joins
  BY <1>5 DEF PhAt, Joins, Digits
<1>9. Rehydrate(u \o x) = Rehydrate(u) \o Rehydrate(x)
  BY <1>1, <1>8, SealsAt, CutSealed
<1> QED
  BY <1>1, <1>2, <1>5, <1>7, <1>9

\* A placeholder that is as long and of the same number in a longer text is one there.
LEMMA StaysThere ==
    ASSUME NEW t \in Seq(Text), NEW r \in Seq(Text), NEW i \in 1..Len(t), PhAt(t, i), Stable(t, r)
    PROVE  /\ PhAt(t \o r, i) /\ PhNumber(t \o r, i) = PhNumber(t, i)
           /\ PhLast(t \o r, i) = PhLast(t, i)
<1>1. PhNumber(t \o r, i) = PhNumber(t, i) /\ PhLast(t \o r, i) = PhLast(t, i)
  BY DEF Stable
<1>2. i + 3 <= Len(t)
  BY PhEnds
<1>3. \A d \in 0..3 : At(t \o r, i + d) = At(t, i + d)
  <2>1. ASSUME NEW d \in 0..3 PROVE At(t \o r, i + d) = At(t, i + d)
    <3>1. PICK j \in Nat \ {0} : j = i + d
      OBVIOUS
    <3>2. j <= Len(t)
      BY <1>2, <3>1
    <3> QED
      BY <3>1, <3>2, AtConcat
  <2> QED
    BY <2>1
<1>4. /\ At(t \o r, i + 0) = At(t, i + 0) /\ At(t \o r, i + 1) = At(t, i + 1)
      /\ At(t \o r, i + 2) = At(t, i + 2) /\ At(t \o r, i + 3) = At(t, i + 3)
      /\ i + 0 = i
  BY <1>3
<1> QED
  BY <1>1, <1>4 DEF PhAt

\* A text is u, a placeholder p for a and w, whatever follows that lets p be.
Parsed(t, u, p, w, a) ==
    /\ t \in Seq(Text) /\ u \in Seq(Text) /\ p \in Seq(Text) /\ w \in Seq(Text)
    /\ a \in Addresses
    /\ t = u \o (p \o w) /\ p # <<>> /\ Free(w)
    /\ \A r \in Seq(Text) : Stable(t, r) =>
         Rehydrate(t \o r) = Rehydrate(u) \o (<<a>> \o Rehydrate(w \o r))

\* A text is parsed up to and including its last placeholder.
LEMMA ParseStep ==
    ASSUME NEW t \in Seq(Text), ~Free(t)
    PROVE  \E u \in Seq(Text), p \in Seq(Text), w \in Seq(Text), a \in Addresses :
             Parsed(t, u, p, w, a)
<1>1. PICK m \in 1..Len(t) : PhAt(t, m) /\ \A i \in (m + 1)..Len(t) : ~PhAt(t, i)
  BY LastPlaceholder
<1>2. PICK e : e = PhLast(t, m)
  OBVIOUS
<1>3. e \in (m + 3)..Len(t)
  BY <1>1, <1>2, PhEnds
<1>4. PICK u \in Seq(Text), v \in Seq(Text) :
        t = u \o v /\ Len(u) = m - 1 /\ Len(v) = Len(t) - (m - 1)
  <2>1. m - 1 \in 0..Len(t)
    OBVIOUS
  <2> QED
    BY <2>1, CutAt
<1>5. PICK p \in Seq(Text), w \in Seq(Text) :
        v = p \o w /\ Len(p) = e - (m - 1) /\ Len(w) = Len(v) - (e - (m - 1))
  <2>1. e - (m - 1) \in 0..Len(v)
    BY <1>3, <1>4
  <2> QED
    BY <2>1, CutAt
<1>6. PICK a \in Addresses : a = Address[PhNumber(t, m)]
  BY <1>1, PhAddress
<1>7. Len(u) + 1 = m /\ Len(u) + Len(p) = e
  BY <1>3, <1>4, <1>5
<1>8. Free(w)
  <2>1. ASSUME NEW i \in 1..Len(w), PhAt(w, i) PROVE FALSE
    <3>1. PhAt(v, Len(p) + i)
      BY <1>5, <2>1, PhShift
    <3>2. PICK j \in 1..Len(v) : j = Len(p) + i
      BY <1>3, <1>5
    <3>3. PhAt(t, Len(u) + j)
      BY <1>4, <3>1, <3>2, PhShift
    <3>4. Len(u) + j \in (m + 1)..Len(t)
      BY <1>3, <1>4, <1>5, <3>2
    <3> QED
      BY <1>1, <3>3, <3>4
  <2> QED
    BY <2>1 DEF Free
<1>9. t = u \o (p \o w) /\ p # <<>>
  BY <1>3, <1>4, <1>5
<1>10. ASSUME NEW r \in Seq(Text), Stable(t, r)
       PROVE  Rehydrate(t \o r) = Rehydrate(u) \o (<<a>> \o Rehydrate(w \o r))
  <2>1. /\ PhAt(t \o r, m) /\ PhNumber(t \o r, m) = PhNumber(t, m)
        /\ PhLast(t \o r, m) = PhLast(t, m)
    BY <1>1, <1>10, StaysThere
  <2>2. PICK s : s = t \o r
    OBVIOUS
  <2>3. PICK y : y = w \o r
    OBVIOUS
  <2>4. s = u \o (p \o y) /\ y \in Seq(Text)
    <3>1. (u \o v) \o r = u \o (v \o r)
      BY ConcatAssoc, SMTT(30)
    <3>2. (p \o w) \o r = p \o (w \o r)
      BY ConcatAssoc, SMTT(30)
    <3> QED
      BY <1>4, <1>5, <2>2, <2>3, <3>1, <3>2, ConcatText, Zenon
  <2>5. PhAt(s, m) /\ PhLast(s, m) = Len(u) + Len(p)
    BY <1>2, <1>7, <2>1, <2>2
  <2>6. Rehydrate(s) = Rehydrate(u) \o (<<Address[PhNumber(s, m)]>> \o Rehydrate(y))
    <3>1. Around(s, u, p, y, m)
      BY <1>7, <1>9, <2>4, <2>5 DEF Around
    <3> QED
      BY <3>1, AroundPlaceholder
  <2> QED
    BY <1>6, <2>1, <2>2, <2>3, <2>6
<1>11. \A r \in Seq(Text) : Stable(t, r) =>
         Rehydrate(t \o r) = Rehydrate(u) \o (<<a>> \o Rehydrate(w \o r))
  BY <1>10
<1>12. Parsed(t, u, p, w, a)
  BY <1>8, <1>9, <1>11 DEF Parsed
<1> QED
  BY <1>12

LEMMA AddressNoPart == \A a \in Addresses : a \notin Joins /\ a # "[ipaddres" /\ a \in Text
BY DEF Addresses, Joins, Digits, Text

\* An address keeps placeholders apart.
LEMMA NoneBefore ==
    ASSUME NEW z \in Seq(Text), NEW y \in Seq(Text), NEW a \in Addresses, Free(z),
           NEW i \in 1..(Len(z) + 1)
    PROVE  ~PhAt(z \o (<<a>> \o y), i)
<1>1. PICK v : v = <<a>> \o y
  OBVIOUS
<1>2. <<a>> \in Seq(Text) /\ Len(<<a>>) = 1
  BY AddressNoPart
<1>3. v \in Seq(Text) /\ At(v, 1) = a
  <2>1. v \in Seq(Text)
    BY <1>1, <1>2, ConcatText
  <2>2. Len(v) >= 1 /\ v[1] = a
    BY <1>1, <1>2
  <2> QED
    BY <2>1, <2>2 DEF At
<1>4. Sealed(z, v)
  BY <1>3, AddressNoPart, SealsAt
<1>5. CASE i <= Len(z)
  <2>1. i \in 1..Len(z)
    BY <1>5
  <2>2. PhAt(z \o v, i) <=> PhAt(z, i)
    BY <1>4, <2>1 DEF Sealed
  <2> QED
    BY <1>1, <2>1, <2>2 DEF Free
<1>6. CASE i = Len(z) + 1
  <2>1. At(z \o v, Len(z) + 1) = a
    BY <1>3, AtConcat
  <2> QED
    BY <1>1, <1>6, <2>1, AddressNoPart DEF PhAt
<1> QED
  BY <1>5, <1>6

\* Two texts without placeholders have none with an address between them.
LEMMA FreeJoined ==
    ASSUME NEW z \in Seq(Text), NEW y \in Seq(Text), NEW a \in Addresses, Free(z), Free(y)
    PROVE  Free(z \o (<<a>> \o y))
<1>1. PICK t : t = z \o (<<a>> \o y)
  OBVIOUS
<1>2. <<a>> \in Seq(Text) /\ Len(<<a>>) = 1
  BY AddressNoPart
<1>3. PICK h \in Seq(Text) : h = z \o <<a>>
  BY <1>2, ConcatText
<1>4. t = h \o y /\ Len(h) = Len(z) + 1
  BY <1>1, <1>2, <1>3
<1>5. Len(t) = Len(h) + Len(y) /\ Len(h) \in Nat /\ Len(y) \in Nat
  <2>1. Len(h \o y) = Len(h) + Len(y)
    BY ConcatIs
  <2> QED
    BY <1>4, <2>1
<1>6. ASSUME NEW i \in 1..Len(t), PhAt(t, i) PROVE FALSE
  <2>1. CASE i <= Len(h)
    <3>1. i \in 1..(Len(z) + 1)
      BY <1>4, <2>1
    <3> QED
      BY <1>1, <1>6, <3>1, NoneBefore
  <2>2. CASE i > Len(h)
    <3>1. PICK j \in 1..Len(y) : i = Len(h) + j
      <4>1. i - Len(h) \in 1..Len(y) /\ i = Len(h) + (i - Len(h))
        BY <1>5, <2>2
      <4> QED
        BY <4>1
    <3>2. PhAt(y, j)
      BY <1>4, <1>6, <3>1, PhShift
    <3> QED
      BY <3>2 DEF Free
  <2> QED
    BY <1>4, <2>1, <2>2
<1> QED
  BY <1>1, <1>6 DEF Free

\* What is parsed, rehydrated as it is.
LEMMA ParsedNow ==
    ASSUME NEW t, NEW u, NEW p, NEW w, NEW a, Parsed(t, u, p, w, a)
    PROVE  Rehydrate(t) = Rehydrate(u) \o (<<a>> \o w)
<1>1. /\ t \in Seq(Text) /\ w \in Seq(Text) /\ Free(w)
      /\ \A r \in Seq(Text) : Stable(t, r) =>
           Rehydrate(t \o r) = Rehydrate(u) \o (<<a>> \o Rehydrate(w \o r))
  BY DEF Parsed
<1>2. t \o <<>> = t /\ w \o <<>> = w /\ <<>> \in Seq(Text)
  BY <1>1
<1>3. Stable(t, <<>>)
  BY <1>2 DEF Stable
<1>4. Rehydrate(t \o <<>>) = Rehydrate(u) \o (<<a>> \o Rehydrate(w \o <<>>))
  BY <1>1, <1>2, <1>3
<1>5. Rehydrate(w) = w
  BY <1>1, FreeSame
<1> QED
  BY <1>2, <1>4, <1>5

\* Rehydrating leaves no placeholder.
LEMMA FreeRehydrated == ASSUME NEW t \in Seq(Text) PROVE Free(Rehydrate(t))
<1>1. SUFFICES ASSUME ~Free(Rehydrate(t)) PROVE FALSE
  OBVIOUS
<1>2. PICK T : T = {n \in Nat : \E s \in Seq(Text) : Len(s) = n /\ ~Free(Rehydrate(s))}
  OBVIOUS
<1>3. T \subseteq Nat /\ Len(t) \in T
  BY <1>1, <1>2
<1>4. PICK n \in T : \A m \in T : n <= m
  BY <1>3, LeastNumber
<1>5. PICK s \in Seq(Text) : Len(s) = n /\ ~Free(Rehydrate(s))
  BY <1>2
<1>6. ~Free(s)
  BY <1>5, FreeSame
<1>7. PICK u \in Seq(Text), p \in Seq(Text), w \in Seq(Text), a \in Addresses :
        Parsed(s, u, p, w, a)
  BY <1>6, ParseStep
<1>8. Len(u) < Len(s) /\ Len(u) \in Nat
  <2>1. s = u \o (p \o w) /\ p # <<>>
    BY <1>7 DEF Parsed
  <2>2. Len(s) = Len(u) + (Len(p) + Len(w)) /\ Len(p) # 0
    BY <2>1
  <2> QED
    BY <2>2
<1>9. Free(Rehydrate(u))
  <2>1. Len(u) \notin T
    BY <1>3, <1>4, <1>5, <1>8
  <2> QED
    BY <1>2, <1>8, <2>1
<1>10. Free(Rehydrate(u) \o (<<a>> \o w))
  <2>1. Free(w)
    BY <1>7 DEF Parsed
  <2> QED
    BY <1>9, <2>1, RehydrateTyped, FreeJoined
<1>11. Rehydrate(s) = Rehydrate(u) \o (<<a>> \o w)
  BY <1>7, ParsedNow
<1> QED
  BY <1>5, <1>10, <1>11

\* A text comes of an end w of it without placeholders and of what is before: z.
Ends(t, z, w) ==
    /\ Rehydrate(t) = z \o w /\ Free(z) /\ Free(w)
    /\ \E u \in Seq(Text) : t = u \o w
    /\ z = <<>> \/ z[Len(z)] \in Addresses
    /\ \A y \in Seq(Text) : Rehydrate(z \o y) = z \o Rehydrate(y)
    /\ \A r \in Seq(Text) : Stable(t, r) => Rehydrate(t \o r) = z \o Rehydrate(w \o r)

\* Every text is one.
LEMMA Parse ==
    ASSUME NEW t \in Seq(Text)
    PROVE  \E z \in Seq(Text), w \in Seq(Text) : Ends(t, z, w)
<1>1. CASE Free(t)
  <2>1. Rehydrate(t) = t
    BY <1>1, FreeSame
  <2>2. PICK z \in Seq(Text) : z = <<>>
    <3>1. <<>> \in Seq(Text)
      OBVIOUS
    <3> QED
      BY <3>1
  <2>3. \A s \in Seq(Text) : z \o s = s /\ Rehydrate(s) \in Seq(Text)
    BY <2>2, RehydrateTyped
  <2>4. \A r \in Seq(Text) : t \o r \in Seq(Text)
    BY ConcatText
  <2>5. Free(z)
    BY <2>2 DEF Free
  <2>6. t = z \o t /\ Rehydrate(t) = z \o t
    BY <2>1, <2>3
  <2>7. \A y \in Seq(Text) : Rehydrate(z \o y) = z \o Rehydrate(y)
    BY <2>3
  <2>8. \A r \in Seq(Text) : Stable(t, r) => Rehydrate(t \o r) = z \o Rehydrate(t \o r)
    BY <2>3, <2>4
  <2>9. Ends(t, z, t)
    BY <1>1, <2>2, <2>5, <2>6, <2>7, <2>8 DEF Ends
  <2> QED
    BY <2>9
<1>2. CASE ~Free(t)
  <2>1. PICK u \in Seq(Text), p \in Seq(Text), w \in Seq(Text), a \in Addresses :
          Parsed(t, u, p, w, a)
    BY <1>2, ParseStep
  <2>2. PICK b \in Seq(Text) : b = Rehydrate(u)
    BY RehydrateTyped
  <2>3. PICK o \in Seq(Text) : o = <<a>>
    <3>1. a \in Text
      BY AddressNoPart
    <3>2. <<a>> \in Seq(Text)
      BY <3>1
    <3> QED
      BY <3>2
  <2>4. PICK z \in Seq(Text) : z = b \o o
    BY ConcatText
  <2>5. PICK h \in Seq(Text) : h = u \o p
    BY ConcatText
  <2>6. t = u \o (p \o w) /\ Free(w)
    BY <2>1 DEF Parsed
  <2>7. t = h \o w
    <3>1. (u \o p) \o w = u \o (p \o w)
      BY ConcatAssoc, SMTT(30)
    <3> QED
      BY <2>5, <2>6, <3>1, Zenon
  <2>8. \A s \in Seq(Text) : z \o s = b \o (o \o s)
    <3>1. ASSUME NEW s \in Seq(Text) PROVE z \o s = b \o (o \o s)
      <4>1. (b \o o) \o s = b \o (o \o s)
        BY ConcatAssoc, SMTT(30)
      <4> QED
        BY <2>4, <4>1, Zenon
    <3> QED
      BY <3>1
  <2>9. Rehydrate(t) = z \o w
    <3>1. Rehydrate(t) = Rehydrate(u) \o (<<a>> \o w)
      BY <2>1, ParsedNow
    <3> QED
      BY <2>2, <2>3, <2>8, <3>1, Zenon
  <2>10. Len(z) = Len(b) + 1 /\ z[Len(z)] = a
    BY <2>3, <2>4
  <2>11. Free(b)
    BY <2>2, FreeRehydrated
  <2>12. ASSUME NEW y \in Seq(Text) PROVE Rehydrate(z \o y) = z \o Rehydrate(y)
    <3>1. ASSUME NEW i \in 1..Len(z) PROVE ~PhAt(z \o y, i)
      <4>1. i \in 1..(Len(b) + 1)
        BY <2>10
      <4>2. ~PhAt(b \o (<<a>> \o y), i)
        BY <2>11, <4>1, NoneBefore
      <4> QED
        BY <2>3, <2>8, <4>2
    <3> QED
      BY <3>1, CutBare
  <2>13. Free(z)
    <3>1. z \o <<>> = z /\ <<>> \in Seq(Text)
      OBVIOUS
    <3>2. z = b \o (<<a>> \o <<>>)
      BY <2>3, <2>8, <3>1
    <3>3. Free(<<>>)
      BY DEF Free
    <3> QED
      BY <2>11, <3>1, <3>2, <3>3, FreeJoined
  <2>14. ASSUME NEW r \in Seq(Text), Stable(t, r)
         PROVE  Rehydrate(t \o r) = z \o Rehydrate(w \o r)
    <3>1. Rehydrate(t \o r) = b \o (o \o Rehydrate(w \o r))
      BY <2>1, <2>2, <2>3, <2>14 DEF Parsed
    <3>2. Rehydrate(w \o r) \in Seq(Text)
      BY ConcatText, RehydrateTyped
    <3> QED
      BY <2>8, <3>1, <3>2
  <2>15. Ends(t, z, w)
    BY <2>6, <2>7, <2>9, <2>10, <2>12, <2>13, <2>14 DEF Ends
  <2> QED
    BY <2>15
<1> QED
  BY <1>1, <1>2

-----------------------------------------------------------------------------
(* Secrets                                                                 *)

\* A marker at k,
Marked(t, k) ==
    /\ k \in 1..Len(t) /\ k + 1 \in 1..Len(t)
    /\ t[k] = "sk-or-" /\ t[k + 1] = "v1-"

\* with a body that is long enough.
SecAt(t, k) == Marked(t, k) /\ RunEnd(t, k + 2, {"b"}) - k - 1 >= MinBody

SecSet(t) == {k \in 1..Len(t) : SecAt(t, k)}
SecLasts(t) == [k \in 1..Len(t) |-> RunEnd(t, k + 2, {"b"})]
SecBys(t) == [k \in 1..Len(t) |-> "***REDACTED***"]

LEMMA BodyTyped ==
    ASSUME NEW t \in Seq(Text), NEW k, Marked(t, k)
    PROVE  /\ k \in Nat \ {0} /\ RunEnd(t, k + 2, {"b"}) \in (k + 1)..Len(t)
           /\ \A j \in (k + 2)..RunEnd(t, k + 2, {"b"}) : t[j] = "b"
           /\ RunEnd(t, k + 2, {"b"}) < Len(t) => t[RunEnd(t, k + 2, {"b"}) + 1] # "b"
<1>1. k + 2 \in 1..(Len(t) + 1) /\ (k + 2) - 1 = k + 1 /\ k \in Nat \ {0}
  BY DEF Marked
<1>2. /\ RunEnd(t, k + 2, {"b"}) \in ((k + 2) - 1)..Len(t)
      /\ \A j \in (k + 2)..RunEnd(t, k + 2, {"b"}) : t[j] \in {"b"}
      /\ RunEnd(t, k + 2, {"b"}) < Len(t) => t[RunEnd(t, k + 2, {"b"}) + 1] \notin {"b"}
  BY <1>1, RunEndTyped
<1> QED
  BY <1>1, <1>2

\* Secrets, marker by marker.
LEMMA SecretsAre ==
    ASSUME NEW t \in Seq(Text)
    PROVE  Secrets(t) = SpansOf(SecSet(t), SecLasts(t), SecBys(t))
<1> DEFINE S == {k \in 1..(Len(t) - 1 - MinBody) :
                   /\ t[k] = "sk-or-" /\ t[k + 1] = "v1-"
                   /\ RunEnd(t, k + 2, {"b"}) - k - 1 >= MinBody}
<1>1. MinBody \in Nat \ {0}
  BY StreamRelayAssumption
<1>2. ASSUME NEW k \in S PROVE k \in SecSet(t)
  <2>1. k \in 1..Len(t) /\ k + 1 \in 1..Len(t)
    BY <1>1
  <2> QED
    BY <2>1 DEF SecSet, SecAt, Marked
<1>3. ASSUME NEW k \in SecSet(t) PROVE k \in S
  <2>1. Marked(t, k) /\ RunEnd(t, k + 2, {"b"}) - k - 1 >= MinBody
    BY DEF SecSet, SecAt
  <2>2. RunEnd(t, k + 2, {"b"}) \in (k + 1)..Len(t)
    BY <2>1, BodyTyped
  <2>3. k \in 1..(Len(t) - 1 - MinBody)
    BY <1>1, <2>1, <2>2 DEF Marked
  <2> QED
    BY <2>1, <2>3 DEF Marked
<1>4. S = SecSet(t)
  BY <1>2, <1>3
<1>5. Secrets(t) = {[first |-> i, last |-> RunEnd(t, i + 2, {"b"}), by |-> "***REDACTED***"] :
                      i \in S}
  BY DEF Secrets
<1>6. \A i \in SecSet(t) : /\ RunEnd(t, i + 2, {"b"}) = SecLasts(t)[i]
                           /\ "***REDACTED***" = SecBys(t)[i]
  BY DEF SecSet, SecLasts, SecBys
<1> HIDE DEF S
<1> QED
  BY <1>4, <1>5, <1>6 DEF SpansOf

\* No body goes on from one part of a text to the next, and no marker.
Parted(u, v) ==
    /\ u # <<>> /\ u[Len(u)] = "sk-or-" => At(v, 1) # "v1-"
    /\ \A k \in 1..Len(u) :
         Marked(u, k) /\ (\A j \in (k + 2)..Len(u) : u[j] = "b") => At(v, 1) # "b"

\* Its secrets are those of the parts,
LEMMA SecretBefore ==
    ASSUME NEW u \in Seq(Text), NEW v \in Seq(Text), Parted(u, v), NEW k \in 1..Len(u)
    PROVE  /\ Marked(u \o v, k) <=> Marked(u, k)
           /\ Marked(u, k) => RunEnd(u \o v, k + 2, {"b"}) = RunEnd(u, k + 2, {"b"})
<1>1. PICK n \in Nat, m \in Nat : n = Len(u) /\ m = Len(v)
  OBVIOUS
<1>2. PICK t : t = u \o v
  OBVIOUS
<1>3. /\ t \in Seq(Text) /\ Len(t) = n + m
      /\ \A i \in 1..n : t[i] = u[i]
      /\ \A i \in 1..m : t[n + i] = v[i]
  BY <1>1, <1>2, ConcatIs
<1>4. Marked(t, k) <=> Marked(u, k)
  <2>1. CASE k = n
    <3>1. ~Marked(u, k)
      BY <1>1, <2>1 DEF Marked
    <3>2. ASSUME Marked(t, k) PROVE FALSE
      <4>1. u # <<>> /\ u[Len(u)] = "sk-or-"
        BY <1>1, <1>3, <2>1, <3>2 DEF Marked
      <4>2. 1 \in 1..m /\ t[n + 1] = "v1-"
        BY <1>1, <1>3, <2>1, <3>2 DEF Marked
      <4>3. At(v, 1) = "v1-"
        BY <1>1, <1>3, <4>2 DEF At
      <4> QED
        BY <4>1, <4>3 DEF Parted
    <3> QED
      BY <3>1, <3>2
  <2>2. CASE k # n
    <3>1. k \in 1..n /\ k + 1 \in 1..n
      BY <1>1, <2>2
    <3> QED
      BY <1>1, <1>3, <3>1 DEF Marked
  <2> QED
    BY <2>1, <2>2
<1>5. ASSUME Marked(u, k) PROVE RunEnd(t, k + 2, {"b"}) = RunEnd(u, k + 2, {"b"})
  <2>1. PICK e : e = RunEnd(u, k + 2, {"b"})
    OBVIOUS
  <2>2. /\ e \in (k + 1)..n /\ \A j \in (k + 2)..e : u[j] = "b"
        /\ e < n => u[e + 1] # "b"
    BY <1>1, <1>5, <2>1, BodyTyped
  <2>3. \A j \in (k + 2)..e : t[j] \in {"b"}
    <3>1. \A j \in (k + 2)..e : j \in 1..n
      BY <2>2
    <3> QED
      BY <1>3, <2>2, <3>1
  <2>4. e < Len(t) => t[e + 1] \notin {"b"}
    <3>1. CASE e < n
      <4>1. e + 1 \in 1..n
        BY <2>2, <3>1
      <4> QED
        BY <1>3, <2>2, <3>1, <4>1
    <3>2. CASE e = n
      <4>1. At(v, 1) # "b"
        BY <1>1, <1>5, <2>2, <3>2 DEF Parted
      <4>2. ASSUME e < Len(t) PROVE t[e + 1] # "b"
        <5>1. 1 \in 1..m
          BY <1>3, <3>2, <4>2
        <5>2. t[n + 1] = v[1] /\ At(v, 1) = v[1]
          BY <1>1, <1>3, <5>1 DEF At
        <5> QED
          BY <3>2, <4>1, <5>2
      <4> QED
        BY <4>2
    <3> QED
      BY <2>2, <3>1, <3>2
  <2>5. e \in ((k + 2) - 1)..Len(t) /\ k + 2 \in Nat \ {0}
    BY <1>3, <2>2
  <2>6. RunEnd(t, k + 2, {"b"}) = e
    BY <1>3, <2>3, <2>4, <2>5, RunEndIs
  <2> QED
    BY <2>1, <2>6
<1> QED
  BY <1>2, <1>4, <1>5

LEMMA SecretAfter ==
    ASSUME NEW u \in Seq(Text), NEW v \in Seq(Text), NEW k \in 1..Len(v)
    PROVE  /\ Marked(u \o v, Len(u) + k) <=> Marked(v, k)
           /\ Marked(v, k) =>
                RunEnd(u \o v, (Len(u) + k) + 2, {"b"}) = Len(u) + RunEnd(v, k + 2, {"b"})
<1>1. PICK n \in Nat, m \in Nat : n = Len(u) /\ m = Len(v)
  OBVIOUS
<1>2. PICK t : t = u \o v
  OBVIOUS
<1>3. /\ t \in Seq(Text) /\ Len(t) = n + m
      /\ \A i \in 1..m : t[n + i] = v[i]
  BY <1>1, <1>2, ConcatIs
<1>4. Marked(t, n + k) <=> Marked(v, k)
  <2>1. k \in 1..m /\ n + k \in 1..Len(t) /\ t[n + k] = v[k]
    BY <1>1, <1>3
  <2>2. PICK i \in Nat : i = k + 1
    OBVIOUS
  <2>3. (n + k) + 1 = n + i
    BY <2>2
  <2>4. n + i \in 1..Len(t) <=> i \in 1..m
    BY <1>3, <2>2
  <2>5. i \in 1..m => t[n + i] = v[i]
    BY <1>3
  <2> QED
    BY <1>1, <2>1, <2>2, <2>3, <2>4, <2>5 DEF Marked
<1>5. ASSUME Marked(v, k)
      PROVE  RunEnd(t, (n + k) + 2, {"b"}) = n + RunEnd(v, k + 2, {"b"})
  <2>1. PICK e : e = RunEnd(v, k + 2, {"b"})
    OBVIOUS
  <2>2. /\ e \in (k + 1)..m /\ \A j \in (k + 2)..e : v[j] = "b"
        /\ e < m => v[e + 1] # "b"
    BY <1>1, <1>5, <2>1, BodyTyped
  <2>3. ASSUME NEW j \in ((n + k) + 2)..(n + e) PROVE t[j] \in {"b"}
    <3>1. PICK i \in 1..m : j = n + i /\ i \in (k + 2)..e
      <4>1. j - n \in 1..m /\ j = n + (j - n) /\ j - n \in (k + 2)..e
        BY <2>2
      <4> QED
        BY <4>1
    <3> QED
      BY <1>3, <2>2, <3>1
  <2>4. n + e < Len(t) => t[(n + e) + 1] \notin {"b"}
    <3>1. ASSUME n + e < Len(t) PROVE t[(n + e) + 1] # "b"
      <4>1. PICK i \in 1..m : i = e + 1
        BY <1>3, <2>2, <3>1
      <4>2. (n + e) + 1 = n + i /\ e < m
        BY <2>2, <4>1
      <4> QED
        BY <1>3, <2>2, <4>1, <4>2
    <3> QED
      BY <3>1
  <2>5. n + e \in (((n + k) + 2) - 1)..Len(t) /\ (n + k) + 2 \in Nat \ {0}
    BY <1>3, <2>2
  <2>6. RunEnd(t, (n + k) + 2, {"b"}) = n + e
    BY <1>3, <2>3, <2>4, <2>5, RunEndIs
  <2> QED
    BY <2>1, <2>6
<1> QED
  BY <1>1, <1>2, <1>4, <1>5

\* and the parts can be masked each for itself.
LEMMA MaskCut ==
    ASSUME NEW u \in Seq(Text), NEW v \in Seq(Text), Parted(u, v)
    PROVE  Mask(u \o v) = Mask(u) \o Mask(v)
<1>1. MinBody \in Nat \ {0}
  BY StreamRelayAssumption
<1>2. PICK n \in Nat, m \in Nat : n = Len(u) /\ m = Len(v)
  OBVIOUS
<1>3. PICK t : t = u \o v
  OBVIOUS
<1>4. t \in Seq(Text) /\ Len(t) = n + m
  BY <1>2, <1>3, ConcatIs
<1>5. PICK S, last, by : S = SecSet(t) /\ last = SecLasts(t) /\ by = SecBys(t)
  OBVIOUS
<1>6. PICK Su, lu, bu : Su = SecSet(u) /\ lu = SecLasts(u) /\ bu = SecBys(u)
  OBVIOUS
<1>7. PICK Sv, lv, bv : Sv = SecSet(v) /\ lv = SecLasts(v) /\ bv = SecBys(v)
  OBVIOUS
<1>8. /\ S \subseteq 1..(n + m)
      /\ \A i \in 1..(n + m) : /\ i \in S <=> SecAt(t, i)
                               /\ last[i] = RunEnd(t, i + 2, {"b"}) /\ by[i] = "***REDACTED***"
  BY <1>4, <1>5 DEF SecSet, SecLasts, SecBys
<1>9. /\ Su \subseteq 1..n
      /\ \A i \in 1..n : /\ i \in Su <=> SecAt(u, i)
                         /\ lu[i] = RunEnd(u, i + 2, {"b"}) /\ bu[i] = "***REDACTED***"
  BY <1>2, <1>6 DEF SecSet, SecLasts, SecBys
<1>10. /\ Sv \subseteq 1..m
      /\ \A i \in 1..m : /\ i \in Sv <=> SecAt(v, i)
                         /\ lv[i] = RunEnd(v, i + 2, {"b"}) /\ bv[i] = "***REDACTED***"
  BY <1>2, <1>7 DEF SecSet, SecLasts, SecBys
<1>11. ASSUME NEW i \in 1..n
       PROVE  /\ i \in S <=> i \in Su
              /\ i \in Su => last[i] = lu[i] /\ lu[i] \in 0..n /\ by[i] = bu[i]
  <2>1. /\ Marked(t, i) <=> Marked(u, i)
        /\ Marked(u, i) => RunEnd(t, i + 2, {"b"}) = RunEnd(u, i + 2, {"b"})
    BY <1>2, <1>3, SecretBefore
  <2>2. SecAt(t, i) <=> SecAt(u, i)
    BY <2>1 DEF SecAt
  <2>3. SecAt(u, i) => Marked(u, i) /\ RunEnd(u, i + 2, {"b"}) \in (i + 1)..Len(u)
    BY BodyTyped DEF SecAt
  <2>4. i \in 1..(n + m)
    OBVIOUS
  <2>5. (i \in S <=> SecAt(t, i)) /\ (i \in Su <=> SecAt(u, i))
    BY <1>8, <1>9, <2>4
  <2>6. /\ last[i] = RunEnd(t, i + 2, {"b"}) /\ by[i] = "***REDACTED***"
        /\ lu[i] = RunEnd(u, i + 2, {"b"}) /\ bu[i] = "***REDACTED***"
    BY <1>8, <1>9, <2>4
  <2>7. ASSUME i \in Su PROVE last[i] = lu[i] /\ lu[i] \in 0..n /\ by[i] = bu[i]
    <3>1. lu[i] \in (i + 1)..n /\ last[i] = lu[i]
      BY <1>2, <2>1, <2>3, <2>5, <2>6, <2>7
    <3> QED
      BY <2>6, <3>1
  <2> QED
    BY <2>2, <2>5, <2>7
<1>12. ASSUME NEW i \in 1..m
       PROVE  /\ n + i \in S <=> i \in Sv
              /\ i \in Sv => last[n + i] = n + lv[i] /\ lv[i] \in Nat /\ by[n + i] = bv[i]
  <2>1. /\ Marked(t, n + i) <=> Marked(v, i)
        /\ Marked(v, i) => RunEnd(t, (n + i) + 2, {"b"}) = n + RunEnd(v, i + 2, {"b"})
    BY <1>2, <1>3, SecretAfter
  <2>2. Marked(v, i) => RunEnd(v, i + 2, {"b"}) \in (i + 1)..m
    BY <1>2, BodyTyped
  <2>3. SecAt(t, n + i) <=> SecAt(v, i)
    <3>1. ASSUME NEW e \in (i + 1)..m PROVE (n + e) - (n + i) - 1 = e - i - 1
      OBVIOUS
    <3> QED
      BY <2>1, <2>2, <3>1 DEF SecAt
  <2>4. n + i \in 1..(n + m)
    OBVIOUS
  <2>5. PICK k \in 1..(n + m) : k = n + i
    BY <2>4
  <2>6. (k \in S <=> SecAt(t, k)) /\ (i \in Sv <=> SecAt(v, i))
    BY <1>8, <1>10
  <2>7. /\ last[k] = RunEnd(t, k + 2, {"b"}) /\ by[k] = "***REDACTED***"
        /\ lv[i] = RunEnd(v, i + 2, {"b"}) /\ bv[i] = "***REDACTED***"
    BY <1>8, <1>10
  <2>8. SecAt(v, i) => Marked(v, i)
    BY DEF SecAt
  <2>9. ASSUME i \in Sv PROVE last[k] = n + lv[i] /\ lv[i] \in Nat /\ by[k] = bv[i]
    <3>1. lv[i] \in (i + 1)..m /\ last[k] = n + lv[i]
      BY <2>1, <2>2, <2>5, <2>6, <2>7, <2>8, <2>9
    <3> QED
      BY <2>7, <3>1
  <2> QED
    BY <2>3, <2>5, <2>6, <2>9
<1>13. Apart(Len(u), Len(v), S, last, by, Su, lu, bu, Sv, lv, bv)
  <2>1. /\ \A i \in 1..n : i \in S <=> i \in Su
        /\ \A i \in Su : last[i] = lu[i] /\ lu[i] \in 0..n /\ by[i] = bu[i]
    BY <1>9, <1>11
  <2>2. /\ \A i \in 1..m : n + i \in S <=> i \in Sv
        /\ \A i \in Sv : last[n + i] = n + lv[i] /\ lv[i] \in Nat /\ by[n + i] = bv[i]
    BY <1>10, <1>12
  <2>3. Apart(n, m, S, last, by, Su, lu, bu, Sv, lv, bv)
    BY <1>8, <1>9, <1>10, <2>1, <2>2 DEF Apart
  <2> QED
    BY <1>2, <2>3
<1>14. /\ (\A i \in S : by[i] \in Masked) /\ (\A i \in Su : bu[i] \in Masked)
       /\ (\A i \in Sv : bv[i] \in Masked)
  <2>1. "***REDACTED***" \in Masked
    BY DEF Masked
  <2> QED
    BY <1>8, <1>9, <1>10, <2>1
<1>15. u \in Seq(Masked) /\ v \in Seq(Masked)
  BY DEF Masked
<1>16. Replace(u \o v, SpansOf(S, last, by))
        = Replace(u, SpansOf(Su, lu, bu)) \o Replace(v, SpansOf(Sv, lv, bv))
  BY <1>13, <1>14, <1>15, ReplaceCut
<1>17. Mask(t) = Replace(t, SpansOf(S, last, by))
  BY <1>4, <1>5, SecretsAre DEF Mask
<1>18. Mask(u) = Replace(u, SpansOf(Su, lu, bu))
  BY <1>6, SecretsAre DEF Mask
<1>19. Mask(v) = Replace(v, SpansOf(Sv, lv, bv))
  BY <1>7, SecretsAre DEF Mask
<1> QED
  BY <1>3, <1>16, <1>17, <1>18, <1>19

-----------------------------------------------------------------------------
(* What an end of a text has to do with an end of the answer               *)

\* The text t is a and then b.
Joined(t, a, b) ==
    /\ t \in Seq(Text) /\ a \in Seq(Text) /\ b \in Seq(Text)
    /\ t = a \o b

LEMMA JoinedIs ==
    ASSUME NEW t, NEW a, NEW b, Joined(t, a, b)
    PROVE  /\ t \in Seq(Text) /\ a \in Seq(Text) /\ b \in Seq(Text)
           /\ Len(t) = Len(a) + Len(b)
           /\ \A i \in 1..Len(a) : t[i] = a[i]
           /\ \A i \in 1..Len(b) : t[Len(a) + i] = b[i]
BY ConcatIs DEF Joined

LEMMA JoinedEnd ==
    ASSUME NEW t, NEW a, NEW b, Joined(t, a, b)
    PROVE  b \in Seq(Text) /\ \A i \in 1..Len(b) : t[Len(a) + i] = b[i]
BY JoinedIs

\* A text is put together from three in two ways.
LEMMA JoinLeft ==
    ASSUME NEW t, NEW a, NEW u, NEW b, NEW c, Joined(t, a, u), Joined(u, b, c)
    PROVE  \E v : Joined(v, a, b) /\ Joined(t, v, c)
<1>1. /\ t \in Seq(Text) /\ a \in Seq(Text) /\ b \in Seq(Text) /\ c \in Seq(Text)
      /\ t = a \o u /\ u = b \o c
  BY DEF Joined
<1>2. PICK v : v = a \o b
  OBVIOUS
<1>3. v \in Seq(Text)
  BY <1>1, <1>2, ConcatText, Zenon
<1>4. (a \o b) \o c = a \o (b \o c)
  <2>1. a \in Seq(Text) /\ b \in Seq(Text) /\ c \in Seq(Text)
    BY <1>1
  <2> QED
    BY <2>1, ConcatAssoc, SMTT(30)
<1>5. t = v \o c
  BY <1>1, <1>2, <1>4, Zenon
<1> QED
  BY <1>1, <1>2, <1>3, <1>5, Zenon DEF Joined

LEMMA JoinRight ==
    ASSUME NEW t, NEW v, NEW a, NEW b, NEW c, Joined(t, v, c), Joined(v, a, b)
    PROVE  \E u : Joined(u, b, c) /\ Joined(t, a, u)
<1>1. /\ t \in Seq(Text) /\ a \in Seq(Text) /\ b \in Seq(Text) /\ c \in Seq(Text)
      /\ t = v \o c /\ v = a \o b
  BY DEF Joined
<1>2. PICK u : u = b \o c
  OBVIOUS
<1>3. u \in Seq(Text)
  BY <1>1, <1>2, ConcatText, Zenon
<1>4. (a \o b) \o c = a \o (b \o c)
  <2>1. a \in Seq(Text) /\ b \in Seq(Text) /\ c \in Seq(Text)
    BY <1>1
  <2> QED
    BY <2>1, ConcatAssoc, SMTT(30)
<1>5. t = a \o u
  BY <1>1, <1>2, <1>4, Zenon
<1> QED
  BY <1>1, <1>2, <1>3, <1>5, Zenon DEF Joined

LEMMA JoinedOnce ==
    ASSUME NEW t, NEW u, NEW a, NEW b, Joined(t, a, b), Joined(u, a, b)
    PROVE  t = u
BY DEF Joined

LEMMA SameCut ==
    ASSUME NEW t, NEW a, NEW b, NEW c, NEW d, Joined(t, a, b), Joined(t, c, d), Len(b) = Len(d)
    PROVE  a = c /\ b = d
<1>1. /\ a \in Seq(Text) /\ b \in Seq(Text) /\ Len(t) = Len(a) + Len(b)
      /\ \A i \in 1..Len(a) : t[i] = a[i]
      /\ \A i \in 1..Len(b) : t[Len(a) + i] = b[i]
  BY JoinedIs
<1>2. /\ c \in Seq(Text) /\ d \in Seq(Text) /\ Len(t) = Len(c) + Len(d)
      /\ \A i \in 1..Len(c) : t[i] = c[i]
      /\ \A i \in 1..Len(d) : t[Len(c) + i] = d[i]
  BY JoinedIs
<1>3. Len(a) = Len(c)
  BY <1>1, <1>2
<1>4. a = c
  BY <1>1, <1>2, <1>3, SeqEqual
<1>5. b = d
  BY <1>1, <1>2, <1>3, SeqEqual
<1> QED
  BY <1>4, <1>5

LEMMA JoinedAt ==
    ASSUME NEW t \in Seq(Text), NEW k \in 0..Len(t)
    PROVE  \E a, b : Joined(t, a, b) /\ Len(a) = k /\ Len(b) = Len(t) - k
<1>1. PICK a \in Seq(Text), b \in Seq(Text) : t = a \o b /\ Len(a) = k /\ Len(b) = Len(t) - k
  BY CutAt
<1>2. Joined(t, a, b)
  BY <1>1 DEF Joined
<1> QED
  BY <1>1, <1>2

\* Of two ways to cut a text, one cuts a part of the other.
LEMMA CutTwice ==
    ASSUME NEW t, NEW a, NEW b, NEW c, NEW d, Joined(t, a, b), Joined(t, c, d), Len(d) <= Len(b)
    PROVE  \E q : Joined(b, q, d) /\ Joined(c, a, q)
<1>1. b \in Seq(Text) /\ Len(b) \in Nat /\ Len(d) \in Nat
  BY JoinedIs
<1>2. PICK k \in 0..Len(b) : k = Len(b) - Len(d)
  BY <1>1
<1>3. PICK q, e : Joined(b, q, e) /\ Len(q) = k /\ Len(e) = Len(b) - k
  BY <1>1, JoinedAt
<1>4. Len(e) = Len(d)
  BY <1>1, <1>2, <1>3
<1>5. PICK v : Joined(v, a, q) /\ Joined(t, v, e)
  BY <1>3, JoinLeft
<1>6. v = c /\ e = d
  BY <1>4, <1>5, SameCut
<1> QED
  BY <1>3, <1>5, <1>6

LEMMA JoinedNothing ==
    ASSUME NEW t \in Seq(Text)
    PROVE  Joined(t, <<>>, t) /\ Joined(t, t, <<>>)
<1>1. <<>> \in Seq(Text) /\ t = <<>> \o t /\ t = t \o <<>>
  OBVIOUS
<1> QED
  BY <1>1 DEF Joined

\* Text without addresses.
Plain(s) == \A i \in 1..Len(s) : s[i] \notin Addresses

\* An end of c without addresses is one of a.
TailOf(c, a) ==
    \A x, s : Joined(c, x, s) /\ Plain(s) => \E y : Joined(a, y, s)

LEMMA TailEmpty == ASSUME NEW a \in Seq(Text) PROVE TailOf(<<>>, a)
<1>1. ASSUME NEW x, NEW s, Joined(<<>>, x, s) PROVE \E y : Joined(a, y, s)
  <2>1. s \in Seq(Text) /\ Len(s) \in Nat /\ Len(x) \in Nat /\ Len(x) + Len(s) = 0
    BY <1>1, JoinedIs
  <2>2. s = <<>>
    BY <2>1, EmptySeq
  <2> QED
    BY <2>2, JoinedNothing
<1> QED
  BY <1>1 DEF TailOf

\* An end passes on: to itself, to a cut of it and to more of the answer;
LEMMA TailTrans == ASSUME NEW c, NEW b, NEW a, TailOf(c, b), TailOf(b, a) PROVE TailOf(c, a)
BY Zenon DEF TailOf

LEMMA TailCut ==
    ASSUME NEW t, NEW x, NEW c, NEW a, Joined(t, x, c), TailOf(t, a)
    PROVE  TailOf(c, a)
<1>1. ASSUME NEW y, NEW s, Joined(c, y, s), Plain(s)
      PROVE  \E z : Joined(a, z, s)
  <2>1. PICK h : Joined(h, x, y) /\ Joined(t, h, s)
    BY <1>1, JoinLeft
  <2> QED
    BY <1>1, <2>1 DEF TailOf
<1> QED
  BY <1>1 DEF TailOf

LEMMA TailOn ==
    ASSUME NEW t, NEW c, NEW a, NEW b, NEW x, Joined(t, c, x), Joined(b, a, x), TailOf(c, a)
    PROVE  TailOf(t, b)
<1>1. ASSUME NEW y, NEW s, Joined(t, y, s), Plain(s)
      PROVE  \E z : Joined(b, z, s)
  <2>1. Len(s) \in Nat /\ Len(x) \in Nat
    BY <1>1, JoinedIs
  <2>2. CASE Len(s) <= Len(x)
    <3>1. PICK q : Joined(x, q, s)
      BY <1>1, <2>2, CutTwice
    <3> QED
      BY <3>1, JoinLeft
  <2>3. CASE Len(x) <= Len(s)
    <3>1. PICK q : Joined(s, q, x) /\ Joined(c, y, q)
      BY <1>1, <2>3, CutTwice
    <3>2. Plain(q)
      <4>1. /\ Len(s) = Len(q) + Len(x) /\ Len(q) \in Nat
            /\ \A i \in 1..Len(q) : s[i] = q[i]
        BY <3>1, JoinedIs
      <4> QED
        BY <1>1, <2>1, <4>1 DEF Plain
    <3>3. PICK z : Joined(a, z, q)
      BY <3>1, <3>2 DEF TailOf
    <3>4. PICK u : Joined(u, q, x) /\ Joined(b, z, u)
      BY <3>3, JoinRight
    <3>5. u = s
      BY <3>1, <3>4, JoinedOnce
    <3> QED
      BY <3>4, <3>5
  <2> QED
    BY <2>1, <2>2, <2>3
<1> QED
  BY <1>1 DEF TailOf

\* and rehydrating keeps it.
LEMMA TailRehydrated == ASSUME NEW t \in Seq(Text) PROVE TailOf(Rehydrate(t), t)
<1>1. PICK z \in Seq(Text), w \in Seq(Text) : Ends(t, z, w)
  BY Parse
<1>2. Joined(Rehydrate(t), z, w) /\ (z = <<>> \/ z[Len(z)] \in Addresses)
  BY <1>1, RehydrateTyped DEF Ends, Joined
<1>3. PICK u : Joined(t, u, w)
  BY <1>1 DEF Ends, Joined
<1>4. ASSUME NEW x, NEW s, Joined(Rehydrate(t), x, s), Plain(s)
      PROVE  \E y : Joined(t, y, s)
  <2>1. Len(w) \in Nat /\ Len(s) \in Nat
    BY <1>2, <1>4, JoinedIs
  <2>2. CASE Len(s) <= Len(w)
    <3>1. PICK q : Joined(w, q, s)
      BY <1>2, <1>4, <2>2, CutTwice
    <3> QED
      BY <1>3, <3>1, JoinLeft
  <2>3. CASE Len(w) < Len(s)
    <3>1. PICK q : Joined(s, q, w) /\ Joined(z, x, q)
      BY <1>2, <1>4, <2>1, <2>3, CutTwice
    <3>2. /\ Len(s) = Len(q) + Len(w) /\ Len(q) \in Nat
          /\ \A i \in 1..Len(q) : s[i] = q[i]
      BY <3>1, JoinedIs
    <3>3. /\ Len(z) = Len(x) + Len(q) /\ Len(x) \in Nat
          /\ \A i \in 1..Len(q) : z[Len(x) + i] = q[i]
      BY <3>1, JoinedIs
    <3>4. PICK k \in 1..Len(q) : k = Len(q)
      BY <2>1, <2>3, <3>2
    <3>5. z[Len(z)] = s[k] /\ z # <<>> /\ k \in 1..Len(s)
      BY <2>1, <3>2, <3>3, <3>4
    <3> QED
      BY <1>2, <1>4, <3>5 DEF Plain
  <2> QED
    BY <2>1, <2>2, <2>3
<1> QED
  BY <1>4 DEF TailOf

\* The units and the placeholders of a text that is joined.
LEMMA AtJoined ==
    ASSUME NEW t, NEW a, NEW b, Joined(t, a, b), NEW i \in Nat \ {0}
    PROVE  /\ i <= Len(a) => At(t, i) = At(a, i)
           /\ At(t, Len(a) + i) = At(b, i)
BY AtConcat DEF Joined

LEMMA PhJoined ==
    ASSUME NEW t, NEW a, NEW b, Joined(t, a, b), NEW i \in 1..Len(b)
    PROVE  /\ PhAt(t, Len(a) + i) <=> PhAt(b, i)
           /\ PhLast(t, Len(a) + i) = Len(a) + PhLast(b, i)
BY PhShift DEF Joined

LEMMA PhIsPlaceholder ==
    ASSUME NEW t \in Seq(Text), NEW i \in 1..Len(t), PhAt(t, i)
    PROVE  \E s \in Placeholders(t) : s.first = i /\ s.last = PhLast(t, i)
<1>1. PICK s : s = [first |-> i, last |-> PhLasts(t)[i], by |-> PhBys(t)[i]]
  OBVIOUS
<1>2. s.first = i /\ s.last = PhLast(t, i)
  BY <1>1 DEF PhLasts
<1>3. s \in SpansOf(PhSet(t), PhLasts(t), PhBys(t))
  BY <1>1 DEF SpansOf, PhSet
<1> QED
  BY <1>2, <1>3, PlaceholdersAre

-----------------------------------------------------------------------------
(* Cuts of the answer                                                     *)

\* What a later unit completes to a placeholder is held, if its dash is there.
LEMMA OpenHeld ==
    ASSUME NEW t, NEW w, NEW r, Joined(t, w, r), Free(w), NEW i \in 1..Len(w), PhAt(t, i),
           i + 2 <= Len(w)
    PROVE  HoldsPlaceholder(w, i)
<1>1. PICK n \in Nat : n = Len(w)
  OBVIOUS
<1>2. w \in Seq(Text) /\ \A d \in 0..5 : i + d <= n => At(t, i + d) = At(w, i + d)
  <2>1. ASSUME NEW d \in 0..5, i + d <= n PROVE At(t, i + d) = At(w, i + d)
    <3>1. PICK j \in Nat \ {0} : j = i + d
      OBVIOUS
    <3> QED
      BY <1>1, <2>1, <3>1, AtJoined
  <2> QED
    BY <2>1, JoinedIs
<1>3. At(t, i) = At(w, i) /\ At(t, i + 1) = At(w, i + 1) /\ At(t, i + 2) = At(w, i + 2)
  <2>1. /\ i + 0 <= n => At(t, i + 0) = At(w, i + 0)
        /\ i + 1 <= n => At(t, i + 1) = At(w, i + 1)
        /\ i + 2 <= n => At(t, i + 2) = At(w, i + 2)
    BY <1>2
  <2> QED
    BY <1>1, <2>1
<1>4. SubSeq(w, i, i + 2) = <<"[ipaddres", "s", "-">>
  <2>1. At(w, i) = w[i] /\ At(w, i + 1) = w[i + 1] /\ At(w, i + 2) = w[i + 2]
    BY <1>1 DEF At
  <2>2. w[i] = "[ipaddres" /\ w[i + 1] = "s" /\ w[i + 2] = "-"
    BY <1>3, <2>1 DEF PhAt
  <2> QED
    BY <1>2, <2>2, SubSeqShort
<1>5. ASSUME n <= i + 4, \A k \in (i + 3)..n : w[k] \in Digits PROVE HoldsPlaceholder(w, i)
  <2>1. n \in ((i + 3) - 1)..Len(w) /\ i + 3 \in Nat \ {0} /\ ~(n < Len(w))
    BY <1>1
  <2>2. RunEnd(w, i + 3, Digits) = n
    BY <1>2, <1>5, <2>1, RunEndIs
  <2> QED
    BY <1>1, <1>4, <1>5, <2>2 DEF HoldsPlaceholder
<1>6. ~PhAt(w, i)
  BY DEF Free
<1>7. CASE i + 5 <= n
  <2>1. /\ At(t, i + 3) = At(w, i + 3) /\ At(t, i + 4) = At(w, i + 4)
        /\ At(t, i + 5) = At(w, i + 5)
    BY <1>2, <1>7
  <2> QED
    BY <1>3, <1>6, <2>1 DEF PhAt, PhNumber
<1>8. CASE n = i + 4
  <2>1. At(t, i + 3) = At(w, i + 3) /\ At(t, i + 4) = At(w, i + 4)
    BY <1>2, <1>8
  <2>2. At(w, i + 3) = w[i + 3] /\ At(w, i + 4) = w[i + 4] /\ w[i + 3] \in Digits
    BY <1>1, <1>8, <2>1 DEF At, PhAt
  <2>3. w[i + 4] \in Digits
    <3>1. ASSUME w[i + 4] \notin Digits PROVE FALSE
      <4>1. PhNumber(t, i) = PhNumber(w, i)
        BY <2>1, <2>2, <3>1 DEF PhNumber, NumberOf
      <4> QED
        BY <1>3, <1>6, <2>1, <4>1 DEF PhAt
    <3> QED
      BY <3>1
  <2>4. \A k \in (i + 3)..n : k = i + 3 \/ k = i + 4
    BY <1>8
  <2> QED
    BY <1>5, <1>8, <2>2, <2>3, <2>4
<1>9. CASE n = i + 3
  <2>1. At(t, i + 3) = At(w, i + 3)
    BY <1>2, <1>9
  <2>2. w[i + 3] \in Digits
    BY <1>1, <1>9, <2>1 DEF At, PhAt
  <2>3. \A k \in (i + 3)..n : k = i + 3
    BY <1>9
  <2> QED
    BY <1>5, <1>9, <2>2, <2>3
<1>10. CASE n = i + 2
  BY <1>5, <1>10
<1> QED
  BY <1>1, <1>7, <1>8, <1>9, <1>10

\* A cut in a placeholder of the answer, or in what may be one.
TearsAt(c, b, r) ==
    \/ /\ b # <<>> /\ b[Len(b)] # "-"
       /\ \E i \in 1..Len(b) : PhAt(c, i) /\ PhLast(c, i) > Len(b)
    \/ /\ b # <<>> /\ r # <<>> /\ b[Len(b)] \in Digits /\ r[1] \in Digits
       /\ \E i \in 1..Len(b) : PhAt(b, i) /\ PhLast(b, i) = Len(b)

\* If its dash is not there, the chunk was cut inside it.
LEMMA OpenTorn ==
    ASSUME NEW t, NEW w, NEW r, Joined(t, w, r), NEW i \in 1..Len(w), PhAt(t, i), i + 2 > Len(w),
           NEW c, NEW b, Joined(c, b, r), TailOf(w, b)
    PROVE  TearsAt(c, b, r)
<1>1. PICK n \in Nat : n = Len(w) /\ w \in Seq(Text)
  BY JoinedIs
<1>2. PICK k \in 0..n : k = i - 1
  BY <1>1
<1>3. PICK x, s : Joined(w, x, s) /\ Len(x) = k /\ Len(s) = n - k
  BY <1>1, JoinedAt
<1>4. PICK l \in {1, 2} : l = Len(s) /\ n = k + l
  <2>1. n - k \in {1, 2}
    BY <1>1, <1>2
  <2> QED
    BY <1>3, <2>1
<1>5. /\ s \in Seq(Text) /\ i = k + 1
      /\ \A j \in 1..l : w[k + j] = s[j]
  <2>1. Joined(w, x, s)
    BY <1>3
  <2>2. s \in Seq(Text) /\ \A j \in 1..Len(s) : w[Len(x) + j] = s[j]
    BY <2>1, JoinedEnd
  <2> QED
    BY <1>2, <1>3, <1>4, <2>2
<1>6. s[1] = "[ipaddres" /\ (l = 2 => s[2] = "s")
  <2>1. At(t, i) = At(w, i) /\ At(w, i) = w[i]
    BY <1>1, AtJoined DEF At
  <2>2. w[k + 1] = s[1]
    BY <1>4, <1>5
  <2>3. s[1] = "[ipaddres"
    BY <1>5, <2>1, <2>2 DEF PhAt
  <2>4. ASSUME l = 2 PROVE s[2] = "s"
    <3>1. PICK j : j = i + 1
      OBVIOUS
    <3>2. j \in 1..n /\ j = k + 2
      BY <1>4, <1>5, <2>4, <3>1
    <3>3. At(t, j) = At(w, j) /\ At(w, j) = w[j]
      BY <1>1, <3>2, AtJoined DEF At
    <3>4. w[k + 2] = s[2]
      BY <1>5, <2>4
    <3>5. At(t, j) = "s"
      BY <3>1 DEF PhAt
    <3> QED
      BY <3>2, <3>3, <3>4, <3>5
  <2> QED
    BY <2>3, <2>4
<1>7. Plain(s)
  <2>1. ASSUME NEW j \in 1..Len(s) PROVE s[j] \notin Addresses
    <3>1. j = 1 \/ (l = 2 /\ j = 2)
      BY <1>4
    <3> QED
      BY <1>6, <3>1 DEF Addresses
  <2> QED
    BY <2>1 DEF Plain
<1>8. PICK y : Joined(b, y, s)
  BY <1>3, <1>7 DEF TailOf
<1>9. PICK u : Joined(u, s, r) /\ Joined(t, x, u)
  BY <1>3, JoinRight
<1>10. Joined(c, y, u)
  <2>1. PICK v : Joined(v, s, r) /\ Joined(c, y, v)
    BY <1>8, JoinRight
  <2> QED
    BY <1>9, <2>1, JoinedOnce
<1>11. PICK m \in Nat : m = Len(y) /\ Len(b) = m + l /\ b[m + l] = s[l]
  <2>1. y \in Seq(Text) /\ Len(b) = Len(y) + Len(s)
    BY <1>8, JoinedIs
  <2>2. \A j \in 1..Len(s) : b[Len(y) + j] = s[j]
    BY <1>8, JoinedEnd
  <2>3. PICK m \in Nat : m = Len(y)
    BY <2>1
  <2>4. l \in 1..Len(s) /\ l = Len(s)
    BY <1>4
  <2>5. b[m + l] = s[l]
    BY <2>2, <2>3, <2>4
  <2> QED
    BY <2>1, <2>3, <2>4, <2>5
<1>12. PhAt(c, m + 1)
  <2>1. 1 \in 1..Len(u)
    <3>1. Len(u) = Len(s) + Len(r) /\ r \in Seq(Text)
      BY <1>9, JoinedIs
    <3> QED
      BY <1>4, <3>1
  <2>2. PhAt(t, k + 1) <=> PhAt(u, 1)
    BY <1>3, <1>9, <2>1, PhJoined
  <2>3. PhAt(c, m + 1) <=> PhAt(u, 1)
    BY <1>10, <1>11, <2>1, PhJoined
  <2> QED
    BY <1>5, <2>2, <2>3
<1>13. PhLast(c, m + 1) \in Nat /\ PhLast(c, m + 1) > m + l
  <2>1. PhLast(c, m + 1) \in {(m + 1) + 3, (m + 1) + 4, (m + 1) + 5}
    BY DEF PhLast
  <2> QED
    BY <2>1
<1>14. b # <<>> /\ b[Len(b)] # "-" /\ m + 1 \in 1..Len(b)
  <2>1. b # <<>> /\ m + 1 \in 1..Len(b)
    BY <1>11
  <2>2. s[l] # "-"
    BY <1>6
  <2> QED
    BY <1>11, <2>1, <2>2
<1> QED
  BY <1>11, <1>12, <1>13, <1>14 DEF TearsAt

\* A placeholder at the end of what has come grows with the next unit only.
LEMMA Unstable ==
    ASSUME NEW t, NEW w, NEW r, Joined(t, w, r), NEW i \in 1..Len(w), PhAt(w, i),
           ~(PhLast(t, i) = PhLast(w, i) /\ PhNumber(t, i) = PhNumber(w, i))
    PROVE  /\ PhLast(w, i) = Len(w) /\ w[Len(w)] \in Digits
           /\ \/ At(r, 1) \in Digits
              \/ PhAt(t, i) /\ PhLast(t, i) > Len(w)
<1>1. PICK n \in Nat : n = Len(w)
  OBVIOUS
<1>2. w \in Seq(Text) /\ \A d \in 0..5 : i + d <= n => At(t, i + d) = At(w, i + d)
  <2>1. ASSUME NEW d \in 0..5, i + d <= n PROVE At(t, i + d) = At(w, i + d)
    <3>1. PICK j \in Nat \ {0} : j = i + d
      OBVIOUS
    <3> QED
      BY <1>1, <2>1, <3>1, AtJoined
  <2> QED
    BY <2>1, JoinedIs
<1>3. i + 3 <= n
  BY <1>1, <1>2, PhEnds
<1>4. /\ At(t, i) = At(w, i) /\ At(t, i + 1) = At(w, i + 1) /\ At(t, i + 2) = At(w, i + 2)
      /\ At(t, i + 3) = At(w, i + 3)
  <2>1. /\ i + 0 <= n => At(t, i + 0) = At(w, i + 0)
        /\ i + 1 <= n => At(t, i + 1) = At(w, i + 1)
        /\ i + 2 <= n => At(t, i + 2) = At(w, i + 2)
        /\ i + 3 <= n => At(t, i + 3) = At(w, i + 3)
        /\ i + 0 = i
    BY <1>2
  <2> QED
    BY <1>3, <2>1
<1>5. At(t, n + 1) = At(r, 1) /\ At(w, n + 1) = "end"
  BY <1>1, AtJoined DEF At
<1>6. CASE i + 5 <= n
  <2>1. At(t, i + 4) = At(w, i + 4) /\ At(t, i + 5) = At(w, i + 5)
    BY <1>2, <1>6
  <2> QED
    BY <1>4, <2>1 DEF PhNumber, PhLast
<1>7. CASE n = i + 4
  <2>1. At(t, i + 4) = At(w, i + 4) /\ n + 1 = i + 5 /\ At(w, i + 5) = "end"
    BY <1>2, <1>5, <1>7
  <2>2. At(w, i + 4) \in Digits
    <3>1. ASSUME At(w, i + 4) \notin Digits PROVE FALSE
      BY <1>4, <2>1, <3>1 DEF PhNumber, NumberOf, PhLast
    <3> QED
      BY <3>1
  <2>3. PhLast(w, i) = n /\ w[n] \in Digits
    BY <1>1, <1>7, <2>1, <2>2 DEF PhLast, At
  <2>4. At(t, i + 5) \in Digits \/ At(t, i + 5) = "]"
    BY <1>4, <2>1, <2>2, EndNoDigit DEF PhNumber, NumberOf, PhLast
  <2>5. ASSUME At(t, i + 5) = "]" PROVE PhAt(t, i) /\ PhLast(t, i) > n
    <3>1. PhNumber(t, i) = PhNumber(w, i)
      BY <1>4, <2>1, <2>5, EndNoDigit DEF PhNumber, NumberOf
    <3>2. PhLast(t, i) = i + 5
      BY <2>1, <2>2, <2>5 DEF PhLast
    <3> QED
      BY <1>4, <1>7, <3>1, <3>2 DEF PhAt
  <2> QED
    BY <1>1, <1>5, <2>1, <2>3, <2>4, <2>5
<1>8. CASE n = i + 3
  <2>1. n + 1 = i + 4 /\ At(w, i + 4) = "end"
    BY <1>5, <1>8
  <2>2. PhLast(w, i) = n /\ w[n] \in Digits
    BY <1>1, <1>8, <2>1, EndNoDigit DEF PhLast, PhAt, At
  <2>3. At(t, i + 4) \in Digits \/ At(t, i + 4) = "]"
    BY <1>4, <2>1, EndNoDigit DEF PhNumber, NumberOf, PhLast
  <2>4. ASSUME At(t, i + 4) = "]" PROVE PhAt(t, i) /\ PhLast(t, i) > n
    <3>1. PhNumber(t, i) = PhNumber(w, i)
      BY <1>4, <2>1, <2>4, EndNoDigit DEF PhNumber, NumberOf
    <3>2. PhLast(t, i) = i + 4
      BY <2>4, EndNoDigit DEF PhLast
    <3> QED
      BY <1>4, <1>8, <3>1, <3>2 DEF PhAt
  <2> QED
    BY <1>1, <1>5, <2>1, <2>2, <2>3, <2>4
<1> QED
  BY <1>1, <1>3, <1>6, <1>7, <1>8

\* A chunk that is not cut there leaves the placeholders it ends with alone.
LEMMA TornStable ==
    ASSUME NEW c, NEW b, NEW r, Joined(c, b, r),
           NEW w \in Seq(Text), TailOf(w, b), ~TearsAt(c, b, r)
    PROVE  Stable(w, r)
<1>1. PICK t : Joined(t, w, r) /\ t = w \o r
  <2>1. r \in Seq(Text) /\ w \o r \in Seq(Text)
    BY JoinedIs, ConcatText
  <2> QED
    BY <2>1 DEF Joined
<1>2. SUFFICES ASSUME NEW i \in 1..Len(w), PhAt(w, i),
                      ~(PhLast(t, i) = PhLast(w, i) /\ PhNumber(t, i) = PhNumber(w, i))
               PROVE  FALSE
  BY <1>1 DEF Stable
<1>3. PICK n \in Nat : n = Len(w)
  OBVIOUS
<1>4. /\ PhLast(w, i) = n /\ w[n] \in Digits
      /\ At(r, 1) \in Digits \/ (PhAt(t, i) /\ PhLast(t, i) > n)
  BY <1>1, <1>2, <1>3, Unstable
<1>5. i + 3 <= n /\ \A j \in (i + 1)..n : w[j] \in {"s", "-", "]"} \cup Digits
  BY <1>2, <1>3, <1>4, PhEnds
<1>6. PICK k \in 0..n : i = k + 1
  <2>1. i - 1 \in 0..n /\ i = (i - 1) + 1
    BY <1>3
  <2> QED
    BY <2>1
<1>7. PICK x, s : Joined(w, x, s) /\ Len(x) = k /\ Len(s) = n - k
  <2>1. w \in Seq(Text) /\ k \in 0..Len(w)
    BY <1>3
  <2>2. \E x, s : Joined(w, x, s) /\ Len(x) = k /\ Len(s) = Len(w) - k
    BY <2>1, JoinedAt, Zenon
  <2> QED
    BY <1>3, <2>2
<1>8. PICK l \in Nat \ {0} : l = Len(s) /\ n = k + l
  <2>1. n - k \in Nat \ {0} /\ n = k + (n - k)
    BY <1>3, <1>6
  <2> QED
    BY <1>7, <2>1
<1>9. s \in Seq(Text) /\ \A j \in 1..l : w[k + j] = s[j]
  <2>1. Joined(w, x, s)
    BY <1>7
  <2>2. s \in Seq(Text) /\ \A j \in 1..Len(s) : w[Len(x) + j] = s[j]
    BY <2>1, JoinedEnd
  <2> QED
    BY <1>7, <1>8, <2>2
<1>10. Plain(s)
  <2>1. ASSUME NEW j \in 1..l PROVE s[j] \notin Addresses
    <3>1. PICK q \in 1..n : q = k + j /\ w[q] = s[j]
      BY <1>8, <1>9
    <3>2. CASE j = 1
      <4>1. At(w, i) = w[i] /\ At(w, i) = "[ipaddres" /\ q = i
        BY <1>2, <1>6, <3>1, <3>2 DEF At, PhAt
      <4> QED
        BY <3>1, <4>1 DEF Addresses
    <3>3. CASE j # 1
      <4>1. q \in (i + 1)..n
        BY <1>6, <3>1, <3>3
      <4> QED
        BY <1>5, <3>1, <4>1 DEF Addresses, Digits
    <3> QED
      BY <3>2, <3>3
  <2> QED
    BY <1>8, <2>1 DEF Plain
<1>11. PICK y : Joined(b, y, s)
  BY <1>7, <1>10 DEF TailOf
<1>12. PICK m \in Nat : m = Len(y) /\ Len(b) = m + l /\ b[m + l] = s[l]
  <2>1. /\ y \in Seq(Text) /\ Len(b) = Len(y) + Len(s)
        /\ \A j \in 1..Len(s) : b[Len(y) + j] = s[j]
    BY <1>11, JoinedIs
  <2>2. l \in 1..Len(s)
    BY <1>8
  <2> QED
    BY <1>8, <2>1, <2>2
<1>13. b # <<>> /\ b[Len(b)] \in Digits /\ b[Len(b)] # "-" /\ m + 1 \in 1..Len(b)
  <2>1. b # <<>> /\ m + 1 \in 1..Len(b)
    BY <1>12
  <2>2. w[n] = s[l]
    BY <1>8, <1>9
  <2> QED
    BY <1>4, <1>12, <2>1, <2>2 DEF Digits
<1>14. CASE At(r, 1) \in Digits
  <2>1. r # <<>> /\ r[1] \in Digits
    BY <1>14, EndNoDigit DEF At
  <2>2. 1 \in 1..Len(s)
    BY <1>8
  <2>3. PICK f \in Nat : f = PhLast(s, 1)
    BY DEF PhLast
  <2>4. PhAt(s, 1) /\ n = k + f
    BY <1>2, <1>4, <1>6, <1>7, <2>2, <2>3, PhJoined
  <2>5. PhAt(b, m + 1) /\ PhLast(b, m + 1) = m + f
    BY <1>11, <1>12, <2>2, <2>3, <2>4, PhJoined
  <2>6. PhLast(b, m + 1) = Len(b)
    BY <1>8, <1>12, <2>4, <2>5
  <2> QED
    BY <1>13, <2>1, <2>5, <2>6 DEF TearsAt
<1>15. CASE PhAt(t, i) /\ PhLast(t, i) > n
  <2>1. PICK u : Joined(u, s, r) /\ Joined(t, x, u)
    BY <1>1, <1>7, JoinRight
  <2>2. Joined(c, y, u)
    <3>1. PICK v : Joined(v, s, r) /\ Joined(c, y, v)
      BY <1>11, JoinRight
    <3> QED
      BY <2>1, <3>1, JoinedOnce
  <2>3. 1 \in 1..Len(u)
    <3>1. Len(u) = Len(s) + Len(r) /\ r \in Seq(Text)
      BY <2>1, JoinedIs
    <3> QED
      BY <1>8, <3>1
  <2>4. PICK f \in Nat : f = PhLast(u, 1)
    BY DEF PhLast
  <2>5. PhAt(u, 1) /\ k + f > n
    BY <1>6, <1>7, <1>15, <2>1, <2>3, <2>4, PhJoined
  <2>6. PhAt(c, m + 1) /\ PhLast(c, m + 1) = m + f
    BY <1>12, <2>2, <2>3, <2>4, <2>5, PhJoined
  <2>7. m + f > m + l
    BY <1>8, <2>5
  <2> QED
    BY <1>12, <1>13, <2>6, <2>7 DEF TearsAt
<1> QED
  BY <1>4, <1>14, <1>15

\* This is what is said of the answer when a chunk is cut there.
LEMMA TearsIs ==
    ASSUME NEW b, NEW r, Joined(answer, b, r), TearsAt(answer, b, r)
    PROVE  Tears(Len(b))
<1>1. PICK n \in Nat, p \in Nat, q \in Nat :
        n = Len(answer) /\ p = Len(b) /\ q = Len(r) /\ n = p + q
  BY JoinedIs
<1>2. answer \in Seq(Text) /\ b \in Seq(Text) /\ \A i \in 1..p : answer[i] = b[i]
  BY <1>1, JoinedIs
<1>3. \A i \in 1..q : answer[p + i] = r[i]
  BY <1>1, JoinedEnd
<1>4. p \in 1..p /\ b[p] = answer[p]
  <2>1. b # <<>>
    BY DEF TearsAt
  <2>2. p \in 1..p
    BY <1>1, <1>2, <2>1
  <2> QED
    BY <1>2, <2>2
<1>5. CASE /\ b[Len(b)] # "-"
           /\ \E i \in 1..Len(b) : PhAt(answer, i) /\ PhLast(answer, i) > Len(b)
  <2>1. PICK i \in 1..p : PhAt(answer, i) /\ PhLast(answer, i) > p
    BY <1>1, <1>5
  <2>2. i \in 1..Len(answer)
    BY <1>1
  <2>3. PhLast(answer, i) \in (i + 3)..Len(answer)
    BY <1>2, <2>1, <2>2, PhEnds
  <2>4. \E s \in Placeholders(answer) : s.first = i /\ s.last = PhLast(answer, i)
    BY <1>2, <2>1, <2>2, PhIsPlaceholder
  <2>5. \E s \in Placeholders(answer) : s.first <= p /\ p < s.last
    BY <2>1, <2>3, <2>4
  <2>6. p \in 1..(Len(answer) - 1) /\ answer[p] # "-"
    BY <1>1, <1>4, <1>5, <2>1, <2>3
  <2> QED
    BY <1>1, <2>5, <2>6 DEF Tears
<1>6. CASE /\ r # <<>> /\ b[Len(b)] \in Digits /\ r[1] \in Digits
           /\ \E i \in 1..Len(b) : PhAt(b, i) /\ PhLast(b, i) = Len(b)
  <2>1. PICK i \in 1..Len(b) : PhAt(b, i) /\ PhLast(b, i) = Len(b)
    BY <1>6
  <2>2. \E s \in Placeholders(b) : s.first = i /\ s.last = PhLast(b, i)
    BY <1>2, <2>1, PhIsPlaceholder
  <2>3. \E s \in Placeholders(b) : s.last = p
    BY <1>1, <2>1, <2>2
  <2>4. 1 \in 1..q
    <3>1. r \in Seq(Text)
      BY JoinedIs
    <3> QED
      BY <1>1, <1>6, <3>1
  <2>5. b = SubSeq(answer, 1, p)
    <3>1. PICK a : a = SubSeq(answer, 1, p)
      OBVIOUS
    <3>2. a \in Seq(Text) /\ Len(a) = p /\ \A k \in 1..p : a[k] = answer[k]
      BY <1>1, <1>2, <3>1
    <3>3. a = b
      BY <1>1, <1>2, <3>2, SeqEqual
    <3> QED
      BY <3>1, <3>3
  <2>6. answer[p + 1] = r[1]
    BY <1>3, <2>4
  <2>7. p \in 1..(Len(answer) - 1) /\ answer[p] # "-" /\ {answer[p], answer[p + 1]} \subseteq Digits
    <3>1. answer[p] \in Digits
      BY <1>1, <1>4, <1>6
    <3> QED
      BY <1>1, <1>4, <1>6, <2>4, <2>6, <3>1 DEF Digits
  <2>8. \E s \in Placeholders(SubSeq(answer, 1, p)) : s.last = p
    BY <2>3, <2>5
  <2> QED
    BY <1>1, <2>7, <2>8 DEF Tears
<1> QED
  BY <1>5, <1>6 DEF TearsAt

\* What is carried over is put before what follows; what is before it is left alone.
LEMMA CutShown ==
    ASSUME NEW c, NEW b, NEW r, Joined(c, b, r), ~TearsAt(c, b, r),
           NEW w \in Seq(Text), Free(w), TailOf(w, b),
           NEW f, NEW d, Joined(w, f, d), \A i \in 1..Len(f) : ~HoldsPlaceholder(w, i)
    PROVE  \E y : Joined(y, d, r) /\ Joined(Rehydrate(w \o r), f, Rehydrate(y))
<1>1. PICK t : Joined(t, w, r) /\ t = w \o r
  <2>1. r \in Seq(Text) /\ w \o r \in Seq(Text)
    BY JoinedIs, ConcatText
  <2> QED
    BY <2>1 DEF Joined
<1>2. PICK y : Joined(y, d, r) /\ Joined(t, f, y)
  BY <1>1, JoinRight
<1>3. PICK n \in Nat, m \in Nat, k \in Nat : n = Len(w) /\ m = Len(f) /\ k = Len(d) /\ n = m + k
  BY JoinedIs
<1>4. ASSUME NEW i \in 1..m PROVE ~PhAt(t, i)
  <2>1. i \in 1..Len(w) /\ i \in 1..Len(f)
    BY <1>3
  <2>2. ASSUME PhAt(t, i), i + 2 <= Len(w) PROVE FALSE
    BY <1>1, <2>1, <2>2, OpenHeld
  <2>3. ASSUME PhAt(t, i), i + 2 > Len(w) PROVE FALSE
    BY <1>1, <2>1, <2>3, OpenTorn
  <2>4. i + 2 <= Len(w) \/ i + 2 > Len(w)
    BY <1>3
  <2> QED
    BY <2>2, <2>3, <2>4
<1>5. f \in Seq(Text) /\ y \in Seq(Text) /\ t = f \o y
  BY <1>2 DEF Joined
<1>6. Rehydrate(t) = f \o Rehydrate(y)
  <2>1. \A i \in 1..Len(f) : ~PhAt(f \o y, i)
    BY <1>3, <1>4, <1>5
  <2> QED
    BY <1>5, <2>1, CutBare
<1>7. Joined(Rehydrate(t), f, Rehydrate(y))
  BY <1>5, <1>6, RehydrateTyped, ConcatText, Zenon DEF Joined
<1> QED
  BY <1>1, <1>2, <1>7

\* Rehydrating what has come and then, with it, what follows gives the same.
LEMMA RehydrateTwice ==
    ASSUME NEW w \in Seq(Text), NEW r \in Seq(Text), Stable(w, r)
    PROVE  Rehydrate(w \o r) = Rehydrate(Rehydrate(w) \o r)
<1>1. PICK z \in Seq(Text), e \in Seq(Text) : Ends(w, z, e)
  BY Parse
<1>2. Rehydrate(w \o r) = z \o Rehydrate(e \o r)
  BY <1>1 DEF Ends
<1>3. PICK h \in Seq(Text) : h = Rehydrate(w) /\ h = z \o e
  BY <1>1, RehydrateTyped DEF Ends
<1>4. PICK y \in Seq(Text) : y = e \o r
  BY ConcatText, Zenon
<1>5. h \o r = z \o y
  <2>1. (z \o e) \o r = z \o (e \o r)
    BY ConcatAssoc, SMTT(30)
  <2> QED
    BY <1>3, <1>4, <2>1, Zenon
<1>6. Rehydrate(z \o y) = z \o Rehydrate(y)
  BY <1>1 DEF Ends
<1> QED
  BY <1>2, <1>3, <1>4, <1>5, <1>6, Zenon

\* A text that is rehydrated begins as it did, or with an address.
LEMMA FirstUnit ==
    ASSUME NEW y \in Seq(Text), y # <<>>
    PROVE  At(Rehydrate(y), 1) = y[1] \/ At(Rehydrate(y), 1) \in Addresses
<1>1. 1 \in 1..Len(y) /\ Len(y) \in Nat
  OBVIOUS
<1>2. CASE PhAt(y, 1)
  <2>1. PICK k \in 0..Len(y) : k = PhLast(y, 1)
    <3>1. PhLast(y, 1) \in (1 + 3)..Len(y)
      BY <1>1, <1>2, PhEnds
    <3> QED
      BY <3>1
  <2>2. PICK u \in Seq(Text), v \in Seq(Text) : y = u \o v /\ Len(u) = k
    BY CutAt
  <2>3. PICK a \in Addresses : a = Address[PhNumber(y, 1)]
    BY <1>2, PhAddress
  <2>4. Rehydrate(y) = <<a>> \o Rehydrate(v)
    BY <1>2, <2>1, <2>2, <2>3, CutHead
  <2>5. PICK q \in Seq(Text) : q = Rehydrate(v)
    BY RehydrateTyped
  <2>6. PICK o \in Seq(Text) : o = <<a>>
    <3>1. PICK b \in Text : b = a
      BY AddressNoPart
    <3>2. <<b>> \in Seq(Text)
      OBVIOUS
    <3> QED
      BY <3>1, <3>2
  <2>7. At(o \o q, 1) = At(o, 1) /\ At(o, 1) = a
    <3>1. Len(o) = 1 /\ o[1] = a
      BY <2>6
    <3>2. At(o, 1) = a
      BY <3>1 DEF At
    <3>3. 1 \in Nat \ {0} /\ 1 <= Len(o)
      BY <3>1
    <3> QED
      BY <3>2, <3>3, AtConcat
  <2> QED
    BY <2>4, <2>5, <2>6, <2>7
<1>3. CASE ~PhAt(y, 1)
  <2>1. 1 \in 0..Len(y)
    BY <1>1
  <2>2. PICK u, v : Joined(y, u, v) /\ Len(u) = 1
    BY <2>1, JoinedAt
  <2>3. u \in Seq(Text) /\ v \in Seq(Text) /\ At(y, 1) = At(u, 1) /\ u[1] = y[1]
    <3>1. Joined(y, u, v) /\ 1 \in Nat \ {0} /\ 1 <= Len(u) /\ 1 \in 1..Len(u)
      BY <2>2
    <3>2. At(y, 1) = At(u, 1)
      BY <3>1, AtJoined
    <3>3. u \in Seq(Text) /\ v \in Seq(Text) /\ \A i \in 1..Len(u) : y[i] = u[i]
      BY <2>2, JoinedIs
    <3> QED
      BY <3>1, <3>2, <3>3
  <2>4. \A i \in 1..Len(u) : ~PhAt(y, i)
    <3>1. \A i \in 1..Len(u) : i = 1
      BY <2>2
    <3> QED
      BY <1>3, <3>1
  <2>5. Rehydrate(y) = u \o Rehydrate(v)
    <3>1. y = u \o v
      BY <2>2 DEF Joined
    <3> QED
      BY <2>3, <2>4, <3>1, CutBare
  <2>6. Joined(Rehydrate(y), u, Rehydrate(v))
    BY <2>3, <2>5, RehydrateTyped DEF Joined
  <2>7. At(Rehydrate(y), 1) = At(u, 1)
    BY <2>2, <2>6, AtJoined
  <2>8. At(u, 1) = u[1]
    BY <2>2 DEF At
  <2> QED
    BY <2>3, <2>7, <2>8
<1> QED
  BY <1>2, <1>3

\* What is held begins with nothing a body goes on with.
LEMMA HeldHead ==
    ASSUME NEW t \in Seq(Text), NEW i \in 1..Len(t), HoldsPlaceholder(t, i) \/ HoldsSecret(t, i)
    PROVE  t[i] \notin {"b", "v1-"}
<1>1. CASE HoldsPlaceholder(t, i)
  <2>1. SubSeq(t, i, i + 2) = <<"[ipaddres", "s", "-">> /\ i + 2 <= Len(t)
    BY <1>1 DEF HoldsPlaceholder
  <2>2. SubSeq(t, i, i + 2) = <<t[i], t[i + 1], t[i + 2]>>
    BY <2>1, SubSeqShort
  <2>3. t[i] = "[ipaddres"
    BY <2>1, <2>2
  <2> QED
    BY <2>3
<1>2. CASE HoldsSecret(t, i)
  <2>1. i \in i..Len(t)
    OBVIOUS
  <2>2. t[i] \in {"sk-or-", "s", "-"} \/ t[i] \in Digits \cup Addresses
    BY <1>2, <2>1 DEF HoldsSecret
  <2> QED
    BY <2>2 DEF Digits, Addresses
<1> QED
  BY <1>1, <1>2

\* No secret goes on from what is relayed to what is held and follows.
LEMMA HeldParted ==
    ASSUME mode = "mask", NEW w, NEW f, NEW d, Joined(w, f, d), Len(f) = Held(w) - 1,
           NEW y, NEW r, Joined(y, d, r)
    PROVE  Parted(f, Rehydrate(y))
<1>1. PICK n \in Nat, m \in Nat, k \in Nat : n = Len(w) /\ m = Len(f) /\ k = Len(d) /\ n = m + k
  BY JoinedIs
<1>2. w \in Seq(Text) /\ f \in Seq(Text) /\ d \in Seq(Text) /\ y \in Seq(Text)
  BY JoinedIs
<1>3. Held(w) = m + 1
  <2>1. Held(w) \in 1..(Len(w) + 1)
    BY <1>2, HeldIs
  <2> QED
    BY <1>1, <2>1
<1>4. CASE k = 0
  <2>1. \A i \in 1..n : ~HoldsSecret(w, i)
    <3>1. Held(w) = Len(w) + 1
      BY <1>1, <1>3, <1>4
    <3> QED
      BY <1>1, <1>2, <3>1, HeldIs
  <2>2. f = w
    <3>1. d = <<>>
      BY <1>1, <1>2, <1>4, EmptySeq
    <3>2. w = f \o d /\ f \o <<>> = f
      BY <1>2 DEF Joined
    <3> QED
      BY <3>1, <3>2
  <2>3. ASSUME w # <<>>, w[Len(w)] = "sk-or-" PROVE FALSE
    <3>1. n # 0
      BY <1>1, <1>2, <2>3, EmptySeq
    <3>2. n \in 1..n
      BY <3>1
    <3> QED
      BY <1>1, <2>1, <2>3, <3>2 DEF HoldsSecret
  <2>4. ASSUME NEW i \in 1..n, Marked(w, i), \A j \in (i + 2)..n : w[j] = "b" PROVE FALSE
    <3>1. i < Len(w) /\ w[i] = "sk-or-" /\ w[i + 1] = "v1-"
      BY <1>1, <2>4 DEF Marked
    <3> QED
      BY <1>1, <2>1, <2>4, <3>1 DEF HoldsSecret
  <2> QED
    BY <1>1, <2>2, <2>3, <2>4 DEF Parted
<1>5. CASE k # 0
  <2>1. m + 1 \in 1..n /\ 1 \in 1..k
    BY <1>1, <1>5
  <2>2. w[m + 1] \notin {"b", "v1-"}
    <3>1. HoldsPlaceholder(w, m + 1) \/ HoldsSecret(w, m + 1)
      <4>1. Held(w) <= Len(w)
        BY <1>1, <1>3, <2>1
      <4>2. HoldsPlaceholder(w, Held(w)) \/ HoldsSecret(w, Held(w))
        BY <1>2, <4>1, HeldIs
      <4> QED
        BY <1>3, <4>2
    <3> QED
      BY <1>1, <1>2, <2>1, <3>1, HeldHead
  <2>3. w[m + 1] = d[1]
    <3>1. d \in Seq(Text) /\ \A i \in 1..Len(d) : w[Len(f) + i] = d[i]
      BY JoinedEnd
    <3> QED
      BY <1>1, <2>1, <3>1
  <2>4. y # <<>> /\ y[1] = d[1]
    <3>1. /\ Len(y) = Len(d) + Len(r) /\ r \in Seq(Text)
          /\ \A i \in 1..Len(d) : y[i] = d[i]
      BY JoinedIs
    <3> QED
      BY <1>1, <1>2, <2>1, <3>1
  <2>5. At(Rehydrate(y), 1) \notin {"b", "v1-"}
    <3>1. At(Rehydrate(y), 1) = y[1] \/ At(Rehydrate(y), 1) \in Addresses
      BY <1>2, <2>4, FirstUnit
    <3>2. y[1] \notin {"b", "v1-"}
      BY <2>2, <2>3, <2>4
    <3> QED
      BY <3>1, <3>2 DEF Addresses
  <2> QED
    BY <2>5 DEF Parted
<1> QED
  BY <1>4, <1>5

-----------------------------------------------------------------------------
(* One chunk                                                              *)

\* What the client is meant to read of a text whose addresses are back.
Shown(t) == IF mode = "mask" THEN Mask(t) ELSE t

\* A text that mentions no placeholder has none.
LEMMA NoMention ==
    ASSUME NEW t \in Seq(Text), ~MentionsPlaceholder(t)
    PROVE  Free(t) /\ \A i \in 1..Len(t) : ~HoldsPlaceholder(t, i)
<1>1. ASSUME NEW i \in 1..Len(t), PhAt(t, i) PROVE FALSE
  <2>1. At(t, i) = "[ipaddres" /\ At(t, i + 1) = "s" /\ At(t, i + 1) # "end"
    BY <1>1 DEF PhAt
  <2>2. i + 1 \in 1..Len(t) /\ At(t, i) = t[i] /\ At(t, i + 1) = t[i + 1]
    BY <2>1 DEF At
  <2> QED
    BY <2>1, <2>2 DEF MentionsPlaceholder
<1>2. ASSUME NEW i \in 1..Len(t), HoldsPlaceholder(t, i) PROVE FALSE
  <2>1. i + 2 <= Len(t) /\ SubSeq(t, i, i + 2) = <<"[ipaddres", "s", "-">>
    BY <1>2 DEF HoldsPlaceholder
  <2>2. SubSeq(t, i, i + 2) = <<t[i], t[i + 1], t[i + 2]>>
    BY <2>1, SubSeqShort
  <2>3. t[i] = "[ipaddres" /\ t[i + 1] = "s" /\ i \in 1..(Len(t) - 1)
    BY <2>1, <2>2
  <2> QED
    BY <2>3 DEF MentionsPlaceholder
<1> QED
  BY <1>1, <1>2 DEF Free

\* A chunk is put after what was carried, rehydrated with it and cut.
LEMMA RelayedIs ==
    ASSUME mode \in {"mask", "off"}, NEW w, NEW chunk, Joined(w, carry, chunk)
    PROVE  \E f, d : /\ Joined(Rehydrate(w), f, d)
                     /\ \A i \in 1..Len(f) : ~HoldsPlaceholder(Rehydrate(w), i)
                     /\ mode = "mask" => Len(f) = Held(Rehydrate(w)) - 1
                     /\ Relayed(chunk).flush = Shown(f) /\ Relayed(chunk).carry = d
<1>1. w \in Seq(Text) /\ carry \in Seq(Text) /\ chunk \in Seq(Text) /\ w = carry \o chunk
  BY DEF Joined
<1>2. PICK whole \in Seq(Text) : whole = Rehydrate(w)
  BY <1>1, RehydrateTyped
<1>3. CASE mode # "mask" /\ ~MentionsPlaceholder(chunk) /\ carry = <<>>
  <2>1. w = chunk
    BY <1>1, <1>3
  <2>2. Free(w) /\ \A i \in 1..Len(w) : ~HoldsPlaceholder(w, i)
    BY <1>1, <1>3, <2>1, NoMention
  <2>3. whole = w
    BY <1>1, <1>2, <2>2, FreeSame
  <2>4. Relayed(chunk) = [flush |-> chunk, carry |-> <<>>]
    BY <1>3 DEF Relayed
  <2>5. Joined(w, w, <<>>)
    BY <1>1, JoinedNothing
  <2>6. Relayed(chunk).flush = Shown(w) /\ Relayed(chunk).carry = <<>>
    BY <1>3, <2>1, <2>4 DEF Shown
  <2> QED
    BY <1>2, <1>3, <2>2, <2>3, <2>5, <2>6
<1>4. CASE ~(mode # "mask" /\ ~MentionsPlaceholder(chunk) /\ carry = <<>>)
  <2>1. whole = IF MentionsPlaceholder(w) THEN Rehydrate(w) ELSE w
    BY <1>1, <1>2, NoMention, FreeSame
  <2>2. PICK f : f = SubSeq(whole, 1, Held(whole) - 1)
    OBVIOUS
  <2>3. PICK d : d = SubSeq(whole, Held(whole), Len(whole))
    OBVIOUS
  <2>4. Relayed(chunk) = [flush |-> IF mode = "off" THEN f ELSE Mask(f), carry |-> d]
    BY <1>1, <1>4, <2>1, <2>2, <2>3 DEF Relayed
  <2>5. PICK h \in 1..(Len(whole) + 1) : h = Held(whole)
    BY <1>2, HeldIs
  <2>6. f \in Seq(Text) /\ Len(f) = h - 1 /\ \A i \in 1..(h - 1) : f[i] = whole[i]
    BY <2>2, <2>5
  <2>7. /\ d \in Seq(Text) /\ Len(d) = (Len(whole) - h) + 1
        /\ \A i \in 1..Len(d) : d[i] = whole[(h - 1) + i]
    BY <2>3, <2>5
  <2>8. Joined(whole, f, d)
    <3>1. Len(whole) = Len(f) + Len(d)
      <4>1. PICK n \in Nat : n = Len(whole)
        OBVIOUS
      <4>2. Len(f) = h - 1 /\ Len(d) = (n - h) + 1 /\ h \in Nat
        BY <2>5, <2>6, <2>7, <4>1
      <4> QED
        BY <4>1, <4>2
    <3>2. \A i \in 1..Len(f) : whole[i] = f[i]
      BY <2>6
    <3>3. \A i \in 1..Len(d) : whole[Len(f) + i] = d[i]
      BY <2>6, <2>7
    <3>4. whole = f \o d
      BY <2>6, <2>7, <3>1, <3>2, <3>3, ConcatEqual
    <3> QED
      BY <2>6, <2>7, <3>4 DEF Joined
  <2>9. \A i \in 1..Len(f) : ~HoldsPlaceholder(whole, i)
    <3>1. \A i \in 1..Len(whole) : i < Held(whole) => ~HoldsPlaceholder(whole, i)
      BY <1>2, HeldIs
    <3> QED
      BY <2>5, <2>6, <3>1
  <2>10. Relayed(chunk).flush = Shown(f) /\ Relayed(chunk).carry = d
    BY <2>4 DEF Shown
  <2> QED
    BY <1>2, <2>5, <2>6, <2>8, <2>9, <2>10
<1> QED
  BY <1>3, <1>4

\* What the client is shown of the answer is what is relayed of the chunk and then
\* what is shown of what is carried over and the rest of the answer.
LEMMA ChunkShown ==
    ASSUME mode \in {"mask", "off"}, Free(carry), NEW a, TailOf(carry, a),
           NEW b, NEW chunk, Joined(b, a, chunk),
           NEW r, Joined(answer, b, r), ~TearsAt(answer, b, r),
           NEW w, Joined(w, carry, chunk), NEW q, Joined(q, w, r)
    PROVE  \E y : /\ Joined(y, Relayed(chunk).carry, r)
                  /\ Shown(Rehydrate(q)) = Relayed(chunk).flush \o Shown(Rehydrate(y))
                  /\ Free(Relayed(chunk).carry) /\ TailOf(Relayed(chunk).carry, b)
<1>1. PICK f, d : /\ Joined(Rehydrate(w), f, d)
                  /\ \A i \in 1..Len(f) : ~HoldsPlaceholder(Rehydrate(w), i)
                  /\ mode = "mask" => Len(f) = Held(Rehydrate(w)) - 1
                  /\ Relayed(chunk).flush = Shown(f) /\ Relayed(chunk).carry = d
  BY RelayedIs
<1>2. w \in Seq(Text) /\ r \in Seq(Text)
  BY JoinedIs
<1>3. PICK h \in Seq(Text) : h = Rehydrate(w)
  BY <1>2, RehydrateTyped
<1>4. Joined(h, f, d) /\ Free(h)
  BY <1>1, <1>2, <1>3, FreeRehydrated
<1>5. TailOf(w, b)
  BY TailOn
<1>6. TailOf(h, b)
  BY <1>2, <1>3, <1>5, TailRehydrated, TailTrans
<1>7. Rehydrate(q) = Rehydrate(h \o r)
  <2>1. Stable(w, r)
    BY <1>2, <1>5, TornStable
  <2>2. Rehydrate(w \o r) = Rehydrate(Rehydrate(w) \o r)
    BY <1>2, <2>1, RehydrateTwice
  <2> QED
    BY <1>3, <2>2 DEF Joined
<1>8. PICK y : Joined(y, d, r) /\ Joined(Rehydrate(h \o r), f, Rehydrate(y))
  <2>1. \A i \in 1..Len(f) : ~HoldsPlaceholder(h, i)
    BY <1>1, <1>3
  <2> QED
    BY <1>3, <1>4, <1>6, <2>1, CutShown
<1>9. f \in Seq(Text) /\ Rehydrate(y) \in Seq(Text) /\ Rehydrate(q) = f \o Rehydrate(y)
  BY <1>7, <1>8 DEF Joined
<1>10. Shown(Rehydrate(q)) = Shown(f) \o Shown(Rehydrate(y))
  <2>1. CASE mode = "mask"
    <3>1. Parted(f, Rehydrate(y))
      <4>1. Len(f) = Held(h) - 1
        BY <1>1, <1>3, <2>1
      <4> QED
        BY <1>4, <1>8, <2>1, <4>1, HeldParted
    <3>2. PICK v \in Seq(Text) : v = Rehydrate(y)
      BY <1>9
    <3>3. Mask(f \o v) = Mask(f) \o Mask(v)
      BY <1>9, <3>1, <3>2, MaskCut
    <3> QED
      BY <1>9, <2>1, <3>2, <3>3, Zenon DEF Shown
  <2>2. CASE mode # "mask"
    BY <1>9, <2>2, Zenon DEF Shown
  <2> QED
    BY <2>1, <2>2
<1>11. Free(d)
  <2>1. ASSUME NEW i \in 1..Len(d), PhAt(d, i) PROVE FALSE
    <3>1. PhAt(h, Len(f) + i)
      BY <1>4, <2>1, PhJoined
    <3>2. Len(f) + i \in 1..Len(h)
      <4>1. f \in Seq(Text) /\ d \in Seq(Text) /\ Len(h) = Len(f) + Len(d)
        BY <1>4, JoinedIs
      <4> QED
        BY <4>1
    <3> QED
      BY <1>4, <3>1, <3>2 DEF Free
  <2> QED
    BY <2>1 DEF Free
<1>12. TailOf(d, b)
  BY <1>4, <1>6, TailCut
<1> QED
  BY <1>1, <1>8, <1>10, <1>11, <1>12

-----------------------------------------------------------------------------
(* The whole answer                                                       *)

\* What the client reads of a text that is relayed whole.
Reads(m, t) == IF m = "mask" THEN Mask(Rehydrate(t)) ELSE Rehydrate(t)

\* The answer t is what it should be so far: of its first p units o has been shown
\* and c is carried over, and what the client should read is what it has, and then
\* what it would read of the carry with the rest of the answer.
Going(m, t, p, c, o) ==
    \E a, r, y : /\ Joined(t, a, r) /\ Len(a) = p /\ Joined(y, c, r)
                 /\ Reads(m, t) = o \o Reads(m, y)
                 /\ Free(c) /\ TailOf(c, a)

\* The carry and the rest of the answer give what the client has not read yet.
RelayedSoFar == ~torn /\ phase = "stream" => Going(mode, answer, pos, carry, out)

LEMMA ReadsTyped == ASSUME NEW m, NEW t \in Seq(Text) PROVE Reads(m, t) \in Seq(Masked)
<1>1. PICK u \in Seq(Text) : u = Rehydrate(t)
  BY RehydrateTyped
<1>2. u \in Seq(Masked) /\ Mask(u) \in Seq(Masked)
  BY MaskTyped DEF Masked
<1> QED
  BY <1>1, <1>2 DEF Reads

LEMMA MaskedAssoc ==
    ASSUME NEW a \in Seq(Masked), NEW b \in Seq(Masked), NEW c \in Seq(Masked)
    PROVE  a \o (b \o c) = (a \o b) \o c
OBVIOUS

LEMMA Prefix ==
    ASSUME NEW a \in Seq(Masked), NEW b \in Seq(Masked), NEW c, c = a \o b
    PROVE  IsPrefix(a, c)
<1>1. /\ c \in Seq(Masked) /\ Len(c) = Len(a) + Len(b)
      /\ \A i \in 1..Len(a) : c[i] = a[i]
  BY ConcatIs
<1>2. PICK n \in Nat, m \in Nat : n = Len(a) /\ m = Len(b)
  OBVIOUS
<1>3. PICK u : u = SubSeq(a, 1, n)
  OBVIOUS
<1>4. PICK v : v = SubSeq(c, 1, n)
  OBVIOUS
<1>5. u \in Seq(Masked) /\ Len(u) = n /\ \A i \in 1..n : u[i] = a[i]
  BY <1>2, <1>3
<1>6. v \in Seq(Masked) /\ Len(v) = n /\ \A i \in 1..n : v[i] = c[i]
  BY <1>1, <1>2, <1>4
<1>7. u = v
  BY <1>1, <1>2, <1>5, <1>6, SeqEqual
<1> QED
  BY <1>1, <1>2, <1>3, <1>4, <1>7 DEF IsPrefix

\* An answer begins as it should.
LEMMA GoingFirst ==
    ASSUME NEW m, NEW t \in Seq(Text)
    PROVE  Going(m, t, 0, <<>>, <<>>)
<1>1. Joined(t, <<>>, t) /\ Len(<<>>) = 0
  BY JoinedNothing
<1>2. Reads(m, t) = <<>> \o Reads(m, t)
  BY ReadsTyped
<1>3. Free(<<>>)
  BY DEF Free
<1>4. TailOf(<<>>, <<>>)
  <2>1. <<>> \in Seq(Text)
    OBVIOUS
  <2> QED
    BY <2>1, TailEmpty
<1> QED
  BY <1>1, <1>2, <1>3, <1>4, Zenon DEF Going

\* While it goes on, the client has a beginning.
LEMMA GoingPrefix ==
    ASSUME NEW m, NEW t, NEW p, NEW c, NEW o \in Seq(Masked), Going(m, t, p, c, o)
    PROVE  IsPrefix(o, Reads(m, t))
<1>1. PICK a, r, y : Joined(t, a, r) /\ Joined(y, c, r) /\ Reads(m, t) = o \o Reads(m, y)
  BY DEF Going
<1>2. y \in Seq(Text)
  BY <1>1, JoinedIs
<1>3. PICK v \in Seq(Masked) : v = Reads(m, y)
  BY <1>2, ReadsTyped
<1> QED
  BY <1>1, <1>3, Prefix

\* When all of it has come, the carry is what is missing.
LEMMA GoingLast ==
    ASSUME Going(mode, answer, pos, carry, out), pos = Len(answer)
    PROVE  Expected = out \o Shown(carry)
<1>1. PICK a, r, y : /\ Joined(answer, a, r) /\ Len(a) = pos /\ Joined(y, carry, r)
                     /\ Reads(mode, answer) = out \o Reads(mode, y) /\ Free(carry)
  BY DEF Going
<1>2. r = <<>>
  <2>1. /\ a \in Seq(Text) /\ r \in Seq(Text) /\ Len(answer) = Len(a) + Len(r)
    BY <1>1, JoinedIs
  <2>2. Len(r) = 0
    BY <1>1, <2>1
  <2> QED
    BY <2>1, <2>2, EmptySeq
<1>3. y = carry /\ carry \in Seq(Text)
  <2>1. carry \in Seq(Text) /\ y = carry \o r
    BY <1>1 DEF Joined
  <2> QED
    BY <1>2, <2>1
<1>4. Rehydrate(y) = carry
  BY <1>1, <1>3, FreeSame
<1>5. Reads(mode, y) = Shown(carry)
  BY <1>4 DEF Reads, Shown
<1>6. Expected = Reads(mode, answer)
  BY DEF Expected, Reads
<1> QED
  BY <1>1, <1>5, <1>6

\* A chunk that is not cut where Tears says passes that on.
LEMMA GoingOn ==
    ASSUME mode \in {"mask", "off"}, out \in Seq(Masked), Going(mode, answer, pos, carry, out),
           NEW p \in (pos + 1)..Len(answer), ~Tears(p), pos \in Nat,
           NEW chunk, chunk = SubSeq(answer, pos + 1, p)
    PROVE  Going(mode, answer, p, Relayed(chunk).carry, out \o Relayed(chunk).flush)
<1>1. PICK a, r, y : /\ Joined(answer, a, r) /\ Len(a) = pos /\ Joined(y, carry, r)
                     /\ Reads(mode, answer) = out \o Reads(mode, y)
                     /\ Free(carry) /\ TailOf(carry, a)
  BY DEF Going
<1>2. PICK n \in Nat : n = Len(answer) /\ answer \in Seq(Text)
  BY <1>1, JoinedIs
<1>3. r \in Seq(Text) /\ n = pos + Len(r)
  BY <1>1, <1>2, JoinedIs
<1>4. PICK k \in 0..Len(r) : k = p - pos
  BY <1>2, <1>3
<1>5. PICK x, s : Joined(r, x, s) /\ Len(x) = k
  BY <1>3, JoinedAt
<1>6. x = chunk
  <2>1. x \in Seq(Text) /\ \A i \in 1..Len(x) : r[i] = x[i]
    BY <1>5, JoinedIs
  <2>2. \A i \in 1..Len(r) : answer[Len(a) + i] = r[i]
    <3>1. Joined(answer, a, r)
      BY <1>1
    <3>2. r \in Seq(Text) /\ \A i \in 1..Len(r) : answer[Len(a) + i] = r[i]
      BY <3>1, JoinedEnd
    <3> QED
      BY <3>2
  <2>3. chunk \in Seq(Text) /\ Len(chunk) = k /\ \A i \in 1..k : chunk[i] = answer[pos + i]
    BY <1>2, <1>4
  <2>4. ASSUME NEW i \in 1..k PROVE chunk[i] = x[i]
    <3>1. i \in 1..Len(r) /\ i \in 1..Len(x)
      BY <1>3, <1>5
    <3>2. r[i] = x[i] /\ answer[pos + i] = r[i]
      BY <1>1, <2>1, <2>2, <3>1
    <3> QED
      BY <2>3, <3>2
  <2> QED
    BY <1>5, <2>1, <2>3, <2>4, SeqEqual
<1>7. PICK b : Joined(b, a, x) /\ Joined(answer, b, s)
  BY <1>1, <1>5, JoinLeft
<1>8. Len(b) = p /\ Joined(b, a, chunk)
  <2>1. Joined(b, a, x)
    BY <1>7
  <2>2. Len(b) = Len(a) + Len(x)
    BY <2>1, JoinedIs
  <2> QED
    BY <1>1, <1>4, <1>5, <1>6, <2>1, <2>2
<1>9. ~TearsAt(answer, b, s)
  BY <1>7, <1>8, TearsIs
<1>10. PICK w : Joined(w, carry, chunk) /\ Joined(y, w, s)
  BY <1>1, <1>5, <1>6, JoinLeft
<1>11. PICK z : /\ Joined(z, Relayed(chunk).carry, s)
                /\ Shown(Rehydrate(y)) = Relayed(chunk).flush \o Shown(Rehydrate(z))
                /\ Free(Relayed(chunk).carry) /\ TailOf(Relayed(chunk).carry, b)
  <2>1. Free(carry) /\ TailOf(carry, a)
    BY <1>1
  <2>2. Joined(b, a, chunk) /\ Joined(answer, b, s) /\ ~TearsAt(answer, b, s)
    BY <1>7, <1>8, <1>9
  <2>3. Joined(w, carry, chunk) /\ Joined(y, w, s)
    BY <1>10
  <2> QED
    BY <2>1, <2>2, <2>3, ChunkShown
<1>12. Relayed(chunk).flush \in Seq(Masked)
  BY <1>10, RelayedTyped DEF Joined
<1>13. PICK f \in Seq(Masked) : f = Relayed(chunk).flush
  BY <1>12
<1>14. PICK v \in Seq(Masked) : v = Reads(mode, z)
  <2>1. z \in Seq(Text)
    BY <1>11, JoinedIs
  <2> QED
    BY <2>1, ReadsTyped
<1>15. Reads(mode, y) = f \o v
  BY <1>11, <1>13, <1>14 DEF Reads, Shown
<1>16. Reads(mode, answer) = (out \o f) \o v
  <2>1. out \o (f \o v) = (out \o f) \o v
    BY MaskedAssoc
  <2>2. Reads(mode, answer) = out \o Reads(mode, y)
    BY <1>1
  <2> QED
    BY <1>15, <2>1, <2>2, Zenon
<1> QED
  BY <1>7, <1>8, <1>11, <1>13, <1>14, <1>16 DEF Going

\* What is relayed is what should be, so far and at the end.
LEMMA RelayInit == ASSUME Init PROVE RelayedSoFar /\ RelayedWhole
<1>1. answer \in Seq(Text) /\ pos = 0 /\ carry = <<>> /\ out = <<>> /\ phase = "stream"
  BY StreamRelayAssumption DEF Init, Text
<1>2. Going(mode, answer, pos, carry, out)
  BY <1>1, GoingFirst
<1>3. out \in Seq(Masked)
  BY <1>1
<1>4. IsPrefix(out, Reads(mode, answer))
  BY <1>2, <1>3, GoingPrefix
<1>5. Expected = Reads(mode, answer)
  BY DEF Expected, Reads
<1> QED
  BY <1>1, <1>2, <1>4, <1>5 DEF RelayedSoFar, RelayedWhole

\* Every step keeps it: a chunk that is not torn, [DONE], which flushes the carry, and
\* a recovery, before which nothing was relayed.
LEMMA RelayNext ==
    ASSUME IInv, TypeOK, TypeOK', RelayedSoFar, RelayedWhole, [Next]_vars
    PROVE  RelayedSoFar' /\ RelayedWhole'
<1>1. /\ mode \in {"mask", "off"} /\ out \in Seq(Masked) /\ out' \in Seq(Masked)
      /\ pos \in Nat /\ answer \in Seq(Text) /\ mode' = mode
      /\ Answers \subseteq Seq(Text)
  <2>1. mode' = mode
    BY DEF Next, Progress, vars, Chunk, ToolCall, Usage, Comment, Done, Eof, Breaks, Restream,
           RestreamFails, ClientGone
  <2> QED
    BY <2>1, StreamRelayAssumption DEF TypeOK, Masked, Text
<1>2. Expected = Reads(mode, answer) /\ Expected' = Reads(mode, answer')
  BY <1>1 DEF Expected, Reads
<1>3. ~torn /\ phase = "stream" => Going(mode, answer, pos, carry, out)
  BY DEF RelayedSoFar
<1>4. ASSUME ~torn' /\ phase' = "stream" => Going(mode, answer', pos', carry', out'),
             ~torn' /\ phase' # "stream" => IsPrefix(out', Expected'),
             ~torn' /\ phase' = "done" => out' = Expected'
      PROVE  RelayedSoFar' /\ RelayedWhole'
  <2>1. RelayedSoFar'
    BY <1>1, <1>4 DEF RelayedSoFar
  <2>2. ~torn' /\ phase' = "stream" => IsPrefix(out', Expected')
    BY <1>1, <1>2, <1>4, GoingPrefix
  <2> QED
    BY <1>4, <2>1, <2>2 DEF RelayedWhole
<1>5. ASSUME UNCHANGED <<answer, pos, carry, out, torn>>,
             phase' = phase \/ phase' \in Ended \ {"done"}
      PROVE  RelayedSoFar' /\ RelayedWhole'
  <2>1. Expected' = Expected
    BY <1>2, <1>5
  <2>2. "stream" \notin Ended
    BY DEF Ended
  <2> QED
    BY <1>1, <1>3, <1>4, <1>5, <2>1, <2>2 DEF RelayedWhole
<1>6. CASE Chunk
  <2>1. PICK p, chunk :
          /\ p \in (pos + 1)..Len(answer) /\ chunk = SubSeq(answer, pos + 1, p)
          /\ pos' = p /\ out' = out \o Relayed(chunk).flush
          /\ carry' = Relayed(chunk).carry /\ torn' = (torn \/ Tears(p))
    BY <1>6 DEF Chunk
  <2>2. phase = "stream" /\ phase' = "stream" /\ answer' = answer
    BY <1>6 DEF Chunk
  <2>3. ASSUME ~torn' PROVE Going(mode, answer', pos', carry', out')
    <3>1. ~Tears(p) /\ Going(mode, answer, pos, carry, out)
      BY <1>3, <2>1, <2>2, <2>3
    <3>2. Going(mode, answer, p, Relayed(chunk).carry, out \o Relayed(chunk).flush)
      BY <1>1, <2>1, <3>1, GoingOn
    <3> QED
      BY <2>1, <2>2, <3>2
  <2> QED
    BY <1>4, <2>2, <2>3
<1>7. CASE Done
  <2>1. /\ phase = "stream" /\ phase' = "done" /\ pos = Len(answer) /\ answer' = answer
        /\ torn' = torn /\ out' = out \o Shown(carry)
    BY <1>7 DEF Done, Shown
  <2>2. ~torn => out' = Expected
    BY <1>3, <2>1, GoingLast
  <2>3. Expected' = Expected
    BY <1>2, <2>1
  <2>4. ASSUME ~torn' PROVE IsPrefix(out', Expected')
    <3>1. <<>> \in Seq(Masked)
      OBVIOUS
    <3>2. PICK e \in Seq(Masked) : e = <<>>
      BY <3>1
    <3>3. out' = out' \o e
      BY <1>1, <3>2
    <3>4. IsPrefix(out', out')
      BY <1>1, <3>3, Prefix
    <3> QED
      BY <2>1, <2>2, <2>3, <2>4, <3>4
  <2> QED
    BY <1>4, <2>1, <2>2, <2>3, <2>4
<1>8. CASE \/ ToolCall \/ Usage \/ Comment \/ Eof \/ Breaks \/ RestreamFails \/ ClientGone
           \/ UNCHANGED vars
  BY <1>5, <1>8 DEF ToolCall, Usage, Comment, Eof, Breaks, RestreamFails, ClientGone, ErrorEvent,
                    vars, content, Ended
<1>9. CASE Restream
  <2>1. /\ phase = "stream" /\ phase' = "stream" /\ lines = {} /\ out' = out
        /\ answer' \in Answers /\ pos' = 0 /\ carry' = <<>>
    BY <1>9 DEF Restream, Recoverable
  <2>2. out = <<>>
    BY <2>1 DEF IInv, NothingYet, OneTierAnswers
  <2>3. Going(mode, answer', 0, <<>>, <<>>)
    BY <1>1, <2>1, GoingFirst
  <2> QED
    BY <1>4, <2>1, <2>2, <2>3
<1> QED
  BY <1>6, <1>7, <1>8, <1>9 DEF Next, Progress

\* However an answer is cut into chunks, the client has a beginning of what it would
\* read of it relayed whole, and with [DONE] all of it, unless a chunk ended in a
\* placeholder or in what looks like one.
THEOREM AnswersAreWhole == Spec => []RelayedWhole
<1>1. Init => IInv /\ TypeOK /\ RelayedSoFar /\ RelayedWhole
  BY InitHolds, TypesInit, RelayInit
<1>2. IInv /\ TypeOK /\ RelayedSoFar /\ RelayedWhole /\ [Next]_vars
        => (IInv /\ TypeOK /\ RelayedSoFar /\ RelayedWhole)'
  <2>1. ASSUME IInv, TypeOK, RelayedSoFar, RelayedWhole, [Next]_vars
        PROVE  IInv' /\ TypeOK' /\ RelayedSoFar' /\ RelayedWhole'
    <3>1. IInv' /\ TypeOK'
      BY <2>1, NextKeeps, TypesNext DEF IInv
    <3> QED
      BY <2>1, <3>1, RelayNext
  <2> QED
    BY <2>1
<1> QED
  BY <1>1, <1>2, PTL DEF Spec
=============================================================================
