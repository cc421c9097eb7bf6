---------------------------- MODULE StreamRelay ----------------------------
(***************************************************************************)
(* The relay of one streamed answer (_handle_stream's stream_generator in  *)
(* app/api/chat.py, with app/guardrails/streaming.py): server-sent lines   *)
(* come from upstream in chunks cut anywhere, addresses are put back,      *)
(* secrets masked, and a tail that may still grow into either is carried   *)
(* over to the next chunk.  A stall before the first line moves the        *)
(* request to the next tier.                                               *)
(*                                                                         *)
(* An answer is a sequence of units.  Of a secret: "sk-or-" and "v1-", the *)
(* marker, and "b", a few characters of its body.  Of a placeholder:       *)
(* "[ipaddres", "s", "-", digits and "]".  "x" is any other text.  One     *)
(* marker stands for the list; tails that look like a Telegram token after *)
(* its digits, and secrets interleaved with white space, are left out, and *)
(* so are several choices in one answer (the carry is common to them).     *)
(***************************************************************************)
EXTENDS Integers, Sequences, SequencesExt

CONSTANTS
    Answers,      \* what an upstream may answer
    Known,        \* the numbers that have a row in the redaction table
    MinBody,      \* how many "b" make a secret complete
    Modes,        \* "mask": the guardrail engine masks; "off": the app has none
    Tiers,        \* how many tiers the retry budget and the ceiling allow
    MaxComments   \* comment lines an upstream may send

Digits == {"0", "1", "2"}
Addresses == {"addr0", "addr1", "addr12"}
Units == {"x", "sk-or-", "v1-", "b", "[ipaddres", "s", "-", "]"} \cup Digits

ASSUME StreamRelayAssumption ==
    /\ Answers \subseteq Seq(Units)
    /\ Known \subseteq {0, 1, 12}
    /\ MinBody \in Nat \ {0} /\ Tiers \in Nat \ {0} /\ MaxComments \in Nat
    /\ Modes \subseteq {"mask", "off"}

\* Every other unit would extend a body: bodies end at "x" here.
ASSUME BodiesEndAssumption ==
    \A t \in Answers : \A i \in 1..(Len(t) - 1) :
        t[i] \in {"v1-", "b"} => t[i + 1] \in {"b", "x"}

\* A number is not padded beyond the two digits the router writes: int() would take
\* "012" for row 12, Number below would not.
ASSUME PaddingAssumption ==
    \A t \in Answers : \A i \in 1..(Len(t) - 3) :
        t[i] = "-" /\ t[i + 1] = "0" /\ t[i + 2] \in Digits => t[i + 3] \notin Digits

VARIABLES
    mode,       \* whether the guardrail engine masks (output_enabled, output_action)
    phase,      \* where the generator is
    tier,       \* route, and the upstream it streams from
    open,       \* tiers whose upstream response is open
    answer,     \* what the upstream answers
    pos,        \* how many of its units have arrived
    carry,      \* carry
    out,        \* the content delivered so far
    tools,      \* _stream_had_tool_calls
    usage,      \* the tier whose _stream_usage was seen, or 0
    metadata,   \* the tier of the metadata event, or 0
    lines,      \* tiers of which a line was forwarded (_emitted_to_client)
    closing,    \* what followed the content
    comments,   \* comment lines of the upstreams
    torn        \* history: a chunk ended where Tears says

content == <<answer, pos, carry, out, torn>>
signals == <<tools, usage>>
sent == <<metadata, lines, closing>>
vars == <<mode, phase, tier, open, content, signals, sent, comments>>

Ended == {"done", "eof", "error", "gone"}

Init ==
    /\ mode \in Modes /\ phase = "stream" /\ tier = 1 /\ open = {1}
    /\ answer \in Answers /\ pos = 0 /\ carry = <<>> /\ out = <<>> /\ torn = FALSE
    /\ tools = FALSE /\ usage = 0
    /\ metadata = 0 /\ lines = {} /\ closing = <<>>
    /\ comments = 0

-----------------------------------------------------------------------------
(* The text of a chunk                                                     *)

\* The longest run of units of S that starts at i.
RunEnd(t, i, S) ==
    CHOOSE j \in (i - 1)..Len(t) :
        /\ \A k \in i..j : t[k] \in S
        /\ j < Len(t) => t[j + 1] \notin S

\* The text with each span [first, last] of Spans replaced by its "by".
Replace(t, Spans) ==
    LET piece(i) == IF \E s \in Spans : i \in (s.first + 1)..s.last THEN <<>>
                    ELSE IF \E s \in Spans : s.first = i
                    THEN <<(CHOOSE s \in Spans : s.first = i).by>>
                    ELSE <<t[i]>>
        pieces == [i \in 1..Len(t) |-> piece(i)]
    IN  IF Spans = {} THEN t ELSE FlattenSeq(pieces)

MentionsPlaceholder(t) ==
    \E i \in 1..(Len(t) - 1) : t[i] = "[ipaddres" /\ t[i + 1] = "s"

StartsNumber(t, i) ==
    /\ i + 3 <= Len(t)
    /\ SubSeq(t, i, i + 2) = <<"[ipaddres", "s", "-">>
    /\ t[i + 3] \in Digits

\* int() of a run of digits padded to at most two, "01" and "1" alike; -1 stands for
\* the numbers that no row of Known has.
Number(digits) ==
    CASE digits \in {<<"0">>, <<"0", "0">>} -> 0
      [] digits \in {<<"1">>, <<"0", "1">>} -> 1
      [] digits = <<"1", "2">> -> 12
      [] OTHER -> -1

Address == [n \in {0, 1, 12} |-> CASE n = 0 -> "addr0" [] n = 1 -> "addr1" [] n = 12 -> "addr12"]

\* PLACEHOLDER_FUZZY_RE: the bracket is optional, the digits are what is there.
Placeholders(t) ==
    LET end(i) == RunEnd(t, i + 3, Digits)
        number(i) == Number(SubSeq(t, i + 3, end(i)))
    IN {[first |-> i,
         last |-> IF end(i) < Len(t) /\ t[end(i) + 1] = "]" THEN end(i) + 1 ELSE end(i),
         by |-> Address[number(i)]] :
           i \in {k \in 1..Len(t) : StartsNumber(t, k) /\ number(k) \in Known}}

Rehydrate(t) == Replace(t, Placeholders(t))

\* SECRET_RULES: the marker and at least MinBody units of body, as many as there are.
Secrets(t) ==
    {[first |-> i, last |-> RunEnd(t, i + 2, {"b"}), by |-> "***REDACTED***"] :
        i \in {k \in 1..(Len(t) - 1 - MinBody) :
                 /\ t[k] = "sk-or-" /\ t[k + 1] = "v1-"
                 /\ RunEnd(t, k + 2, {"b"}) - k - 1 >= MinBody}}

Mask(t) == Replace(t, Secrets(t))

\* Mutant: a marker is held only until its body is long enough.
Mut_HoldsSecret(t, i) ==
    \/ /\ i < Len(t) /\ t[i] = "sk-or-" /\ t[i + 1] = "v1-"
       /\ \A k \in (i + 2)..Len(t) : t[k] = "b"
       /\ Len(t) - i - 1 < MinBody
    \/ i = Len(t) /\ t[i] \in {"sk-or-", "s", "-"}
    \/ \A k \in i..Len(t) : t[k] \in Digits \cup Addresses

\* secret_carry_split: a marker with body up to the end, a part of a marker (the
\* "s" and the dash begin one), or a run of digits (an address ends in one).
HoldsSecret(t, i) ==
    \/ /\ i < Len(t) /\ t[i] = "sk-or-" /\ t[i + 1] = "v1-"
       /\ \A k \in (i + 2)..Len(t) : t[k] = "b"
    \/ i = Len(t) /\ t[i] \in {"sk-or-", "s", "-"}
    \/ \A k \in i..Len(t) : t[k] \in Digits \cup Addresses

\* _split_carry's own pattern: from the bracket, with the dash, up to two digits.
HoldsPlaceholder(t, i) ==
    /\ i + 2 <= Len(t)
    /\ SubSeq(t, i, i + 2) = <<"[ipaddres", "s", "-">>
    /\ LET end == RunEnd(t, i + 3, Digits)
       IN /\ end - i - 2 <= 2
          /\ \/ end = Len(t)
             \/ end = Len(t) - 1 /\ t[Len(t)] = "]"

Held(t) ==
    LET placeholder == {i \in 1..Len(t) : HoldsPlaceholder(t, i)}
        secret == {i \in 1..Len(t) : mode = "mask" /\ HoldsSecret(t, i)}
        starts == IF placeholder # {} THEN placeholder ELSE secret
    IN IF starts = {} THEN Len(t) + 1
       ELSE CHOOSE i \in starts : \A j \in starts : i <= j

\* _rehydrate_line: nothing to do, or _rehydrate_chunk; [flush, carry].
Relayed(chunk) ==
    IF mode # "mask" /\ ~MentionsPlaceholder(chunk) /\ carry = <<>>
    THEN [flush |-> chunk, carry |-> <<>>]
    ELSE LET text == carry \o chunk
             whole == IF MentionsPlaceholder(text) THEN Rehydrate(text) ELSE text
             flush == SubSeq(whole, 1, Held(whole) - 1)
         IN [flush |-> IF mode = "off" THEN flush ELSE Mask(flush),
             carry |-> SubSeq(whole, Held(whole), Len(whole))]

-----------------------------------------------------------------------------
(* The generator                                                           *)

\* Every line: the metadata event goes before the first.
Forward ==
    /\ metadata' = IF metadata = 0 THEN tier ELSE metadata
    /\ lines' = lines \cup {tier}

\* The chunk ends inside a placeholder of the answer, elsewhere than at its dash;
\* or inside a number no row has, after digits that are one a row has.
Tears(p) ==
    /\ p \in 1..(Len(answer) - 1) /\ answer[p] # "-"
    /\ \/ \E s \in Placeholders(answer) : s.first <= p /\ p < s.last
       \/ /\ {answer[p], answer[p + 1]} \subseteq Digits
          /\ \E s \in Placeholders(SubSeq(answer, 1, p)) : s.last = p

Chunk ==
    /\ phase = "stream" /\ pos < Len(answer)
    /\ \E p \in (pos + 1)..Len(answer) :
         LET relayed == Relayed(SubSeq(answer, pos + 1, p))
         IN /\ pos' = p
            /\ out' = out \o relayed.flush /\ carry' = relayed.carry
            /\ torn' = (torn \/ Tears(p))
    /\ Forward
    /\ UNCHANGED <<mode, phase, tier, open, answer, signals, closing, comments>>

\* Lines without content: a tool call, the usage block.
ToolCall ==
    /\ phase = "stream" /\ ~tools
    /\ tools' = TRUE
    /\ Forward
    /\ UNCHANGED <<mode, phase, tier, open, content, usage, closing, comments>>

Usage ==
    /\ phase = "stream" /\ pos = Len(answer) /\ usage = 0
    /\ usage' = tier
    /\ Forward
    /\ UNCHANGED <<mode, phase, tier, open, content, tools, closing, comments>>

\* A comment of the upstream (": PROCESSING") is a line like any other.
Comment ==
    /\ phase = "stream" /\ comments < MaxComments
    /\ comments' = comments + 1
    /\ Forward
    /\ UNCHANGED <<mode, phase, tier, open, content, signals, closing>>

\* data: [DONE]: flush the carry, account for the usage, postfix, last line.
Done ==
    /\ phase = "stream" /\ pos = Len(answer)
    /\ out' = out \o (IF mode = "mask" THEN Mask(carry) ELSE carry)
    /\ carry' = <<>>
    /\ closing' = IF tools THEN <<"[DONE]">> ELSE <<"postfix", "[DONE]">>
    /\ metadata' = IF metadata = 0 THEN tier ELSE metadata
    /\ phase' = "done" /\ open' = open \ {tier}
    /\ UNCHANGED <<mode, tier, answer, pos, torn, signals, lines, comments>>

\* The upstream closes the connection without [DONE]: the carry is dropped.
Eof ==
    /\ phase = "stream"
    /\ phase' = "eof" /\ open' = open \ {tier}
    /\ UNCHANGED <<mode, tier, content, signals, sent, comments>>

ErrorEvent ==
    /\ closing' = <<"error">>
    /\ phase' = "error" /\ open' = open \ {tier}

\* The connection breaks, or stalls after its first line: nothing is retried.
Breaks ==
    /\ phase = "stream"
    /\ ErrorEvent
    /\ UNCHANGED <<mode, tier, content, signals, metadata, lines, comments>>

\* Mutant: a stalled stream is restarted also after lines were forwarded.
Mut_Recoverable == tier < Tiers

\* Mutant: the ceiling is not looked at.
Mut_Unbounded == lines = {}

\* Nothing was forwarded, and _next_tier_route and the retry budget allow it.
Recoverable == lines = {} /\ tier < Tiers

\* Mutant: the same tier again.
Mut_NextTier == tier

NextTier == tier + 1

\* No line within the first-token timeout: the next tier answers, or it fails.
Restream ==
    /\ phase = "stream" /\ Recoverable
    /\ tier' = NextTier
    /\ open' = {NextTier}
    /\ \E t \in Answers : answer' = t
    /\ pos' = 0 /\ carry' = <<>>
    /\ tools' = FALSE /\ usage' = 0
    /\ UNCHANGED <<mode, phase, out, torn, sent, comments>>

RestreamFails ==
    /\ phase = "stream" /\ Recoverable
    /\ tier' = NextTier
    /\ ErrorEvent
    /\ UNCHANGED <<mode, content, signals, metadata, lines, comments>>

\* The client disconnects: the generator is cancelled, nothing closes the upstream.
ClientGone ==
    /\ phase = "stream"
    /\ phase' = "gone"
    /\ UNCHANGED <<mode, tier, open, content, signals, sent, comments>>

Progress == Chunk \/ ToolCall \/ Usage \/ Done \/ Eof \/ Breaks \/ Restream \/ RestreamFails

Next == Progress \/ Comment \/ ClientGone

Spec == Init /\ [][Next]_vars

\* A finite answer either goes on or is found stalled by the guard's timeouts.
FairSpec == Spec /\ WF_vars(Progress)

-----------------------------------------------------------------------------
(* Properties                                                              *)

TypeOK ==
    /\ mode \in Modes /\ phase \in Ended \cup {"stream"}
    /\ tier \in 1..Tiers /\ open \subseteq 1..Tiers
    /\ answer \in Answers /\ pos \in 0..Len(answer)
    /\ carry \in Seq(Units \cup Addresses)
    /\ out \in Seq(Units \cup Addresses \cup {"***REDACTED***"})
    /\ tools \in BOOLEAN /\ usage \in 0..Tiers
    /\ metadata \in 0..Tiers /\ lines \subseteq 1..Tiers
    /\ closing \in {<<>>, <<"error">>, <<"[DONE]">>, <<"postfix", "[DONE]">>}
    /\ comments \in 0..MaxComments /\ torn \in BOOLEAN

\* What the client is meant to read: the answer with its addresses back and, when
\* masking is on, its secrets gone.
Expected ==
    IF mode = "mask" THEN Mask(Rehydrate(answer)) ELSE Rehydrate(answer)

\* However the answer is cut into chunks, what the client has is a beginning of
\* what it would read were the answer relayed whole, and with [DONE] all of it: no
\* part of a secret gets out before the rest of it is seen.  Except when a chunk
\* ends inside a placeholder or what looks like one: _rehydrate_chunk substitutes
\* before it splits, by the digits that have come, and the split does not hold a
\* placeholder without its dash.
RelayedWhole ==
    ~torn =>
        /\ IsPrefix(out, Expected)
        /\ phase = "done" => out = Expected

\* Recovery from a stall is invisible: one tier only has ever sent the client
\* anything, it is the one the metadata names and the one whose usage the pin is
\* charged for; and the upstream is closed at the end, unless the client left first.
OneTierAnswers ==
    /\ lines \cup ({metadata, usage} \ {0}) \subseteq {tier}
    /\ metadata = 0 => out = <<>> /\ phase # "done"
    /\ phase \in {"done", "eof", "error"} => open = {}

\* Every stream comes to an end, whatever stalls, breaks and restarts.
EveryStreamEnds == <>(phase \in Ended)
=============================================================================
