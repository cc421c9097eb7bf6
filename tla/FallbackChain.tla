--------------------------- MODULE FallbackChain ---------------------------
(***************************************************************************)
(* One client request upstream: the fallback chain of a tier with its      *)
(* retries, backoff and wall-clock deadline (app/routing/fallback.py),     *)
(* inside the loop of tiers that retry_on_failure and stall recovery make  *)
(* of it (app/api/chat.py).                                                *)
(*                                                                         *)
(* Time is in ticks, Second of them to a second.  The HTTP client bounds   *)
(* every network wait of an attempt by the attempt's timeout, not their    *)
(* sum: an attempt lasts up to Waits timeouts.                             *)
(***************************************************************************)
EXTENDS Integers

CONSTANTS
    Models,       \* the length of a tier's chain: primary and fallbacks
    MaxRetries,   \* provider.max_retries
    Backoff,      \* provider.retry_backoff_seconds
    Timeout,      \* provider.timeout_seconds
    Deadline,     \* provider.request_deadline_seconds; 0: none
    FirstToken,   \* provider.stream_first_token_timeout_seconds; 0: no guard
    Margin,       \* what must be left of the deadline to restream
    Second,       \* ticks in a second
    Waits,        \* network waits in one attempt, or for the first line of a stream
    Tiers,        \* how many tiers the retry budget and the ceiling allow
    None

ASSUME FallbackChainAssumption ==
    /\ Models \in Nat \ {0} /\ MaxRetries \in Nat
    /\ Backoff \in Nat /\ Timeout \in Nat /\ Deadline \in Nat
    /\ FirstToken \in Nat /\ Margin \in Nat
    /\ Second \in Nat \ {0} /\ Waits \in Nat \ {0} /\ Tiers \in Nat \ {0}
    /\ None \notin Int

VARIABLES
    pc,          \* where the request is
    now,         \* ticks since it arrived
    stream,      \* it asked for a stream
    tier,        \* which tier it is at, the first being 1
    restreams,   \* stalls the stream has recovered from
    deadline,    \* the chain's deadline, or None
    model,       \* position in the chain
    retry,       \* retries used at this position
    tried,       \* attempts at each position
    lastError,   \* last_error
    status       \* the status the client got, 0 before

vars == <<pc, now, stream, tier, restreams, deadline, model, retry, tried, lastError, status>>

Positions == 1..Models

Kinds == {"none", "status", "choices", "timeout", "exception", "deadline"}

\* exhausted: the text of the error has the word "exhausted" in it.
Errors == [kind : Kinds, exhausted : BOOLEAN]
NoError == [kind |-> "none", exhausted |-> FALSE]

PCs == {"idle", "forward", "try", "exhausted", "open", "answered", "failed"}

Init ==
    /\ pc = "idle" /\ now = 0 /\ stream = FALSE /\ tier = 1 /\ restreams = 0
    /\ deadline = None /\ model = 1 /\ retry = 0
    /\ tried = [m \in Positions |-> 0]
    /\ lastError = NoError /\ status = 0

Arrive ==
    /\ pc = "idle"
    /\ stream' \in BOOLEAN
    /\ pc' = "forward"
    /\ UNCHANGED <<now, tier, restreams, deadline, model, retry, tried, lastError, status>>

-----------------------------------------------------------------------------
(* execute_with_fallback                                                   *)

StartChain ==
    /\ model' = 1 /\ retry' = 0
    /\ tried' = [m \in Positions |-> 0]
    /\ lastError' = NoError
    /\ pc' = "try"

\* _forward_to_provider computes a deadline of its own, then calls the chain.
Forward ==
    /\ pc = "forward"
    /\ deadline' = IF Deadline = 0 THEN None ELSE now + Deadline
    /\ StartChain
    /\ UNCHANGED <<now, stream, tier, restreams, status>>

DeadlinePassed == deadline # None /\ deadline - now <= 0

\* The inner loop breaks: the next model, or the end of the chain.
NextModel ==
    /\ retry' = 0
    /\ IF model < Models
       THEN model' = model + 1 /\ UNCHANGED pc
       ELSE pc' = "exhausted" /\ UNCHANGED model

\* No attempt at this model: the text of the last error stays in the new one.
SkipModel ==
    /\ pc = "try" /\ DeadlinePassed
    /\ NextModel
    /\ lastError' = [lastError EXCEPT !.kind = "deadline"]
    /\ UNCHANGED <<now, stream, tier, restreams, deadline, tried, status>>

Smaller(a, b) == IF a < b THEN a ELSE b
Larger(a, b) == IF a > b THEN a ELSE b

\* Mutant: each attempt gets the full timeout.
Mut_AttemptTimeout == Timeout

\* _attempt_timeout: clamped to what is left, but never below a second.
AttemptTimeout ==
    IF deadline = None THEN Timeout
    ELSE Larger(Second, Smaller(Timeout, deadline - now))

\* What an attempt of so many ticks may fail with.
Failures(ticks) ==
    [kind : {"status", "exception"}, exhausted : BOOLEAN]
    \cup (IF stream THEN {} ELSE {[kind |-> "choices", exhausted |-> TRUE]})
    \cup (IF ticks >= AttemptTimeout THEN {[kind |-> "timeout", exhausted |-> FALSE]} ELSE {})

\* Mutant: range(max_retries), one attempt too few.
Mut_RetriesLeft == retry + 1 < MaxRetries

RetriesLeft == retry < MaxRetries

\* Mutant: a failed attempt moves on to the next model at once.
Mut_AttemptFails ==
    /\ pc = "try" /\ ~DeadlinePassed
    /\ \E ticks \in 0..(Waits * AttemptTimeout) :
         /\ lastError' \in Failures(ticks)
         /\ now' = now + ticks + (IF RetriesLeft THEN Backoff ELSE 0)
    /\ tried' = [tried EXCEPT ![model] = @ + 1]
    /\ retry' = retry + 1
    /\ IF model < Models
       THEN model' = model + 1 /\ UNCHANGED pc
       ELSE pc' = "exhausted" /\ UNCHANGED model
    /\ UNCHANGED <<stream, tier, restreams, deadline, status>>

AttemptFails ==
    /\ pc = "try" /\ ~DeadlinePassed
    /\ \E ticks \in 0..(Waits * AttemptTimeout) :
         /\ lastError' \in Failures(ticks)
         /\ now' = now + ticks + (IF RetriesLeft THEN Backoff ELSE 0)
    /\ tried' = [tried EXCEPT ![model] = @ + 1]
    /\ IF RetriesLeft
       THEN retry' = retry + 1 /\ UNCHANGED <<pc, model>>
       ELSE NextModel
    /\ UNCHANGED <<stream, tier, restreams, deadline, status>>

AttemptSucceeds ==
    /\ pc = "try" /\ ~DeadlinePassed
    /\ \E ticks \in 0..(Waits * AttemptTimeout) : now' = now + ticks
    /\ tried' = [tried EXCEPT ![model] = @ + 1]
    /\ pc' = IF stream THEN "open" ELSE "answered"
    /\ status' = 200
    /\ UNCHANGED <<stream, tier, restreams, deadline, model, retry, lastError>>

-----------------------------------------------------------------------------
(* _handle_non_stream and _handle_stream                                   *)

\* _retry_with_higher_tier forwards the request once more.
RetryHigherTier ==
    /\ pc = "exhausted" /\ restreams = 0 /\ tier < Tiers
    /\ tier' = tier + 1
    /\ pc' = "forward"
    /\ UNCHANGED <<now, stream, restreams, deadline, model, retry, tried, lastError, status>>

\* `502 if "exhausted" in error else 504`
Refuse ==
    /\ pc = "exhausted" /\ restreams = 0 /\ tier = Tiers
    /\ status' = IF lastError.exhausted THEN 502 ELSE 504
    /\ pc' = "failed"
    /\ UNCHANGED <<now, stream, tier, restreams, deadline, model, retry, tried, lastError>>

\* The headers are out: the error is an event of the stream.
RestreamFails ==
    /\ pc = "exhausted" /\ restreams > 0
    /\ pc' = "failed"
    /\ UNCHANGED <<now, stream, tier, restreams, deadline, model, retry, tried, lastError, status>>

\* How long the first line may take.  Without the guard only the read timeout of
\* the attempt is left, at most the longest there is, and every byte starts it anew.
FirstWait == IF FirstToken > 0 THEN FirstToken ELSE Waits * Larger(Timeout, Second)

\* The first line, or the end of the stream.
FirstTokenArrives ==
    /\ pc = "open"
    /\ \E ticks \in 0..FirstWait : now' = now + ticks
    /\ pc' = "answered"
    /\ UNCHANGED <<stream, tier, restreams, deadline, model, retry, tried, lastError, status>>

\* The connection breaks, or the HTTP client's read timeout comes first: this is
\* no stall, and no other tier is tried.
StreamBreaks ==
    /\ pc = "open"
    /\ \E ticks \in 0..FirstWait : now' = now + ticks
    /\ pc' = "failed"
    /\ UNCHANGED <<stream, tier, restreams, deadline, model, retry, tried, lastError, status>>

\* After the first-token timeout: budget_left, and a tier to go to.
MayRestream ==
    /\ tier < Tiers
    /\ deadline = None \/ deadline - (now + FirstToken) > Margin

\* Mutant: the restream gets a deadline of its own.
Mut_StallRecovers ==
    /\ pc = "open" /\ FirstToken > 0 /\ MayRestream
    /\ now' = now + FirstToken
    /\ tier' = tier + 1 /\ restreams' = restreams + 1
    /\ deadline' = IF Deadline = 0 THEN None ELSE now' + Deadline
    /\ StartChain
    /\ UNCHANGED <<stream, status>>

\* The stalled stream goes on with the next tier's chain, under the deadline it
\* had.
StallRecovers ==
    /\ pc = "open" /\ FirstToken > 0 /\ MayRestream
    /\ now' = now + FirstToken
    /\ tier' = tier + 1 /\ restreams' = restreams + 1
    /\ StartChain
    /\ UNCHANGED <<stream, deadline, status>>

StallFails ==
    /\ pc = "open" /\ FirstToken > 0 /\ ~MayRestream
    /\ now' = now + FirstToken
    /\ pc' = "failed"
    /\ UNCHANGED <<stream, tier, restreams, deadline, model, retry, tried, lastError, status>>

-----------------------------------------------------------------------------
Next ==
    \/ Arrive \/ Forward
    \/ SkipModel \/ AttemptFails \/ AttemptSucceeds
    \/ RetryHigherTier \/ Refuse \/ RestreamFails
    \/ FirstTokenArrives \/ StreamBreaks \/ StallRecovers \/ StallFails

Spec == Init /\ [][Next]_vars

-----------------------------------------------------------------------------
(* Properties                                                              *)

\* Every variable keeps its type.
TypeOK ==
    /\ pc \in PCs /\ now \in Nat /\ stream \in BOOLEAN
    /\ tier \in 1..Tiers /\ restreams \in 0..(tier - 1)
    /\ deadline \in Nat \cup {None}
    /\ model \in Positions /\ retry \in 0..MaxRetries
    /\ tried \in [Positions -> 0..(MaxRetries + 1)]
    /\ lastError \in Errors /\ status \in {0, 200, 502, 504}

\* A fallback is only tried when every model before it has had all its attempts,
\* with the deadline cutting in anywhere: what is skipped for want of time is
\* the end of the chain, never the middle.
ChainOrder ==
    \A m, n \in Positions : m < n /\ tried[n] > 0 => tried[m] = MaxRetries + 1

\* A chain that ends in an error other than the deadline's has given every model
\* of the tier all its attempts.
NothingSkipped ==
    pc = "exhausted" /\ lastError.kind # "deadline"
        => \A m \in Positions : tried[m] = MaxRetries + 1

\* How far an attempt that starts just in time, and the backoff after it, may
\* run past the deadline.
Overrun == (Waits - 1) * Larger(Timeout, Second) + (Second - 1) + Backoff

\* "Wall-clock budget for the whole fallback chain": however the attempts of the
\* chain end, it is over by its deadline, give or take the overrun of one.
ChainBounded ==
    pc \in {"try", "exhausted", "open"} /\ deadline # None
        => now <= deadline + Overrun

\* A whole request takes at most one budget for each time it is forwarded, and
\* one wait for a first line, guarded or not: restreams share the deadline of the
\* stalled chain.
RequestBounded ==
    Deadline > 0 => now <= (tier - restreams) * (Deadline + Overrun) + FirstWait
=============================================================================
