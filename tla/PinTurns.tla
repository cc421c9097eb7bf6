----------------------------- MODULE PinTurns -----------------------------
(***************************************************************************)
(* The turns of a pinned session and what moves its tier: the session hit, *)
(* the free escalation signals, retry with a higher tier after an upstream *)
(* failure, stall recovery of a stream (app/api/chat.py), the /signal and  *)
(* PUT endpoints (app/api/sessions.py).                                    *)
(*                                                                         *)
(* With the in-memory store all coroutines mutate one shared pin object    *)
(* and only suspend for the upstream; with Redis each works on its own     *)
(* copy, and every store call is a suspension.  The pin is neither created *)
(* nor dropped here: that is FirstTurn.                                    *)
(***************************************************************************)
EXTENDS Levels

CONSTANTS
    Turns,            \* chat completions of the session
    Signals,          \* POST .../signal calls
    Setters,          \* PUT calls
    Backend,          \* "memory" or "redis"
    Options,          \* what a completion may ask: see OptionType
    Evidence,         \* what a /signal call may report: see EvidenceType
    SetLevels,        \* the levels PUT may ask for
    StartLevels,      \* the levels the session may have been pinned to
    GlobalMax,        \* routing.global_max_level
    Threshold, Decay, Cooldown, MaxEscalations, EscalateAfter,
    MaxRetries,       \* escalation.retry_on_failure_max_per_session
    RetryOnFailure,   \* escalation.retry_on_failure
    DowngradeTo,      \* the tier the budget may downgrade a turn to, or NoLevel
    MayRefuse         \* budget.on_exceeded is reject, and the budget may be spent

Actors == Turns \cup Signals \cup Setters

\* weight: what the free signals in the user's text add up to (0: none fired);
\* strong: whether one of them is in _STRONG_ESCALATION_SIGNALS.
EvidenceType == [weight : Int, strong : BOOLEAN]
OptionType ==
    [forced : Level \cup {NoLevel}, repin : BOOLEAN,
     max : Level \cup {NoLevel}, min : Level \cup {NoLevel},
     weight : Nat, strong : BOOLEAN, stream : BOOLEAN]

ASSUME PinTurnsAssumption ==
    /\ Backend \in {"memory", "redis"}
    /\ Options \subseteq OptionType /\ Options # {}
    /\ Evidence \subseteq EvidenceType
    /\ SetLevels \subseteq Level /\ StartLevels \subseteq Level
    /\ GlobalMax \in Level
    /\ Threshold \in Nat /\ Decay \in Nat /\ Cooldown \in Nat /\ EscalateAfter \in Nat
    /\ MaxEscalations \in Nat /\ MaxRetries \in Nat
    /\ RetryOnFailure \in BOOLEAN
    /\ DowngradeTo \in Level \cup {NoLevel}
    /\ MayRefuse \in BOOLEAN

TurnDepthWeight == 1
FailureWeight == 3

VARIABLES
    pc,          \* where each coroutine is
    stored,      \* the pin in the store
    copy,        \* with Redis, the pin each coroutine works on
    opt,         \* what each completion asked for
    route,       \* the tier each completion is forwarded at
    escalated,   \* history: how often signals moved the pin up
    retried,     \* history: how often a failure or a stall moved it
    strongSeen,  \* history: a strong signal was seen
    called,      \* history: a /signal call moved the pin to the top tier
    lastOutcome  \* history: how the last finished turn ended

vars == <<pc, stored, copy, opt, route, escalated, retried, strongSeen, called, lastOutcome>>

\* last: last_escalated_turn; until: cooldown_until_turn; fails:
\* consecutive_failures; retries: retry_count.
PinType ==
    [level : Level, turns : Nat, score : Int, count : Nat, last : Nat,
     until : Nat, retries : Nat, fails : Nat]

PCs == {"idle", "hit", "signals", "escput", "upstream", "retryput", "streaming",
        "restream", "sigput", "setput", "done"}

Suspended == {"idle", "upstream", "streaming", "restream", "done"}

OnLoop(a) == Backend = "redis" \/ \A b \in Actors \ {a} : pc[b] \in Suspended

\* The pin as the coroutine sees it, a change to it, and a change with its put.
Seen(a) == IF Backend = "memory" THEN stored ELSE copy[a]

Mutate(a, p) ==
    IF Backend = "memory"
    THEN stored' = p /\ UNCHANGED copy
    ELSE copy' = [copy EXCEPT ![a] = p] /\ UNCHANGED stored

MutateAndPut(a, p) ==
    /\ stored' = p
    /\ copy' = IF Backend = "memory" THEN copy ELSE [copy EXCEPT ![a] = p]

Put(a) == stored' = Seen(a) /\ UNCHANGED copy

Goto(a, there) == pc' = [pc EXCEPT ![a] = there]

\* store.get
Load(a) == UNCHANGED stored /\
    copy' = IF Backend = "memory" THEN copy ELSE [copy EXCEPT ![a] = stored]

AtLevel(p, level) == [p EXCEPT !.level = level]

FreshPin(level) ==
    [level |-> level, turns |-> 1, score |-> 0, count |-> 0, last |-> 0,
     until |-> 0, retries |-> 0, fails |-> 0]

Init ==
    /\ pc = [a \in Actors |-> "idle"]
    /\ \E level \in StartLevels :
          /\ stored = FreshPin(level)
          /\ copy = [a \in Actors |-> FreshPin(level)]
          /\ route = [t \in Turns |-> level]
    /\ opt = [t \in Turns |-> CHOOSE o \in Options : TRUE]
    /\ escalated = 0 /\ retried = 0 /\ strongSeen = FALSE /\ called = FALSE /\ lastOutcome = "none"

-----------------------------------------------------------------------------
(* _handle_session_hit                                                     *)

Arrive(t) ==
    /\ pc[t] = "idle" /\ OnLoop(t)
    /\ \E o \in Options : opt' = [opt EXCEPT ![t] = o]
    /\ Load(t)
    /\ Goto(t, "hit")
    /\ UNCHANGED <<route, escalated, retried, strongSeen, called, lastOutcome>>

\* Mutant: a forced level always goes into the pin, asked for or not.
Mut_Hit(t) ==
    /\ pc[t] = "hit"
    /\ LET o == opt[t]
           wanted == IF o.forced # NoLevel THEN o.forced ELSE Seen(t).level
       IN  /\ route' = [route EXCEPT ![t] = Clamp(wanted, o.max, o.min)]
           /\ MutateAndPut(t, AtLevel([Seen(t) EXCEPT !.turns = @ + 1], wanted))
    /\ Goto(t, "signals")
    /\ UNCHANGED <<opt, escalated, retried, strongSeen, called, lastOutcome>>

\* Count the turn, apply the request's overrides, put the pin.
Hit(t) ==
    /\ pc[t] = "hit"
    /\ LET o == opt[t]
           wanted == IF o.forced # NoLevel THEN o.forced ELSE Seen(t).level
       IN  /\ route' = [route EXCEPT ![t] = Clamp(wanted, o.max, o.min)]
           /\ MutateAndPut(t, AtLevel([Seen(t) EXCEPT !.turns = @ + 1],
                  IF o.forced # NoLevel /\ o.repin THEN o.forced ELSE Seen(t).level))
    /\ Goto(t, "signals")
    /\ UNCHANGED <<opt, escalated, retried, strongSeen, called, lastOutcome>>

\* _detect_escalation_signals: what fired, by weight and by strength.
Fired(o, p) == o.weight + (IF p.turns >= EscalateAfter THEN TurnDepthWeight ELSE 0)
                        + (IF p.fails > 0 THEN FailureWeight ELSE 0)
StrongFired(o, p) == o.strong \/ p.fails > 0

\* Mutant: no cooldown.
Mut_MayEscalate(p, new) ==
    p.score >= Threshold /\ p.count < MaxEscalations /\ new <= GlobalMax

\* Threshold, cap, cooldown and global ceiling.
MayEscalate(p, new) ==
    /\ p.score >= Threshold
    /\ p.count < MaxEscalations
    /\ p.turns >= p.until
    /\ new <= GlobalMax

MovedUp(p, new) ==
    [level |-> new, turns |-> p.turns, score |-> p.score, count |-> p.count + 1,
     last |-> p.turns, until |-> p.turns + Cooldown,
     retries |-> p.retries, fails |-> p.fails]

\* The tier the budget lets the turn be forwarded at (_check_budget).
Dispatch(t, level) ==
    \E l \in {level} \cup (IF DowngradeTo = NoLevel THEN {} ELSE {DowngradeTo}) :
        route' = [route EXCEPT ![t] = l]

\* No signal: the score decays, in the pin the coroutine holds.
SignalsQuiet(t) ==
    /\ pc[t] = "signals"
    /\ Fired(opt[t], Seen(t)) = 0
    /\ LET left == Seen(t).score - Decay
       IN  Mutate(t, [Seen(t) EXCEPT !.score = IF left > 0 THEN left ELSE 0])
    /\ Dispatch(t, route[t])
    /\ Goto(t, "upstream")
    /\ UNCHANGED <<opt, escalated, retried, strongSeen, called, lastOutcome>>

\* Mutant: the guard of the top tier is missing.
Mut_TopTierGuard(new, strong) == TRUE

\* The final tier takes a strong signal.
TopTierGuard(new, strong) == new = 5 => strong

\* Signals: the score rises, and _apply_escalation may move the tier.
SignalsFire(t) ==
    /\ pc[t] = "signals"
    /\ Fired(opt[t], Seen(t)) > 0
    /\ LET strong == StrongFired(opt[t], Seen(t))
           scored == [Seen(t) EXCEPT !.score = @ + Fired(opt[t], Seen(t))]
           new == FromNumeric(scored.level + 1)
       IN  /\ strongSeen' = (strongSeen \/ strong)
           /\ IF MayEscalate(scored, new) /\ TopTierGuard(new, strong)
              THEN /\ Mutate(t, [MovedUp(scored, new) EXCEPT !.score = 0])
                   /\ route' = [route EXCEPT ![t] = new]
                   /\ escalated' = escalated + 1
                   /\ Goto(t, "escput")
              ELSE /\ Mutate(t, scored)
                   /\ Dispatch(t, route[t])
                   /\ Goto(t, "upstream")
                   /\ UNCHANGED escalated
    /\ UNCHANGED <<opt, retried, called, lastOutcome>>

EscalationPut(t) ==
    /\ pc[t] = "escput"
    /\ Put(t)
    /\ Dispatch(t, route[t])
    /\ Goto(t, "upstream")
    /\ UNCHANGED <<opt, escalated, retried, strongSeen, called, lastOutcome>>

-----------------------------------------------------------------------------
(* _handle_non_stream, and _handle_stream up to the first byte             *)

Failed(p) == [p EXCEPT !.fails = @ + 1]

\* Mutant: a success takes one failure back instead of all.
Mut_Cleared(p) == [p EXCEPT !.fails = @ - 1]

Cleared(p) == [p EXCEPT !.fails = 0]

\* Success: clear the failure mark, then put.
Answer(t) ==
    /\ pc[t] = "upstream" /\ OnLoop(t) /\ ~opt[t].stream
    /\ MutateAndPut(t, Cleared(Seen(t)))
    /\ lastOutcome' = "ok"
    /\ Goto(t, "done")
    /\ UNCHANGED <<opt, route, escalated, retried, strongSeen, called>>

Retried(p) == [p EXCEPT !.retries = @ + 1]

\* Mutant: the retry budget is not looked at.
Mut_MayRetry(p) == RetryOnFailure /\ FromNumeric(p.level + 1) <= GlobalMax

\* Mutant: the ceiling is not looked at.
Mut_MayRetryAbove(p) == RetryOnFailure /\ p.retries < MaxRetries

\* _retry_with_higher_tier: the budget and the ceiling, from the pin's tier.
MayRetry(p) ==
    /\ RetryOnFailure
    /\ p.retries < MaxRetries
    /\ FromNumeric(p.level + 1) <= GlobalMax

\* Mutant: the retry is not counted.
Mut_RetryUncounted(t) ==
    /\ pc[t] = "upstream" /\ OnLoop(t)
    /\ MayRetry(Seen(t))
    /\ LET new == FromNumeric(Seen(t).level + 1)
       IN  /\ Mutate(t, AtLevel(Seen(t), new))
           /\ route' = [route EXCEPT ![t] = new]
    /\ strongSeen' = TRUE
    /\ Goto(t, "retryput")
    /\ UNCHANGED <<opt, escalated, retried, called, lastOutcome>>

Retry(t) ==
    /\ pc[t] = "upstream" /\ OnLoop(t)
    /\ MayRetry(Seen(t))
    /\ LET new == FromNumeric(Seen(t).level + 1)
       IN  /\ Mutate(t, AtLevel(Retried(Failed(Seen(t))), new))
           /\ route' = [route EXCEPT ![t] = new]
    /\ retried' = retried + 1
    /\ strongSeen' = TRUE
    /\ Goto(t, "retryput")
    /\ UNCHANGED <<opt, escalated, called, lastOutcome>>

RetryPut(t) ==
    /\ pc[t] = "retryput"
    /\ Put(t)
    /\ Dispatch(t, route[t])
    /\ Goto(t, "upstream")
    /\ UNCHANGED <<opt, escalated, retried, strongSeen, called, lastOutcome>>

\* Mutant: the error answer forgets to mark the pin.
Mut_Fail(t) ==
    /\ pc[t] = "upstream" /\ OnLoop(t)
    /\ ~MayRetry(Seen(t))
    /\ strongSeen' = TRUE
    /\ lastOutcome' = "failed"
    /\ Goto(t, "done")
    /\ UNCHANGED <<stored, copy, opt, route, escalated, retried, called>>

\* No retry: the pin is marked, but not put, and the client gets 502 or 504.
Fail(t) ==
    /\ pc[t] = "upstream" /\ OnLoop(t)
    /\ ~MayRetry(Seen(t))
    /\ Mutate(t, Failed(Seen(t)))
    /\ strongSeen' = TRUE
    /\ lastOutcome' = "failed"
    /\ Goto(t, "done")
    /\ UNCHANGED <<opt, route, escalated, retried, called>>

\* The budget is spent: 429, and the pin is neither marked nor put.
Refused(t) ==
    /\ pc[t] = "upstream" /\ OnLoop(t) /\ MayRefuse
    /\ Goto(t, "done")
    /\ UNCHANGED <<stored, copy, opt, route, escalated, retried, strongSeen, called, lastOutcome>>

-----------------------------------------------------------------------------
(* stream_generator                                                        *)

StreamOpens(t) ==
    /\ pc[t] = "upstream" /\ OnLoop(t) /\ opt[t].stream
    /\ Goto(t, "streaming")
    /\ UNCHANGED <<stored, copy, opt, route, escalated, retried, strongSeen, called, lastOutcome>>

\* [DONE]: the pin is put with its token counts when the stream reported them;
\* the failure mark is cleared only after that.
StreamEnds(t) ==
    /\ pc[t] = "streaming" /\ OnLoop(t)
    /\ IF Backend = "memory"
       THEN stored' = Cleared(stored) /\ UNCHANGED copy
       ELSE /\ stored' \in {stored, copy[t]}
            /\ copy' = [copy EXCEPT ![t] = Cleared(@)]
    /\ lastOutcome' = "ok"
    /\ Goto(t, "done")
    /\ UNCHANGED <<opt, route, escalated, retried, strongSeen, called>>

\* A stall or an error the stream does not recover from.
StreamBreaks(t) ==
    /\ pc[t] = "streaming" /\ OnLoop(t)
    /\ Mutate(t, Failed(Seen(t)))
    /\ strongSeen' = TRUE
    /\ lastOutcome' = "failed"
    /\ Goto(t, "done")
    /\ UNCHANGED <<opt, route, escalated, retried, called>>

\* A stall before the first byte: _next_tier_route goes one above the route,
\* and writes that tier into the pin.
StallRecovers(t) ==
    /\ pc[t] = "streaming" /\ OnLoop(t)
    /\ Seen(t).retries < MaxRetries
    /\ LET new == FromNumeric(route[t] + 1)
       IN  /\ new # route[t] /\ new <= GlobalMax
           /\ Mutate(t, AtLevel(Retried(Failed(Seen(t))), new))
           /\ route' = [route EXCEPT ![t] = new]
    /\ retried' = retried + 1
    /\ strongSeen' = TRUE
    /\ Goto(t, "restream")
    /\ UNCHANGED <<opt, escalated, called, lastOutcome>>

RestreamOpens(t) ==
    /\ pc[t] = "restream" /\ OnLoop(t)
    /\ Put(t)
    /\ Goto(t, "streaming")
    /\ UNCHANGED <<opt, route, escalated, retried, strongSeen, called, lastOutcome>>

\* The pin keeps the mark, the tier and the spent retry of the stall, unless
\* another turn cleared the mark meanwhile; nothing is marked or put.
RestreamFails(t) ==
    /\ pc[t] = "restream" /\ OnLoop(t)
    /\ lastOutcome' = "lost"
    /\ Goto(t, "done")
    /\ UNCHANGED <<stored, copy, opt, route, escalated, retried, strongSeen, called>>

\* The client hangs up: the generator is cancelled where it waits, which
\* neither of its except branches sees.
ClientLeaves(t) ==
    /\ pc[t] \in {"streaming", "restream"} /\ OnLoop(t)
    /\ Goto(t, "done")
    /\ UNCHANGED <<stored, copy, opt, route, escalated, retried, strongSeen, called, lastOutcome>>

-----------------------------------------------------------------------------
(* POST /signal and PUT                                                    *)

LoadForSignal(s) ==
    /\ pc[s] = "idle" /\ OnLoop(s)
    /\ Load(s)
    /\ Goto(s, "sigput")
    /\ UNCHANGED <<opt, route, escalated, retried, strongSeen, called, lastOutcome>>

\* signal_session: a move does not reset the score, the top tier has no guard.
SignalPut(s) ==
    /\ pc[s] = "sigput"
    /\ \E e \in Evidence :
         LET scored == [Seen(s) EXCEPT !.score = @ + e.weight]
             new == FromNumeric(scored.level + 1)
             moves == MayEscalate(scored, new)
         IN  /\ MutateAndPut(s, IF moves THEN MovedUp(scored, new) ELSE scored)
             /\ escalated' = IF moves THEN escalated + 1 ELSE escalated
             /\ strongSeen' = (strongSeen \/ e.strong)
             /\ called' = (called \/ (moves /\ new = 5))
    /\ Goto(s, "done")
    /\ UNCHANGED <<opt, route, retried, lastOutcome>>

LoadForSet(s) ==
    /\ pc[s] = "idle" /\ OnLoop(s)
    /\ Load(s)
    /\ Goto(s, "setput")
    /\ UNCHANGED <<opt, route, escalated, retried, strongSeen, called, lastOutcome>>

\* set_session: any level, whatever the ceiling; the counters stay.
SetPut(s) ==
    /\ pc[s] = "setput"
    /\ \E level \in SetLevels : MutateAndPut(s, AtLevel(Seen(s), level))
    /\ Goto(s, "done")
    /\ UNCHANGED <<opt, route, escalated, retried, strongSeen, called, lastOutcome>>

-----------------------------------------------------------------------------
TurnStep(t) ==
    \/ Arrive(t) \/ Hit(t) \/ SignalsQuiet(t) \/ SignalsFire(t) \/ EscalationPut(t)
    \/ Answer(t) \/ Retry(t) \/ RetryPut(t) \/ Fail(t) \/ Refused(t)
    \/ StreamOpens(t) \/ StreamEnds(t) \/ StreamBreaks(t) \/ StallRecovers(t)
    \/ RestreamOpens(t) \/ RestreamFails(t) \/ ClientLeaves(t)

SignalStep(s) == LoadForSignal(s) \/ SignalPut(s)

SetterStep(s) == LoadForSet(s) \/ SetPut(s)

Next ==
    \/ \E t \in Turns : TurnStep(t)
    \/ \E s \in Signals : SignalStep(s)
    \/ \E s \in Setters : SetterStep(s)

\* The event loop runs every ready coroutine, and every upstream answers, fails
\* or runs into a timeout.
Fairness ==
    /\ \A t \in Turns : WF_vars(TurnStep(t))
    /\ \A s \in Signals : WF_vars(SignalStep(s))
    /\ \A s \in Setters : WF_vars(SetterStep(s))

Spec == Init /\ [][Next]_vars

FairSpec == Spec /\ Fairness

-----------------------------------------------------------------------------
(* Properties                                                              *)

\* Every variable keeps its type.
TypeOK ==
    /\ pc \in [Actors -> PCs]
    /\ stored \in PinType /\ copy \in [Actors -> PinType]
    /\ opt \in [Turns -> Options]
    /\ route \in [Turns -> Level]
    /\ escalated \in Nat /\ retried \in Nat
    /\ strongSeen \in BOOLEAN /\ called \in BOOLEAN
    /\ lastOutcome \in {"none", "ok", "failed", "lost"}

\* Whatever updates are lost between workers, no copy of the pin is ever past a
\* cap, so each turn on its own stops moving up.
PinsCapped ==
    \A p \in {stored} \cup {copy[a] : a \in Actors} :
        p.count <= MaxEscalations /\ p.retries <= MaxRetries

\* However the turns and the calls of the session interleave, no more moves are
\* made in all than max_escalations_per_session and the retry budget allow.
BudgetsKept == escalated <= MaxEscalations /\ retried <= MaxRetries

\* Two moves by signals, of whichever turn or /signal call, are at least
\* cooldown_turns turns apart.
CooldownKept ==
    [][ stored'.count > stored.count /\ stored.count > 0
        => stored'.turns >= stored.last + Cooldown ]_vars

\* "The next user turn triggers the upstream_failure escalation signal": as long
\* as the last turn that ended is one that failed, the pin in the store says so.
FailureRemembered == lastOutcome = "failed" => stored.fails > 0

\* The tier goes down only by PUT, by a repin, or by a stall recovery, which
\* takes its tier from the route of the turn and not from the pin.
DropsExplained ==
    [][ stored'.level < stored.level
        => \/ \E s \in Setters : pc[s] = "setput" /\ pc'[s] = "done"
           \/ \E t \in Turns : pc[t] = "hit" /\ opt[t].repin /\ pc'[t] = "signals"
           \/ \E t \in Turns : /\ pc[t] = "streaming" /\ pc'[t] = "restream"
                               /\ route[t] < stored.level ]_vars

\* While sessions are pinned and asked for inside the global ceiling, signals,
\* retries and stall recoveries never take a turn or the pin above it.
CeilingKept ==
    /\ stored.level <= GlobalMax
    /\ \A t \in Turns : route[t] <= GlobalMax

\* "L5 must require stronger evidence": the turns take a pin that started below the
\* top tier there only after a strong signal or an upstream failure.  A /signal
\* call takes it there on any evidence.
TopTierOnEvidence == stored.level = 5 => strongSeen \/ called

\* Every turn ends: retries and restreams do not go on for ever.
EveryTurnEnds == \A t \in Turns : <>(pc[t] = "done")
=============================================================================
