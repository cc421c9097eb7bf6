----------------------------- MODULE FirstTurn -----------------------------
(***************************************************************************)
(* The first-turn race protocol of one session: requests that look the pin *)
(* up, reserve the session, classify and pin it, or wait for the winner    *)
(* (app/session/locks.py and the routing path of app/api/chat.py), over    *)
(* the in-memory or the Redis session store, beside the calls that remove  *)
(* or set the pin from outside (app/api/sessions.py, app/api/admin.py).    *)
(*                                                                         *)
(* With the in-memory store no store call ever suspends its coroutine, so  *)
(* a coroutine keeps the event loop from one real suspension to the next;  *)
(* with Redis every store call is a suspension (OnLoop).  A pin is known   *)
(* by the request or call that created it: in memory that is the identity  *)
(* of a shared object, in Redis the origin of a copy (Mutated).            *)
(*                                                                         *)
(* Time is a number of ticks: how long a waiter waits, how long the        *)
(* classifier may take and how long a reservation lasts.                   *)
(***************************************************************************)
EXTENDS Integers, FiniteSets

CONSTANTS
    Requests,      \* chat completions of the session
    Reclassify,    \* those that ask to discard the pin
    Quick,         \* those whose level needs no classifier call (forced,
                   \*   tier prefix, classification cache hit)
    Deleters,      \* DELETE /v1/router/sessions/{id} calls
    Clearers,      \* "delete every session" admin calls
    Setters,       \* PUT /v1/router/sessions/{id} calls
    Backend,       \* "memory" or "redis"
    WaitTicks,     \* session.lock_wait_ms
    WorkTicks,     \* the classifier's timeout
    TtlTicks,      \* session.lock_reservation_seconds
    MaxTurns,      \* session.max_turns
    MayFail,       \* a request may raise, or its worker may die
    MayExpire,     \* pins may reach their time to live
    MayEvict,      \* other sessions may push this one out of the LRU store
    None

Actors == Requests \cup Deleters \cup Clearers \cup Setters

ASSUME FirstTurnAssumption ==
    /\ Reclassify \subseteq Requests /\ Quick \subseteq Requests
    /\ Requests \cap Setters = {}
    /\ Backend \in {"memory", "redis"}
    /\ WaitTicks \in Nat /\ WorkTicks \in Nat /\ TtlTicks \in Nat \ {0}
    /\ MaxTurns \in Nat
    /\ MayFail \in BOOLEAN /\ MayExpire \in BOOLEAN /\ MayEvict \in BOOLEAN
    /\ None \notin Actors
    /\ None \notin [by : Actors, turns : Nat]

VARIABLES
    pc,        \* where each coroutine is
    left,      \* ticks a waiter still waits or a classification may still take
    holder,    \* whose live reservation the store has, or None
    ttl,       \* ticks until that reservation lapses
    stored,    \* the pin under the session's key, or None
    mine,      \* the pin each coroutine holds, or None
    expired,   \* the pins whose expires_at has passed
    robbed,    \* history: requests that lost their reservation while working
    lost,      \* history: how often the store stopped having a live pin
    calls      \* history: requests that called the classifier

vars == <<pc, left, holder, ttl, stored, mine, expired, robbed, lost, calls>>

Pins == [by : Actors, turns : Nat]

PCs == {"idle", "purge", "pollpurge", "setpurge", "drop", "dropres", "reserve",
        "sleep", "giveup", "classify", "release", "put", "save",
        "forward", "delres", "setnew", "setput", "done", "failed"}

\* The points where a coroutine really waits: a client, a timer, an upstream.
Suspended == {"idle", "sleep", "classify", "forward", "done", "failed"}

\* Between winning the reservation and giving it back.
Working == {"classify", "release"}

Live(p) == p # None /\ p.by \notin expired

\* The coroutine may take its next step.
OnLoop(a) == Backend = "redis" \/ \A b \in Actors \ {a} : pc[b] \in Suspended

Init ==
    /\ pc = [a \in Actors |-> "idle"]
    /\ left = [a \in Actors |-> 0]
    /\ holder = None /\ ttl = 0
    /\ stored = None
    /\ mine = [a \in Actors |-> None]
    /\ expired = {}
    /\ robbed = {} /\ lost = 0 /\ calls = {}

Goto(a, there) == pc' = [pc EXCEPT ![a] = there]

\* Mutant: the holder goes, its expiry stays behind.
Mut_DropReservation == holder' = None /\ ttl' = ttl

\* delete(res_key) and _reservations.pop: whoever's reservation it is.
DropReservation == holder' = None /\ ttl' = 0

\* `a` changed the pin `p` it holds; in memory all holders share the object.
Mutated(a, p) ==
    [b \in Actors |->
        IF b = a \/ (Backend = "memory" /\ mine[b] # None /\ mine[b].by = p.by)
        THEN p ELSE mine[b]]

-----------------------------------------------------------------------------
(* store.get                                                               *)

\* The key is absent, or holds an expired pin, which the memory store pops on
\* the spot and Redis deletes with a second command.
GetMisses(a, next, purging) ==
    \/ stored = None /\ Goto(a, next) /\ UNCHANGED stored
    \/ /\ stored # None /\ ~Live(stored)
       /\ IF Backend = "memory"
          THEN stored' = None /\ Goto(a, next)
          ELSE UNCHANGED stored /\ Goto(a, purging)

\* Mutant: the polling loop has no deadline.
Mut_AfterPoll(r) == "sleep"

\* `while time.time() < deadline`, evaluated after a poll that found nothing.
AfterPoll(r) == IF left[r] > 0 THEN "sleep" ELSE "giveup"

\* The second command: it deletes the key, whatever it holds by now.
Purge(a) ==
    /\ stored' = None
    /\ \/ pc[a] = "purge" /\ Goto(a, "reserve")
       \/ pc[a] = "pollpurge" /\ Goto(a, AfterPoll(a))
       \/ pc[a] = "setpurge" /\ Goto(a, "setnew")
    /\ UNCHANGED <<left, holder, ttl, mine, expired>>

-----------------------------------------------------------------------------
(* _lookup_pin and the branch of _session_pinned_route that follows        *)

LookupMiss(r) ==
    /\ pc[r] = "idle" /\ OnLoop(r)
    /\ GetMisses(r, "reserve", "purge")
    /\ UNCHANGED <<left, holder, ttl, mine, expired>>

\* check_turn_cap: the session has used its turns.
LookupCapped(r) ==
    /\ pc[r] = "idle" /\ OnLoop(r)
    /\ Live(stored) /\ stored.turns >= MaxTurns
    /\ Goto(r, "drop")
    /\ UNCHANGED <<left, holder, ttl, stored, mine, expired>>

\* store.delete: one step in memory, two commands in Redis.
Drop(r) ==
    /\ pc[r] = "drop"
    /\ stored' = None
    /\ IF Backend = "memory"
       THEN DropReservation /\ Goto(r, "reserve")
       ELSE UNCHANGED <<holder, ttl>> /\ Goto(r, "dropres")
    /\ UNCHANGED <<left, mine, expired>>

DropRes(r) ==
    /\ pc[r] = "dropres"
    /\ DropReservation
    /\ Goto(r, "reserve")
    /\ UNCHANGED <<left, stored, mine, expired>>

\* A live pin: _handle_session_hit counts the turn, then puts the pin.
LookupHit(r) ==
    /\ pc[r] = "idle" /\ OnLoop(r)
    /\ r \notin Reclassify
    /\ Live(stored) /\ stored.turns < MaxTurns
    /\ mine' = Mutated(r, [stored EXCEPT !.turns = @ + 1])
    /\ Goto(r, "save")
    /\ UNCHANGED <<left, holder, ttl, stored, expired>>

\* reclassify: the live pin is ignored, not deleted.
LookupReclassify(r) ==
    /\ pc[r] = "idle" /\ OnLoop(r)
    /\ r \in Reclassify
    /\ Live(stored) /\ stored.turns < MaxTurns
    /\ Goto(r, "reserve")
    /\ UNCHANGED <<left, holder, ttl, stored, mine, expired>>

-----------------------------------------------------------------------------
(* acquire_or_wait                                                         *)

\* Mutant: a reservation of someone else is overwritten.
Mut_CanReserve == Backend = "memory" => ~Live(stored)

\* The memory store also refuses when a live pin exists; SETNX only looks at
\* the reservation key.
CanReserve == holder = None /\ (Backend = "memory" => ~Live(stored))

Reserve(r) ==
    /\ pc[r] = "reserve"
    /\ CanReserve
    /\ holder' = r /\ ttl' = TtlTicks
    /\ left' = [left EXCEPT ![r] = WorkTicks]
    /\ Goto(r, IF r \in Quick THEN "release" ELSE "classify")
    /\ UNCHANGED <<stored, mine, expired>>

\* Mutant: the loser classifies for itself instead of waiting.
Mut_ReserveFails(r) ==
    /\ pc[r] = "reserve"
    /\ ~CanReserve
    /\ left' = [left EXCEPT ![r] = WorkTicks]
    /\ Goto(r, "classify")
    /\ UNCHANGED <<holder, ttl, stored, mine, expired>>

ReserveFails(r) ==
    /\ pc[r] = "reserve"
    /\ ~CanReserve
    /\ left' = [left EXCEPT ![r] = WaitTicks]
    /\ Goto(r, "sleep")
    /\ UNCHANGED <<holder, ttl, stored, mine, expired>>

\* The poll finds the winner's pin: _handle_lock_race_won counts the turn.
PollFindsPin(r) ==
    /\ pc[r] = "sleep" /\ OnLoop(r)
    /\ Live(stored)
    /\ mine' = Mutated(r, [stored EXCEPT !.turns = @ + 1])
    /\ Goto(r, "save")
    /\ UNCHANGED <<left, holder, ttl, stored, expired>>

PollMisses(r) ==
    /\ pc[r] = "sleep" /\ OnLoop(r)
    /\ GetMisses(r, AfterPoll(r), "pollpurge")
    /\ UNCHANGED <<left, holder, ttl, mine, expired>>

\* The wait timed out: release the reservation, serve the default level.
GiveUp(r) ==
    /\ pc[r] = "giveup"
    /\ DropReservation
    /\ Goto(r, "forward")
    /\ UNCHANGED <<left, stored, mine, expired>>

-----------------------------------------------------------------------------
(* _create_and_pin_session                                                 *)

ClassifyDone(r) ==
    /\ pc[r] = "classify" /\ OnLoop(r)
    /\ Goto(r, "release")
    /\ UNCHANGED <<left, holder, ttl, stored, mine, expired>>

Release(r) ==
    /\ pc[r] = "release"
    /\ DropReservation
    /\ Goto(r, "put")
    /\ UNCHANGED <<left, stored, mine, expired>>

\* Mutant: the winner uses its classification but does not store the pin.
Mut_PutNewPin(r) ==
    /\ pc[r] = "put"
    /\ mine' = [mine EXCEPT ![r] = [by |-> r, turns |-> 1]]
    /\ Goto(r, "forward")
    /\ UNCHANGED <<left, holder, ttl, stored, expired>>

PutNewPin(r) ==
    /\ pc[r] = "put"
    /\ LET new == [by |-> r, turns |-> 1]
       IN  stored' = new /\ mine' = [mine EXCEPT ![r] = new]
    /\ Goto(r, "forward")
    /\ UNCHANGED <<left, holder, ttl, expired>>

\* The put of a session hit or of a resolved race.
SaveTurn(r) ==
    /\ pc[r] = "save"
    /\ stored' = mine[r]
    /\ Goto(r, "forward")
    /\ UNCHANGED <<left, holder, ttl, mine, expired>>

-----------------------------------------------------------------------------
(* The upstream answer: _post_process_response and the stream's end put    *)
(* the pin back with its token counts; an error answer puts nothing.       *)

FinishWithPut(r) ==
    /\ pc[r] = "forward" /\ OnLoop(r)
    /\ mine[r] # None
    /\ stored' = mine[r]
    /\ Goto(r, "done")
    /\ UNCHANGED <<left, holder, ttl, mine, expired>>

FinishWithoutPut(r) ==
    /\ pc[r] = "forward" /\ OnLoop(r)
    /\ Goto(r, "done")
    /\ UNCHANGED <<left, holder, ttl, stored, mine, expired>>

\* An exception while classifying or forwarding (nothing gives the reservation
\* back); with Redis also the death of a worker between two store calls.
Fail(r) ==
    /\ MayFail /\ OnLoop(r)
    /\ pc[r] \in IF Backend = "memory" THEN {"classify", "forward"}
                 ELSE PCs \ {"idle", "done", "failed"}
    /\ Goto(r, "failed")
    /\ UNCHANGED <<left, holder, ttl, stored, mine, expired>>

-----------------------------------------------------------------------------
(* Calls from outside                                                      *)

Delete(d) ==
    /\ pc[d] = "idle" /\ OnLoop(d)
    /\ stored' = None
    /\ IF Backend = "memory"
       THEN DropReservation /\ Goto(d, "done")
       ELSE UNCHANGED <<holder, ttl>> /\ Goto(d, "delres")
    /\ UNCHANGED <<left, mine, expired>>

DeleteRes(d) ==
    /\ pc[d] = "delres"
    /\ DropReservation
    /\ Goto(d, "done")
    /\ UNCHANGED <<left, stored, mine, expired>>

\* delete_all: the Redis scan skips the reservation keys.
DeleteAll(c) ==
    /\ pc[c] = "idle" /\ OnLoop(c)
    /\ stored' = None
    /\ IF Backend = "memory" THEN DropReservation ELSE UNCHANGED <<holder, ttl>>
    /\ Goto(c, "done")
    /\ UNCHANGED <<left, mine, expired>>

\* set_session on an existing pin changes its level, not its turns.
SetFinds(s) ==
    /\ pc[s] = "idle" /\ OnLoop(s)
    /\ Live(stored)
    /\ mine' = Mutated(s, stored)
    /\ Goto(s, "setput")
    /\ UNCHANGED <<left, holder, ttl, stored, expired>>

SetMisses(s) ==
    /\ pc[s] = "idle" /\ OnLoop(s)
    /\ GetMisses(s, "setnew", "setpurge")
    /\ UNCHANGED <<left, holder, ttl, mine, expired>>

SetNew(s) ==
    /\ pc[s] = "setnew"
    /\ mine' = [mine EXCEPT ![s] = [by |-> s, turns |-> 0]]
    /\ Goto(s, "setput")
    /\ UNCHANGED <<left, holder, ttl, stored, expired>>

SetPut(s) ==
    /\ pc[s] = "setput"
    /\ stored' = mine[s]
    /\ Goto(s, "done")
    /\ UNCHANGED <<left, holder, ttl, mine, expired>>

-----------------------------------------------------------------------------
(* Time, expiry and eviction                                               *)

\* Mutant: reservations have no time to live.
Mut_Tick ==
    /\ \A a \in Actors : pc[a] = "classify" => left[a] > 0
    /\ Backend = "memory" => \A a \in Actors : pc[a] \in Suspended
    /\ \E a \in Actors : pc[a] \in {"sleep", "classify"} /\ left[a] > 0
    /\ left' = [a \in Actors |-> IF left[a] > 0 THEN left[a] - 1 ELSE 0]
    /\ UNCHANGED <<pc, holder, ttl, stored, mine, expired>>

\* No classification outlives the classifier's timeout.
Tick ==
    /\ \A a \in Actors : pc[a] = "classify" => left[a] > 0
    /\ Backend = "memory" => \A a \in Actors : pc[a] \in Suspended
    /\ \/ ttl > 0
       \/ \E a \in Actors : pc[a] \in {"sleep", "classify"} /\ left[a] > 0
    /\ left' = [a \in Actors |-> IF left[a] > 0 THEN left[a] - 1 ELSE 0]
    /\ ttl' = IF ttl > 0 THEN ttl - 1 ELSE 0
    /\ holder' = IF ttl > 1 THEN holder ELSE None
    /\ UNCHANGED <<pc, stored, mine, expired>>

\* The stored pin reaches max_ttl after pinned_at; no touch revives it.
PinExpires ==
    /\ MayExpire
    /\ Backend = "memory" => \A a \in Actors : pc[a] \in Suspended
    /\ Live(stored)
    /\ expired' = expired \cup {stored.by}
    /\ UNCHANGED <<pc, left, holder, ttl, stored, mine>>

\* put of another session while the memory store is full and this one is the
\* least recently used.
Evict ==
    /\ MayEvict /\ Backend = "memory" /\ stored # None
    /\ \A a \in Actors : pc[a] \in Suspended
    /\ stored' = None
    /\ UNCHANGED <<pc, left, holder, ttl, mine, expired>>

-----------------------------------------------------------------------------
RequestStep(r) ==
    \/ LookupMiss(r) \/ LookupCapped(r) \/ LookupHit(r) \/ LookupReclassify(r)
    \/ Purge(r) \/ Drop(r) \/ DropRes(r)
    \/ Reserve(r) \/ ReserveFails(r)
    \/ PollFindsPin(r) \/ PollMisses(r) \/ GiveUp(r)
    \/ ClassifyDone(r) \/ Release(r) \/ PutNewPin(r) \/ SaveTurn(r)
    \/ FinishWithPut(r) \/ FinishWithoutPut(r)

SetterStep(s) ==
    SetFinds(s) \/ SetMisses(s) \/ Purge(s) \/ SetNew(s) \/ SetPut(s)

Step ==
    \/ \E r \in Requests : RequestStep(r) \/ Fail(r)
    \/ \E d \in Deleters : Delete(d) \/ DeleteRes(d)
    \/ \E c \in Clearers : DeleteAll(c)
    \/ \E s \in Setters : SetterStep(s)
    \/ Tick \/ PinExpires \/ Evict

\* What the step did to the reservation, to the pin and to the classifier.
History ==
    /\ robbed' = robbed \cup
        {r \in Requests : holder = r /\ holder' = None /\ pc'[r] \in Working}
    /\ lost' = lost + (IF Live(stored) /\ ~Live(stored)' THEN 1 ELSE 0)
    /\ calls' = calls \cup {r \in Requests : pc'[r] = "classify"}

Next == Step /\ History

\* The event loop runs every coroutine that is ready, and the clock goes on.
Fairness ==
    /\ \A r \in Requests : WF_vars(RequestStep(r) /\ History)
    /\ \A s \in Setters : WF_vars(SetterStep(s) /\ History)
    /\ WF_vars(Tick /\ History)

Spec == Init /\ [][Next]_vars

FairSpec == Spec /\ Fairness
-----------------------------------------------------------------------------
(* Properties                                                              *)

\* Every variable keeps its type; ttl counts down the reservation there is.
TypeOK ==
    /\ pc \in [Actors -> PCs]
    /\ left \in [Actors -> Nat]
    /\ holder \in Requests \cup {None} /\ ttl \in Nat
    /\ (holder = None) <=> (ttl = 0)
    /\ stored \in Pins \cup {None}
    /\ mine \in [Actors -> Pins \cup {None}]
    /\ expired \subseteq Actors
    /\ robbed \subseteq Requests /\ lost \in Nat /\ calls \subseteq Requests

\* The reservation of acquire_or_wait excludes: when two requests classify the
\* same session at once, one of them had its reservation taken away before it
\* was done (by a waiter's timeout, a delete, a turn cap, another winner's
\* release or the reservation's own lapse); reserve never gives it out twice.
ReservationExcludes ==
    \A r, q \in Requests :
        r # q /\ {pc[r], pc[q]} \subseteq Working => r \in robbed \/ q \in robbed

\* With the in-memory store, every classifier call after the first is explained
\* by a reservation taken away, a classification that failed, or a live pin that
\* went away (delete, turn cap, expiry, eviction).
CallsAccounted ==
    Cardinality(calls) <= 1 + Cardinality(robbed) + lost
                            + Cardinality({r \in Requests : pc[r] = "failed"})

\* "At most one classifier call per session even under heavy concurrency."
OneClassifierCall == Cardinality(calls) <= 1

\* No waiter falls back to the default level for want of a pin.
NobodyGivesUp == \A r \in Requests : pc[r] # "giveup"

\* With the in-memory store, the pin one request made is never replaced by the
\* pin of another while it is live, unless a reservation was taken away or a
\* pin was lost before: turns of one session do not change model under way.
PinKept ==
    [][ Live(stored) /\ Live(stored)' /\ stored'.by # stored.by
        /\ {stored.by, stored'.by} \subseteq Requests
        => robbed # {} \/ lost > 0 ]_vars

\* Under the in-memory store with a patient enough wait the protocol is one pin
\* at a time: a request is created or joined where its forwarding begins.
servedBy == [r \in Requests |-> IF mine[r] = None \/ pc[r] \notin {"forward", "done"}
                                THEN None ELSE mine[r].by]

Promise == INSTANCE OnePin
    WITH pin <- IF stored = None THEN None ELSE stored.by

KeepsPromise == Promise!Spec

\* "Drop the pin. The next turn re-classifies.": once the key is empty, only a
\* newly made pin fills it, never one that was dropped before.
DroppedStaysDropped ==
    [][ stored = None /\ stored' # None
        => pc'[stored'.by] # pc[stored'.by] /\ pc[stored'.by] \in {"put", "setput"} ]_vars

\* Nobody waits for ever: each request is served, if only at the default level,
\* or fails, whoever wins, dies, deletes or times out.
EveryRequestEnds == \A r \in Requests : <>(pc[r] \in {"done", "failed"})

\* Crash safety: the reservation of a winner that died is given up in the end.
DeadWinnerLapses ==
    \A r \in Requests : holder = r /\ pc[r] = "failed" ~> holder # r
=============================================================================
