# Smart router: a TLA+ verification project

The router is an OpenAI-compatible proxy (`src/app`, Python, FastAPI/asyncio). It classifies the
first turn of a session into a tier L1..L5, *pins* the session to the tier's model, moves the pin up
on evidence that the tier is too weak, and forwards every turn to an upstream through a fallback
chain with retries, stall detection and a deadline. This directory models the parts of it in which
several requests, timers, workers and failures meet, checks them with TLC on small instances, and
proves the most important invariants with TLAPS for every instance.

Source references are relative to the repository (`app/...` is `src/app/...`).

## 1. Inventory

| Component | State | Operations | Meets | Modelled in |
|---|---|---|---|---|
| First-turn race protocol (`app/session/locks.py`, `_lookup_pin`, `_session_pinned_route`, `_create_and_pin_session` in `app/api/chat.py`) | none of its own: reservation and pin in the store | lookup, reserve, poll, time out, classify, release, put | session store, classifier, every other request of the session | `FirstTurn`, `OnePin` |
| Session stores (`memory_store.py`, `redis_store.py`) | pins by session, reservations with a TTL, LRU order | get, put, delete, delete_all, reserve, release | all routing code, session and admin endpoints | `FirstTurn`, `PinTurns` |
| Session lifecycle (`lifecycle.py`) | expiry and turn count in the pin | turn cap, touch, expiry | lookup | `FirstTurn` |
| Session hit and escalation (`chat.py`, `schemas/router.py`) | the pin's level, score, counts, cooldown, failure mark, retry count | hit, signals, retry with a higher tier, stall recovery, mark and clear | store, upstream, `/signal`, PUT | `PinTurns`, `Levels` |
| Session and admin endpoints (`sessions.py`, `admin.py`) | none | PUT, DELETE, `/signal`, flush | store, beside requests in flight | `FirstTurn`, `PinTurns` |
| IP redaction (`privacy/ip_redaction.py`) | SQLite table (session, address, token) | redact, record, rehydrate, purge | requests of the session, maintenance task, restarts | `IpRedaction` |
| Fallback chain and upstream adapter (`routing/fallback.py`, `providers/openrouter.py`) | none between requests; position, retry, deadline of one | attempt, retry, advance, give up | retry and restream loops of `chat.py` | `FallbackChain` |
| Streaming relay (`_handle_stream`, `guardrails/streaming.py`) | carry, metadata sent, usage, open upstream | relay a chunk, stall, restream, end, break | pin, chain, redaction, guardrails | `StreamRelay`; pin and time in `PinTurns`, `FallbackChain` |
| Configuration (`config/loader.py`, `main.py`, `admin.py`) | settings, mtime, lock, what the components refer to or were built from | poll, read, validate, notify, admin reload | everything that reads settings | `ConfigReload`, `Upkeep` |
| Budget (`telemetry/budget.py`) | daily spend, one reservation per session | check and reserve, reconcile | every forward, under the settings of its arrival | `Budget`, `Upkeep`; its outcomes in `PinTurns` |
| Route policy (`routing/policy.py`, `routing/engine.py`, router options in `chat.py`) | none | parse, clamp, allow-list, refuse | every route | `RoutePolicy`, `RequestPath` |
| Session ids (`session/resolver.py`, `fingerprint.py`) | none | resolve | redaction bucket and pin, at two points of a request | `SessionIdentity`, `RequestPath` |
| Guardrails (`guardrails/`) | none | strip, mask, scan, block, ask the custom guardrail, clean the output | input before everything else, output after the upstream | `Guardrails`, `StreamRelay`, `RequestPath` |
| Temporal awareness (`temporal_awareness/`) | none | resolve each expression, rule by rule | every message of every turn, the session id | `Temporal`, `RequestPath` |
| Classifier and its cache (`classify/`, `cache/`) | learner's samples, cache entries | digest, heuristics, call, parse, confidence, store | first turn | `Classification`, `RequestPath`; its duration in `FirstTurn` |
| Middleware (`middleware/`) | none | authorise, bound | every request | its refusals in `RequestPath` |
| Prompt cache breakpoints, telemetry, read-only endpoints, schemas, scripts | none that routing reads back | | | no: see section 8 |

How they interact: one asyncio event loop per worker. With the in-memory store all requests of a
session share *one pin object* and no store call suspends, so a coroutine runs from one real wait
(timer, classifier, upstream, client) to the next; with Redis there may be several workers, each
request has its own *copy* of the pin, and every store command is a suspension. The redaction
store runs its SQLite statements in worker threads, so requests interleave between any two
statements with either session store.

What is hard here, and what would make each component correct:

* **First turn.** Concurrent first turns, a wait (5 s by default) shorter than the classifier's
  timeout (8 s), a winner that raises or dies with the reservation in hand, pins that vanish between
  lookup and poll. Correct: the reservation excludes; additional classifier calls and replaced pins
  have a cause; every request is answered; a dead winner's reservation lapses.
* **Turns.** Overlapping turns and calls that each take "one tier above what I see", stale copies,
  a retry loop and a restream loop, failures recorded in a pin that is not put. Correct: caps and
  budgets hold over all interleavings, moves keep their distance, the tier goes down only where it is
  meant to, a failure is remembered, the loops end.
* **Redaction.** Read a snapshot, number, then insert one by one, while others do the same, a purge
  deletes by age, or the process restarts. Correct: what was sent as a token comes back as the
  address it stands for, and one address has one token.
* **Relay.** A chunk may be cut anywhere; what is substituted, masked and held back, in which order,
  decides what the client sees of an address or a secret; a stall swaps the upstream under a running
  generator. Correct: the client reads the answer, all of it and once, from one tier, and it ends.
* **Settings.** A thread and an endpoint load the same file while it is being written, in three steps
  each (read, stat, validate), and only one of them tells the components, some parts of which were built
  from the settings of the start. Correct: at rest the settings in force are the file's, and what is
  told of a reload follows them. (That *everything* follows them, as `main.py:124` has it, is false of
  the code: section 6.)
* **Budget.** One entry per session for any number of requests; failures and streams never reconcile;
  midnight falls between the two halves. Correct: the total covers what was paid, and is exact where
  no request met another's reservation.
* **The path of a request.** Screening, dates, policy, session and classification each look at
  another version of the messages and of the limits. Correct: nothing blocked or to be masked goes
  upstream, a date means what the user meant, a conversation is one session, a level is an allowed one.
* **Upstream.** Three nested loops (models, retries, tiers) under a clamp with a one-second floor.
  Correct: chain order, nothing skipped without cause, bounded duration, the right error status.

`PROJECT.json` lists the hazards line by line, each with the properties that watch it or with the
reason why none does.

## 2. Modules

| Module | Extends | What it is |
|---|---|---|
| `Levels` | | the tiers as 1..5, `FromNumeric` with its clamp at both ends, the request's max/min clamp |
| `FirstTurn` | | one session's first turns over either store, beside DELETE, flush and PUT |
| `OnePin` | | the abstract promise: one pin, created once, joined by everyone else |
| `PinTurns` | `Levels` | the turns of a pinned session and everything that moves its tier |
| `IpRedaction` | | one session's redaction table and the requests that use it |
| `FallbackChain` | | one request's way through chains, retries, tiers, stalls and the deadline |
| `StreamRelay` | `SequencesExt` | one streamed answer, chunk by chunk, to the client |
| `ConfigReload` | | the settings file, its two loaders and the components that are told |
| `Budget` | | the daily total, its reservations and the requests that make them |
| `Upkeep` | `ConfigReload`, `Budget` | both together: requests are held to the settings of their arrival |
| `Temporal` | | the calendar, what each kind of expression resolves to, the rules in their order |
| `Guardrails` | | what every scan finds and removes, the block, the custom guardrail's verdict |
| `RoutePolicy` | `Levels` | model directive, router options, policy and engine as functions |
| `SessionIdentity` | | the sources of a session id, the fingerprint |
| `Classification` | | learner, digest, heuristics, parser, confidence policy |
| `RequestPath` | the five above | one conversation, turn by turn, through all of them |
| `MC_*` | the module | small constants for TLC |
| `*Proofs` | the module, `TLAPS` | theorems and proofs |

Each module describes *one* session, request or conversation: what the code keeps across sessions is
the LRU order, which is the action `Evict`, the learner's samples, which other conversations add to in
`RequestPath`, and the settings and the daily spend, which `Upkeep` has.

### FirstTurn

`pc` is where a coroutine stands, one value per await of the code. `holder`/`ttl` are the
reservation; `stored` is the value under the session's key, `mine` the pin a coroutine has in hand.
A pin is a record of who made it and its turn count; "who made it" stands for the model the session
is pinned to, which is what must not change under way. `Mutated` is the aliasing of the memory store:
a change made by one holder is seen by all that hold the same object, stored or not. `OnLoop` is the
event loop: in memory a coroutine may only start a step when no other is between two suspensions.
`Backend` selects the code of the two stores where they differ: `CanReserve` (the memory store also
refuses when a live pin exists, SETNX does not), `Purge` (Redis deletes an expired pin with a second
command), `Drop`/`DropRes`, `DeleteAll` (the Redis scan skips reservation keys).

Time is in ticks, because three durations matter only by their order: `WaitTicks`
(`session.lock_wait_ms`), `WorkTicks` (the classifier's timeout), `TtlTicks`
(`session.lock_reservation_seconds`). `Tick` stops while a classification has used up its time: it never outlasts its timeout.
`Next == Step /\ History`: the history variables `robbed`, `lost` and `calls` record which
reservation was taken from a working request, how often a live pin went away, and who called the
classifier; no action reads them.

### PinTurns

`stored` is the pin in the store and `copy[a]` the copy a coroutine works on with Redis; `Seen`,
`Mutate`, `Put` and `MutateAndPut` hide the difference, so that each action is one translation of the
code for both stores. `Options` is what a request may ask for (forced level, repin, max, min, whether
it streams, what its text's signals weigh). `Dispatch` is the budget's downgrade of one turn, which
does not touch the pin. Signals are abstracted to weight and strength: which regular expression fired
is not told apart, how much it adds and whether it is one of `_STRONG_ESCALATION_SIGNALS` is. `/signal`
reports what its caller likes (`SignalPut`), any weight and any strength. The histories `strongSeen`
and `called` record that strong evidence was seen and that `/signal` has moved the pin to L5.

### IpRedaction

`table` with AUTOINCREMENT ids and two unique constraints; `Redact` is the snapshot with the
numbering that follows it without a suspension, `Record` one `INSERT OR IGNORE` in its own
transaction. A text is the set of its addresses, in any order (`Assignments`). `Rehydrate` restores
one token of an answer chunk. `disturbed` is a history variable: the requests another request's insert
or a purge interfered with.

### FallbackChain

`Failures`, `AttemptFails` and `AttemptSucceeds` are one attempt: any duration up to `Waits`
timeouts, because the HTTP client's timeout bounds each network wait (connect, write, each read) and
not their sum. `AttemptTimeout` has the clamp with its floor of one second. `RetryHigherTier` forwards again and so computes a new
deadline; `StallRecovers` restreams under the old one. `lastError` keeps the kind of the last error
and whether its text has the word "exhausted" in it, because `_handle_non_stream` reads the status
from the text; an upstream error body may have it or not. `FirstWait` is how long the first line of a
stream may take: the stall guard's timeout, or with the guard off (`FirstToken = 0`) whatever the HTTP
client's read timeout allows, in at most `Waits` waits. `StreamBreaks` is a stream that ends by an
exception other than a stall, the read timeout among them: no other tier is tried then.

### StreamRelay

An answer is a sequence of units, small enough that a chunk can end inside a placeholder and inside a
secret: `Chunk` takes any number of the next units. `Relayed` is one call of `_rehydrate_line` with
what `_mask_stream_flush` makes of it, in the code's order: substitute, split off what may still grow
(`HoldsPlaceholder`, `HoldsSecret`), mask the rest. `Done` flushes the carry, `Eof` (no `[DONE]`) does
not. A line of any kind counts as the first token, so `Recoverable` is false after a comment.
`Restream` swaps tier, upstream and answer and empties the carry. `torn` is a history variable: a
chunk ended inside a placeholder before its dash, or inside a number that no row of the table has,
after digits that are the number of a row. `int()` takes a number with any zeros before it; the
answers of the model pad to the router's two digits at most (`PaddingAssumption`).

### ConfigReload, Budget, Upkeep

The file's versions are numbered, and a save may be seen broken or invalid before it is whole. A load
is three steps because the other loader (a thread and a coroutine) and the writer may come between:
`Read` takes the lock, `Stat` remembers the mtime *as it is by then*, `Validate` takes the settings or
leaves the old ones. Only the watcher goes on to `Notify` and to `Tell` the components one by one.
`live` says of each part of the router which settings it works by. What `Tell` changes is the attribute
`config` of the provider adapter, of the classifier and of the temporal engine (`Components`), and
nothing else: the adapter's `FallbackExecutor` and the classifier's digest builder, prompt and key
(`Captured`) were built from the settings of the start and stay so.
`raced` and `adminLast` are history: a write fell between read and stat, and the settings in force
came with the admin call.

`Budget` has the estimate, the reservation (one entry per session: `Reserve` replaces it), the answer
that reconciles (`Serve`, on *today's* total, kept at zero or above) and the requests that never do
(`Leave`: failures, streams, models without a price). `booked`, `paid`, `crossed` and `tangled` are
history. `Upkeep` joins the two: `Arrive` takes the settings in force.

### RequestPath and the modules it extends

`Scripts` are what clients and operators may do: a script fixes a configuration and the sets a client
chooses from each turn (messages, options, days that pass), what classifier, upstream and custom
guardrail may answer. `Ask` sends the whole conversation again, as the client has it; then come
`Screen` (`_preprocess_request` with authorisation and bounds), `Judge` (custom guardrail), `Prepare`
(redaction bucket, then dates), the route (`RefuseRoute`, `PassThrough`, `ClassifyAlone`, the pinned
path), `LookUp` and `ClassifierAnswers`, and `Answer` or `Fail`. Each is a whole handler; what turns
of one session do to each other when they overlap is left to `FirstTurn` and `PinTurns`. So are the
score, the cooldown and the cap of the escalation: where a script has escalation on, any hit of a pin
may be the one whose signals move it (second disjunct of `HitPin`), after and regardless of the
request's bounds, as in the code.

A text is a record of what the code can tell of it: its marks (what a scan would find), its size,
its fences and phrases (heuristics), its tier prefix, a stamp of the day, and the words of a temporal
expression. `Temporal` resolves an expression to ordinals of days and minutes, for every tag of the
dispatch table, and `RulesInOrder` has the rules that share words with one another, in the order of
their regular expressions' lengths; `ProcessMessage` applies them one after the other to what is left.
`Means` in `RequestPath`, against which the result is checked, is a calendar of its own: it says by
properties of the day (the Friday of the week after this one) what the engine computes by steps.

## 3. Runs

| Run | Instance | Question |
|---|---|---|
| `memory` (84 k states) | in memory, 3 requests, wait 1 < work 2 < reservation 3, failures, evictions | every further classifier call and every replaced pin is explained; everybody ends; a dead winner's reservation lapses |
| `redis` (731 k) | Redis, 2 requests, DELETE, flush, PUT, worker deaths, expiry, a turn cap of 2 | whatever else happens, a reservation is not given out twice |
| `patient` (2 k) | in memory, wait 3 > work 2, one reclassify, one quick request, no failures | one classifier call, nobody falls back, and `OnePin` is implemented |
| `turns_memory` (2.4 M) | in memory, 3 turns, `/signal`, PUT, streams, forced tiers, repin, downgrade, refusal | budgets, ceiling, cooldown, failure mark, drops |
| `turns_redis` (128 k) | Redis, 2 turns, `/signal` with weak and strong evidence, start at L4, ceiling L5 | caps of every copy, evidence for L5 or the call that needs none, termination |
| `ipredaction_session` (1.8 M) | 3 requests, 2 addresses, texts that share an address, purge, restart | round trip, stable tokens |
| `fallbackchain_budget` (105 k) | 3 models, 1 retry, 3 tiers, timeout 4, deadline 9, 2 waits | order, nothing skipped, bounded chain and request |
| `streamrelay_cuts` (8 k) | 7 answers cut at every place, masking on and off, 2 tiers, 1 comment | what the client reads is a beginning of the answer, and all of it with `[DONE]`; one tier; every stream ends |
| `upkeep_shared` (1.2 M) | 1 write of any kind, 1 admin reload, 2 requests that may share a session, 2 days, 3 versions of the limits | at rest the settings are complete and only the captured parts are behind; they catch up; the total covers what was paid, and balances |
| `requestpath_conversation` (431 k) | 1611 scripts, each varying one dimension of a plain one; 3 turns | screened, dated, one session and bucket, an allowed level, with a signal that may move any hit |
| `dropped`, `ipredaction_race` | the smallest instance that shows it | two disagreements of section 6 |

Why the bounds are enough for what is asked:

* *Three requests* in the in-memory first turn are the least in which a waiter can take the winner's
  reservation away and a third profit from it; the wait is the shortest that is shorter than the
  classification, and the reservation outlives both, as the defaults do (5 s, 8 s, 30 s).
* Over *Redis* two requests and three outside calls give every pair of a read and a later write of
  the protocol an intruder; a third request multiplies the states by more than a hundred and adds no
  new pair of steps. The turn cap of two makes the cap bite within the run.
* *Three turns* with one retry, two escalations and a cooldown of two reach the retry cap and the
  cooldown, and two of them overlap a third's failure. The escalation cap is reached over Redis,
  where it is one.
* *Two addresses and three requests* suffice for a conflict on the address, one on the token, and a
  reader that sees both; a second text makes the numbering continue from a table with holes.
* *Three models with one retry and a deadline of nine ticks* let the deadline fall before, within
  and after any attempt and any backoff of a chain; a timeout of four ticks and a second of two let
  the clamp, the floor and the full timeout all occur. The stall guard is on in the run; with
  it off, `RequestEndsInTime` has the bound.
* *Seven answers* have a secret or a placeholder at the start, in the middle and at the end, two in one
  answer, one cut short, one whose number no row has, and text that only looks like one; every way to cut them into chunks is a
  behaviour. Two tiers are one recovery, after which the code allows none in this instance.
* *One write* suffices for the races of the reload: the file is new to both loaders, and the write may
  fall between any two of their steps. Two requests with two costs share a session or not, and the one
  midnight may fall at any point of both. `UpkeepProofs` covers the settings for any number.
* *Three turns* are the first, one that hits the pin or the cache, and one after a day has passed or the
  pin has expired. The dates are edges of the calendar (year, leap day, quarter, month, week), one of
  each kind of expression on a leap day. A script varies one dimension, or a few that meet in the code
  (header, body and user id; options and limits; guard settings and marks): the stages hand on only the
  messages, the key and the level, so combinations across dimensions meet nowhere else.
  `RequestPathProofs` covers all scripts for screening, levels, types and sessions, `DatesProofs` all
  days of the calendar.

Symmetry is used for interchangeable requests in runs of state and action invariants only, never
where liveness is checked. Deadlock checking is off everywhere because each instance serves a finite
number of requests and then stops; where stopping early would be a fault, `EveryRequestEnds` and
`EveryTurnEnds` say so.

## 4. Fairness

`FirstTurn` and `PinTurns` assume weak fairness of each request's (each call's) next step and, in
`FirstTurn`, of the clock. Justification: asyncio resumes every coroutine that is ready; sleeps and
classifier calls are bounded by timers; an upstream attempt is bounded by the HTTP client's timeouts
and a stream by the stall guard. `StreamRelay` assumes it of `Progress`: a finite answer goes on, or
the guard's timeouts find it stalled; comments and the client's leaving are not part of it. `Upkeep`
assumes it of the watcher thread, which polls for ever, and of an admin load that has begun. Nothing
is assumed about failures, expiry, eviction, writes or the calls from outside: they may or may not
happen. No strong fairness is used.

## 5. What is proved

For every value of the constants that meets the modules' named assumptions:

* `FirstTurnProofs!TypeCorrect`, `Exclusion`: `ReservationExcludes` for any number of requests and
  calls, both stores. The inductive invariant `HolderWorks` says that a request that is working
  either is the holder or has been robbed; with it exclusion is immediate because there is one
  holder. It is needed because exclusion alone does not say whose reservation the store has.
  `HandOver` is the lemma about steps: a holder changes only to nobody, and nobody starts to work
  without becoming holder. `CallsAreAccounted` (in memory): every classifier call beyond the first
  has an event that explains it; the invariant counts one call in advance while a live pin or
  a winner at work stands for it (`Credit`). `PinIsKept` (in memory): until a reservation was taken
  away or a live pin lost, no request's pin takes the place of another's. What carries it (`OneMaker`)
  is that one request at a time is on its way to a pin and none once a request has made one; who sets
  out must have found neither a holder nor a live pin, which is `HolderWorks` again.
* `PinTurnsProofs!TypeCorrect`, `CapsHold`, `MemoryBudgets`: all actions share a shape (`StepChanges`):
  the acting coroutine derives one pin from the one it sees, and each counter moves by at most one, under
  its cap and with its history. `PinsCapped` is inductive with types alone. `BudgetsKept` is
  not: it needs `MovesCounted`, that the histories equal the pin's counters, which holds in memory
  only, so the theorem assumes `Backend = "memory"`. `CeilingHolds` assumes that requests and calls ask
  for tiers inside the ceiling (`AskedInside`) and holds for both stores; `MemoryRemembers` is
  `FailureRemembered`, in memory, where the mark is set in the object everybody shares.
  `TopTierIsEarned` (both stores) needs of every *copy* of the pin that it is below the top until strong
  evidence was seen or `/signal` has moved it, since any of them may be put back. It assumes that the
  session is not pinned, set or repinned to L5 from outside (`NoTopFromOutside`), and nothing of what
  `/signal` reports: the endpoint has no guard of its own, so its move is one of the two reasons the
  theorem allows. `CooldownIsKept` and
  `DropsAreExplained` are action properties, in
  memory: the first needs that the pin's `until` is its last move plus the cooldown (`CooldownNoted`);
  the second goes through what each coroutine does to the level it sees.
* `IpRedactionProofs!TypeCorrect`, `RoundTrips`, `Stability`: the invariant says of every undisturbed
  request that what it has recorded is in the table and what it has yet to record conflicts with
  nothing in it. It also gives the unique constraints as an invariant and not an assumption.
* `FallbackChainProofs!TypeCorrect`, `OrderHolds`, `NothingIsSkipped`, `EndsInTime`, `RequestEndsInTime`:
  `Standing` says what has been tried when the chain stands at a model; `AttemptBound` is the arithmetic
  of the overrun, with the one-second floor and any number of network waits. The bound of the whole
  request adds up one budget per forward, which needs that the deadline itself is inside them, and one
  wait for a first line (`FirstWait`), with the stall guard on or off. The last rests on a wait taking
  at most `Waits` read timeouts: a server that sends a byte before each of them ends, and never a line,
  is outside it.
* `UpkeepProofs!TypeCorrect`, `ReloadIsComplete`: `ReloadComplete` speaks of a router at rest, of the
  settings in force and of every part but those built at the start, which do not follow (section 6); the
  invariant says of each place a loader can be at what it holds there (the lock from read to validation,
  the file as it is unless a write came between) and which components have been told.
  `SpendIsCovered`, `BooksAreBalanced`: the day's total for any number of requests and sessions. That
  the total covers what was paid is not inductive, because an answer takes its session's reservation
  off; `Covered` has the total cover what was paid *and* what is reserved and will still be taken off,
  `ReservationsHeld` says that each reservation is what one request of its session booked, and
  `OwnReservation` whose, where no two met.
* `RequestPathProofs!MessagesAreScreened`, `LevelsAreAllowed`, `TypesHold`, `SessionsAreStable`: for
  conversations of any length, any scripts whose texts and options have their types (`ScriptsTyped`,
  which the scripts of the run have).
  The history is what the client wrote or what the router answered; `CleanInput` is shown to remove
  from any marks what must go, including what only stripping brings out, and everything after it keeps
  the marks. The levels follow the clamps of the three paths, with every pin's level inside 1..5
  (`HitLevels` for a hit, which stays where the bounds put it unless a signal moves it; then the global
  ceiling is all that is claimed).
  `SessionStable` is that all sessions a conversation ever had are one, and all its redaction buckets,
  if it is named, or keeps its head (system text and first user text) from turn to turn and, for the
  session, has no dates in it. It is proved by naming that session beforehand (`TheSession`) and
  showing of each request that its head is the script's (`HeadInv`: stamped by the client, cleaned by
  the screening), whatever else the history has grown by. `TypesHold` has the alternation of the sides, one
  pin per session and the learner's bound; it assumes that the bound is a number (`SamplesTyped`).

* `FirstTurnProofs!OneCall`, `AllArePatient`, `PromiseKept`: when the promise of section 4.10 is kept as
  written, and `FirstTurn` implements `OnePin`, for any number of requests. The assumption `Patient` is
  the point of it: the in-memory store, a wait and a reservation that both outlive the classifier, no
  call from outside, no failure, expiry or eviction, and no more requests than the turn cap. (With the
  defaults the wait of 5 s is shorter than the classifier's 8 s.) The invariant has one part
  per reason: whoever waits has a winner with less time to go (`Awaited`), the reservation outlasts the
  winner (`OneWinner`), whoever holds a pin holds the stored one's (`PinShared`), and the pin's turns
  are at most the requests that counted one (`TurnsCounted`), so the cap is not met.
* `StreamRelayProofs!OneTierOnly`: `OneTierAnswers` for any answers and any number of tiers and chunks.
  `TypesHold`: the client reads units of the answer, addresses and redaction marks, the carry is text
  that was never masked, and the closing lines are in order. It rests on what replacing parts of a
  text returns (`ReplaceTyped`), for a text of any length.
* `StreamRelayProofs!AnswersAreWhole`: `RelayedWhole` for any answers, of any length, cut anywhere, on any
  number of tiers. Until a chunk ends where `Tears` says, the client has read exactly what it should
  read of the whole answer, except for what it should read of the carry followed by what is still to
  come (`RelayedSoFar`, the first part of the invariant). That alone does not survive a chunk: the carry is
  put before the next chunk and rehydrated again. So the invariant also has what the carry is: it holds
  no placeholder any more (`Free`), and where it ends without an address it ends as what has come of
  the answer does (`TailOf`), so that the next chunk completes in the carry just what it completes in
  the answer. The step is one fact about texts, that the
  two rewritings commute with cutting where nothing is held back: rehydrating, and then masking, a
  text up to such a place and from there on gives what the whole text gives.
* `DatesProofs!PhrasesAreDatedRight`, `DatesAreRight`: `DatesRight` for conversations of any length, on
  any days, whose dated texts are the phrases of the run (`KnownTexts`): those that `Means` gives a
  meaning (days, weekdays, times of the clock, weeks, weekends, months, quarters, years, seasons), with
  whatever weekday, hour, minute or direction their patterns captured, and one expression of every other
  kind (`OtherTags`), of which `DatesRight` asks only that one value is made. The clock starts on a day
  of the calendar and is not set back by a day (`CalendarScripts`; the run's days are in 2023 to 2025).
  * Of the engine: the fold over the 40 rules of `rules.py` is unrolled one rule at a time. No rule
    before the first that fits has all its words in the phrase (each table's rules are told apart by
    words all their phrases have, `TimeDemands` and the like); the first that fits replaces the phrase
    whole; no later rule finds a word in what is left.
  * Of the handlers: for weekdays and weeks the day they reach is arithmetic modulo 7, for the clock
    modulo 12 hours. For the rest the calendar is reasoned about: months are counted from January of the
    year 0 (`FirstOf`), each begins where the one before ends (`MonthFollows`), years grow with their
    leap days, every day is in one month (`MonthExists`, by the least later month), and the year and
    month that `YearOf` and `MonthOf` choose are that one's (`InMonthIs`). Then "the first of the next
    month" by adding 32 days, a quarter's end month by month, and a season's end by adding 89 days all
    reach the months that are meant. A handler that sets the year of a day the year has not raises, and
    the request ends with 500 before anything is sent (`YearLands`, `QuarterLands`, `Prepare`).
  * Of the conversation: `DateInv` has every message datable, whenever it was said, and the ones of a
    request dated by its day from `Prepare` until the next turn begins. (`RightIfTextsAre`, on the way,
    needs of the texts only that each alone is dated right.)

Every property proved is also checked by a run on a small instance.

Where a proof needs induction over a finite set or a number, it takes a smallest counterexample: the
library's theorem that a well-founded relation has minimal elements has no operator parameter, and the
strict-subset order on the subsets of a finite set is well-founded. `UpkeepProofs` has the sums over
sets of requests this way, `RequestPathProofs` the least index of a role, `StreamRelayProofs` the
concatenation of a sequence's pieces.

Only model-checked: all liveness (`EveryRequestEnds`, `DeadWinnerLapses`, `EveryTurnEnds`,
`EveryStreamEnds`, `CatchesUp`), which TLAPS does not reach.

## 6. Where the code and its documents disagree

With a run:

1. `dropped`: DELETE "drops the pin" (`llm-smart-router-spec.md:268`); a request in flight puts it back
   with its answer.
2. `ipredaction_race`: `record` is called race-safe (`ip_redaction.py:141`); two requests that number new
   addresses at once send the same token for different addresses, and one reads the other's back.

Visible in the modules, without a run of their own. Sessions:

* Spec :522 promises at most one classifier call per session; `acquire_or_wait` releases the reservation
  when the *waiter's* time is up, whoever holds it (`locks.py:41`). `memory` has the second call,
  `patient` the timing under which the promise holds.
* "Within a session, tiers only ever move up" (:599); a stall recovery takes its tier from the turn's
  route, which may have been forced or downgraded below the pin, and writes it into the pin
  (`chat.py:1717`). `DropsExplained` has it as one of the reasons.
* Over Redis the winner releases its reservation before it puts its pin (`chat.py:944`): a request that
  looked the pin up earlier may reserve in between and classify again.
* `reclassify` (spec:192) does not discard the pin: `LookupReclassify` ignores it, after which the memory
  store refuses the reservation because of that pin (`chat.py:1003`). The turn is then served at the
  pin's level without the request's bounds (`chat.py:863`), although :227 has them "re-applied on every
  turn": `LevelAllowed` leaves this path (`RaceWon`) out.
* Requests that waited for the winner add turns without the turn-cap check (spec:504).
* "A caller's cost cap is never breached by escalation" (spec:670, and :2082); the signals are evaluated
  after `max_level` was applied and take the turn above it (`chat.py:796`): `LevelAllowed` promises such a
  turn the global ceiling only. `respect_max_level`, `never_downgrade` and `explicit_signals_enabled` are
  never read.
* "L5 must require stronger evidence" (`tests/test_escalation_tuning.py:216`, and the guard at
  `chat.py:1119`); `/signal` moves a pin without that guard (`sessions.py:114`), which is why
  `TopTierOnEvidence` has it as a reason of its own.
* A failed L5 turn is retried at L5: `from_numeric` clamps (`chat.py:1195`). `/signal` accepts
  negative weights.
* Over Redis the failure mark is set in a copy that is never put (`chat.py:1161`), and two overlapping
  turns may each spend the session's last retry: hence `PinsCapped` and not `BudgetsKept` there.
* The reservation of a winner that raises stays until its TTL; `delete_all` over Redis leaves reservations.
* A PUT made while the first turn classifies is overwritten by the winner's pin.

Upstream and stream:

* A retry with a higher tier gets a fresh deadline (`chat.py:1392`), though `schema.py:157` calls it a
  budget "for one client request across the WHOLE fallback chain": `RequestBounded` states what the
  code does, one budget per forward.
* Exhausted fallbacks should give 502 (:300), timeouts 504 (:302); the status is read from the wording
  of the last error (`chat.py:1484`), and an upstream's HTTP error at the end of a chain is a 504.
* "Placeholders split across SSE chunks still re-hydrate via the carry buffer" (:1560); a chunk that ends
  in the middle of the word, before the dash, is flushed (`chat.py:1860`), and one that ends inside a
  number no row of the table has is rehydrated by the digits that have come, if a row has those (`12`
  of `125`): the exceptions `torn` of `RelayedWhole`. The carry is lost when the stream ends without `[DONE]`.
* A client that disconnects leaves the upstream open; the `X-Router-Level` header keeps the tier the
  request began with after a restream; keep-alive comments end the watch for a stall.
* Streams of the passthrough path are neither re-hydrated, masked nor under a deadline (`chat.py:2227`).

Settings and budget:

* The reload callback is to "update components that captured startup settings" (`main.py:124`), the
  provider's "base_url, timeout, headers" (`:128`). It replaces an attribute of the adapter; the headers
  follow, but the executor that makes the calls keeps its own reference (`openrouter.py:29`,
  `fallback.py:25`), and with it timeout, retries, backoff, retry_on_status and the base_url of tiers that
  name none, until the next start. So do the classifier's digest builder, prompt and key
  (`classifier.py:33-59`). `ReloadComplete` excepts these parts (`Captured`).
* The callback "ensures /admin/settings/reload actually affects runtime behavior" (`main.py:125`; spec:2017
  promises it of temporal awareness); `reload_settings` calls no callback, and remembers the mtime so that
  the watcher does not either. `ReloadComplete` excepts settings that came this way (`adminLast`).
* A write between a load's read and its `getmtime` is never loaded (`loader.py:66`); a file that fails
  validation is not tried again until it changes.
* The output guardrail's settings are the defaults (`main.py:167`), although the comment above says that
  "Config is re-read per request".
* Requests that fail or stream keep their estimate in the day's total; overlapping requests of a session
  share one entry; a reservation of yesterday is taken off today's total.

A request's path:

* The global ceiling is not applied to a pinned session's classified, prefixed or directive levels; a
  request's `min` above it goes over it; a default level outside the global range forces every request.
* Spec:365 serves an opening without a signal at the default level and leaves it unpinned; the code pins
  it, provisionally, at the unknown level.
* The redaction bucket is found before the messages are dated, the session after: with a fingerprint
  the two differ on another day (`SessionStable` says when they do not).
* "yesterday night", "first thing tomorrow", "day tomorrow" and "half past 3 pm" come out wrong, because
  a rule for a part of the phrase has the longer regular expression (`rules.py:262`): the run leaves
  these phrases out. "earlier today" shortly after midnight is yesterday; last and next year, and the last
  quarter, raise on a leap day, which ends the request with 500 (`Raised`).
* Every turn dates the whole history again. Content blocks are dated in a copy that is thrown away.
* A custom guardrail with an image as the last message raises (500); its rejection is delivered as
  an answer, so that the next short message counts as a follow-up.

## 7. What is left

1. The classification cache's TTL, eviction and equal digests in flight, composed with `FirstTurn`.
2. Several choices in one streamed chunk, and tokens that look like a Telegram token in the making.
3. `RequestPath` composed with `PinTurns`: `RequestPath` lets any hit escalate where a script allows it,
   without the score that decides, and has no overlapping turns of one conversation.
4. Numbers of placeholders with more zeros before them than the router writes (`012` for row 12), which
   the regular expression and `int()` accept.
5. The captured parts one by one: `Captured` tells apart who keeps the settings of the start, not which
   field of them a later request reads.

## 8. Not modelled, and why

* *What the patterns match*: the guardrails', the heuristics' and the tier prefix's regular expressions,
  homoglyphs and the layout of dates. They are functions of one text; a text of the models carries what
  they would find. Seconds and time zones of the dates.
* *Prompt-cache breakpoints, schemas, payload building*: pure rewriting of one request.
* *Single parameters' bounds, request ids, the error handler*: each looks at one request and refuses it
  or passes it on.
* *Pricing and `list_models`*: a price enters the budget as an estimate.
* *Telemetry, read-only endpoints, scripts*: write-only or read-only with respect to the state that
  routing depends on.
* *purge_session*, *get_or_create_placeholder*, *apply_config_change*, *should_reclassify_on_turn*:
  never called from the program.
