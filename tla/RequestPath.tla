---------------------------- MODULE RequestPath ----------------------------
(***************************************************************************)
(* One conversation on its way through the router                          *)
(* (chat_completions in app/api/chat.py): authorisation, bounds and        *)
(* guardrails, IP redaction's bucket, temporal awareness, the route        *)
(* policy, the session and its pin, the classification, the answer.        *)
(*                                                                         *)
(* The client keeps the conversation and sends all of it every turn, as    *)
(* it wrote it; days may go by between two turns.  What turns of one       *)
(* session do to each other when they overlap is in FirstTurn and          *)
(* PinTurns, what happens upstream in FallbackChain and StreamRelay.       *)
(***************************************************************************)
EXTENDS Temporal, Guardrails, RoutePolicy, SessionIdentity, Classification

CONSTANTS
    Scripts,        \* what the client may do and how the router is configured
    MaxTurns,       \* how many requests the client sends
    MaxMessages,    \* MAX_MESSAGES
    MaxTextSize     \* MAX_MESSAGE_TEXT_BYTES

ASSUME BoundsAssumption == {MaxTurns, MaxMessages, MaxTextSize} \subseteq Nat \ {0}

VARIABLES
    script,      \* the script of this behaviour
    now,         \* the day and minute of the latest request
    turn,        \* how many requests were sent
    phase,       \* where the request is
    status,      \* the status of the latest reply, 0 before it
    history,     \* the messages of the conversation, as the client has them
    opts,        \* what the request asks of the router
    request,     \* the messages of the request, as far as it has come
    bucket,      \* the key of its IP redaction
    cacheKey,    \* <<digest>> if the classification goes into the cache
    pins,        \* the pins of the session store
    cache,       \* the classification cache
    samples,     \* what the prefix learner has seen
    sent,        \* the route of the latest request, and what the provider is sent
    sessions,    \* the session ids the turns were given
    buckets      \* the buckets they were redacted in

client == <<script, now, turn, opts>>
stores == <<pins, cache, samples>>
ids == <<sessions, buckets>>
vars == <<client, phase, status, history, request, bucket, cacheKey, stores, sent, ids>>

Phases == {"client", "arrived", "judging", "admitted", "routing", "classifying", "sending"}
Paths == {"none", "passthrough", "stateless", "hit", "escalated", "race", "pinned"}

NotSent == [path |-> "none", level |-> NoLevel, messages |-> <<>>]

User(text) == [role |-> "user", text |-> text]
System(text) == [role |-> "system", text |-> text]
Assistant(text) == [role |-> "assistant", text |-> text]

\* What an assistant message that says something with these marks looks like.
Said(marks) == [script.opening EXCEPT !.topic = "answer", !.marks = marks, !.size = 60,
                !.fences = 0, !.phrases = {}, !.prefix = NoLevel, !.blocks = FALSE,
                !.words = <<>>]

Init ==
    /\ script \in Scripts
    /\ now = script.start
    /\ turn = 0
    /\ phase = "client"
    /\ status = 0
    /\ history = <<>>
    /\ opts \in script.options
    /\ request = <<>>
    /\ bucket = NoSession
    /\ cacheKey = <<>>
    /\ pins = {}
    /\ cache = {}
    /\ samples = <<>>
    /\ sent = NotSent
    /\ sessions = {}
    /\ buckets = {}

-----------------------------------------------------------------------------
(* The client                                                              *)

\* The next message: the opening, or a follow-up some days later.  An agent
\* may put the date in its system message.
Ask ==
    /\ phase = "client" /\ turn < MaxTurns
    /\ \E days \in script.days, o \in script.options,
          text \in (IF history = <<>> THEN {script.opening} ELSE script.followups) :
          /\ now' = [now EXCEPT !.day = @ + days]
          /\ opts' = o
          /\ history' = Append(history, User(text))
    /\ LET system == [script.system EXCEPT !.stamp = IF script.stamped THEN now'.day ELSE 0]
       IN  request' = <<System(system)>> \o history'
    /\ turn' = turn + 1
    /\ phase' = "arrived"
    /\ status' = 0
    /\ sent' = NotSent
    /\ UNCHANGED <<script, bucket, cacheKey, stores, ids>>

\* The request is over; an answer joins the conversation, an error leaves the
\* client without the message it sent.
Reply(code, answer) ==
    /\ phase' = "client"
    /\ status' = code
    /\ history' = IF answer = <<>> THEN SubSeq(history, 1, Len(history) - 1)
                  ELSE history \o answer
    /\ request' = <<>>
    /\ bucket' = NoSession
    /\ cacheKey' = <<>>

Refuse(code) == Reply(code, <<>>)

-----------------------------------------------------------------------------
(* _preprocess_request                                                     *)

Cleaned(messages) ==
    [i \in DOMAIN messages |->
        [messages[i] EXCEPT !.text.marks = CleanInput(@, script.guard)]]

\* The custom guardrail is to be asked, or nothing stands in the way.
Undecided == 102
Passed == 200

\* The checks in their order: an error, or how the request goes on.
Admission(cleaned) ==
    LET custom == script.custom
    IN  IF script.auth /\ script.key # "valid" THEN 401
        ELSE IF \/ Len(request) > MaxMessages
                \/ \E i \in DOMAIN request : request[i].text.size > MaxTextSize THEN 422
        ELSE IF Blocked({cleaned[i].text.marks : i \in DOMAIN cleaned}, script.guard) THEN 400
        ELSE IF \/ ~custom.enabled
                \/ custom.skip /\ IsShortFollowup(cleaned, custom.limit) THEN Passed
        ELSE IF PayloadRaises(cleaned, custom.scope) THEN 500
        ELSE Undecided

Screen ==
    /\ phase = "arrived"
    /\ LET cleaned == Cleaned(request)
           code == Admission(cleaned)
       IN  \/ /\ code \notin {Undecided, Passed}
              /\ Refuse(code)
           \/ /\ code \in {Undecided, Passed}
              /\ phase' = IF code = Undecided THEN "judging" ELSE "admitted"
              /\ request' = cleaned
              /\ UNCHANGED <<status, history, bucket, cacheKey>>
    /\ UNCHANGED <<client, stores, sent, ids>>

\* A rejection is delivered as an answer or as an error.
Rejection ==
    \/ script.custom.delivery = "reply" /\ Reply(200, <<Assistant(Said({"refusal"}))>>)
    \/ script.custom.delivery = "error" /\ Refuse(400)

Judge ==
    /\ phase = "judging"
    /\ \E answer \in script.decisions :
          \/ /\ Verdict(answer, script.custom) = "yes"
             /\ phase' = "admitted"
             /\ UNCHANGED <<status, history, request, bucket, cacheKey>>
          \/ /\ Verdict(answer, script.custom) = "no"
             /\ Rejection
    /\ UNCHANGED <<client, stores, sent, ids>>

\* process_messages; content of blocks is dated in a copy only.
Dated(message) ==
    IF /\ script.temporal /\ message.role \in {"system", "user"}
       /\ message.text.words # <<>> /\ ~message.text.blocks
    THEN [message EXCEPT
            !.text.values = Values(ProcessMessage(message.text.words, message.text.e, now))]
    ELSE message

\* _redact_incoming and _process_temporal_awareness
Raises(messages) ==
    \E i \in DOMAIN messages : \E k \in DOMAIN messages[i].text.values :
       messages[i].text.values[k] = Raised

Redact(key) == buckets' = IF key = NoSession THEN buckets ELSE buckets \cup {key}

Prepare ==
    /\ phase = "admitted"
    /\ \E key \in {IF script.privacy THEN ResolveSession(request, script, script.session)
                    ELSE NoSession},
          dated \in {[i \in DOMAIN request |-> Dated(request[i])]} :
          /\ Redact(key)
          /\ \/ /\ Raises(dated)
                /\ Refuse(500)
             \/ /\ ~Raises(dated)
                /\ phase' = "routing"
                /\ request' = dated
                /\ bucket' = key
                /\ UNCHANGED <<status, history, cacheKey>>
    /\ UNCHANGED <<client, stores, sent, sessions>>

-----------------------------------------------------------------------------
(* The route                                                               *)

Mode == ModeOf(opts.model)
Forced == IF Mode = "level" THEN DirectiveLevel[opts.model]
          ELSE ForcedByPolicy(opts, script.routing)
Allowed == ~BadOptions(opts) /\ Policy(opts, script.routing).status = 200

SessionId == ResolveSession(request, script, script.session)
PinsHere == {pin \in pins : pin.id = SessionId}

Stateless == Mode \in {"stateless", "auto", "level"}
                /\ (Mode = "stateless" \/ opts.stateless \/ ~script.session.enabled
                      \/ SessionId = NoSession)
Pinned == Allowed /\ Mode \in {"auto", "level"} /\ ~Stateless

Send(path, level, messages) ==
    /\ phase' = "sending"
    /\ sent' = [path |-> path, level |-> level, messages |-> messages]
    /\ request' = messages
    /\ UNCHANGED <<status, history>>

\* enforce_route_policy, parse_model_directive
RefuseRoute ==
    /\ phase = "routing"
    /\ \/ BadOptions(opts) /\ Refuse(400)
       \/ /\ ~BadOptions(opts)
          /\ LET code == Policy(opts, script.routing).status IN code # 200 /\ Refuse(code)
       \/ /\ Allowed /\ Mode = "passthrough"
          /\ ~PassthroughAllowed(opts.model, script.routing)
          /\ Refuse(400)
    /\ UNCHANGED <<client, stores, sent, ids>>

PassThrough ==
    /\ phase = "routing" /\ Allowed /\ Mode = "passthrough"
    /\ PassthroughAllowed(opts.model, script.routing)
    /\ Send("passthrough", NoLevel, request)
    /\ UNCHANGED <<client, bucket, cacheKey, stores, ids>>

\* _stateless_classify_and_forward is not given the redaction key; _classify_only
\* sends nothing.
ClassifyAlone ==
    /\ phase = "routing" /\ Allowed
    /\ Stateless \/ Mode = "classify_only"
    /\ phase' = "classifying"
    /\ bucket' = NoSession
    /\ UNCHANGED <<client, status, history, request, cacheKey, stores, sent, ids>>

WithId == sessions' = sessions \cup {SessionId}

Relevel(pin, level) == (pins \ {pin}) \cup {[pin EXCEPT !.level = level]}

\* _handle_session_hit.  After the bounds of the request come the free signals,
\* which move the pin one tier up and the request with it, whatever its bounds.
\* The score, the cooldown and the cap are in PinTurns; here any hit may be the
\* one that moves.
HitPin ==
    /\ phase = "routing" /\ Pinned /\ ~opts.reclassify
    /\ \E pin \in PinsHere :
          LET wanted == IF Forced # NoLevel THEN Forced ELSE pin.level
              kept == IF Forced # NoLevel /\ opts.repin THEN Forced ELSE pin.level
              above == FromNumeric(kept + 1)
          IN  \/ /\ pins' = Relevel(pin, kept)
                 /\ Send("hit", Clamp(wanted, opts.max, opts.min), request)
              \/ /\ script.escalation /\ above <= script.routing.globalMax
                 /\ pins' = Relevel(pin, above)
                 /\ Send("escalated", above, request)
    /\ WithId
    /\ UNCHANGED <<client, bucket, cacheKey, cache, samples, buckets>>

\* _handle_lock_race_won: a pin that is there refuses the reservation, also the
\* one a reclassification is to replace.
RaceWon ==
    /\ phase = "routing" /\ Pinned /\ opts.reclassify
    /\ \E pin \in PinsHere : Send("race", pin.level, request)
    /\ WithId
    /\ UNCHANGED <<client, bucket, cacheKey, stores, buckets>>

\* What _create_and_pin_session does once the level is known.
Pin(level, reason, messages) ==
    LET effective == Clamp(level, opts.max, opts.min)
    IN  /\ pins' = {pin \in pins : pin.id # SessionId}
                     \cup {[id |-> SessionId, level |-> effective,
                            provisional |-> reason = "UNKNOWN"]}
        /\ Send("pinned", effective, messages)

Unpinned == phase = "routing" /\ Pinned /\ PinsHere = {}

PinForced ==
    /\ Unpinned /\ Forced # NoLevel
    /\ Pin(Forced, "forced", request)
    /\ WithId
    /\ UNCHANGED <<client, bucket, cacheKey, cache, samples, buckets>>

\* _detect_tier_prefix: the first user message, if its content is a string.
FirstUser == CHOOSE i \in UserAt(request) : \A j \in UserAt(request) : i <= j
PrefixLevel ==
    IF script.prefix /\ ~request[FirstUser].text.blocks THEN request[FirstUser].text.prefix
    ELSE NoLevel

\* The prefix goes if something remains of the message.
PinPrefix ==
    /\ Unpinned /\ Forced = NoLevel /\ PrefixLevel # NoLevel
    /\ LET first == request[FirstUser]
           stripped == IF first.text.size > 3 THEN [first EXCEPT !.text.prefix = NoLevel]
                       ELSE first
       IN  Pin(PrefixLevel, "prefix", [request EXCEPT ![FirstUser] = stripped])
    /\ WithId
    /\ UNCHANGED <<client, bucket, cacheKey, cache, samples, buckets>>

\* _classify_and_pin: the digest is looked up, and kept for the result.
LookUp ==
    /\ Unpinned /\ Forced = NoLevel /\ PrefixLevel = NoLevel
    /\ LET bypassed == opts.bypass \/ ~script.classify.cache
           seen == Learn(request, samples, opts.task, script.classify.samples)
           digest == Digest(request, seen, opts.task)
           found == {entry \in cache : entry.digest = digest}
       IN  \/ /\ bypassed
              /\ phase' = "classifying"
              /\ UNCHANGED <<status, history, request, cacheKey, stores, sent>>
           \/ /\ ~bypassed /\ found = {}
              /\ phase' = "classifying"
              /\ cacheKey' = <<digest>>
              /\ samples' = seen
              /\ UNCHANGED <<status, history, request, pins, cache, sent>>
           \/ /\ ~bypassed
              /\ \E entry \in found : Pin(entry.level, entry.reason, request)
              /\ samples' = seen
              /\ UNCHANGED <<cacheKey, cache>>
    /\ WithId
    /\ UNCHANGED <<client, bucket, buckets>>

\* The digest is made again; meanwhile the learner may have seen other ones.
ClassifierAnswers ==
    /\ phase = "classifying"
    /\ samples' = Learn(request, samples, opts.task, script.classify.samples)
    /\ \E answer \in script.outcomes :
          LET outcome == Classify(Digest(request, samples', opts.task), script.jsonMode,
                                  answer, script.classify)
          IN  \/ /\ Mode = "classify_only"
                 /\ Refuse(200)
                 /\ UNCHANGED <<pins, cache, sent>>
              \/ /\ Stateless
                 /\ Send("stateless",
                         EngineResolve(outcome.level, opts.max, opts.min, script.routing),
                         request)
                 /\ UNCHANGED <<bucket, cacheKey, pins, cache>>
              \/ /\ Pinned
                 /\ Pin(outcome.level, outcome.reason, request)
                 /\ cache' = cache \cup {[digest |-> cacheKey[k], level |-> outcome.level,
                                          reason |-> outcome.reason] : k \in DOMAIN cacheKey}
                 /\ UNCHANGED <<bucket, cacheKey>>
    /\ UNCHANGED <<client, ids>>

-----------------------------------------------------------------------------
(* The answer and the world                                                *)

\* The answer is cleaned before the client has it.
Answer ==
    /\ phase = "sending"
    /\ \E marks \in script.answers :
          Reply(200, <<Assistant(Said(CleanOutput(marks, script.guard)))>>)
    /\ UNCHANGED <<client, stores, sent, ids>>

\* No tier answers.
Fail ==
    /\ phase = "sending"
    /\ Refuse(502)
    /\ UNCHANGED <<client, stores, sent, ids>>

\* The pin's time is over.
Expire ==
    /\ phase = "client" /\ pins # {}
    /\ pins' = {}
    /\ UNCHANGED <<client, phase, status, history, request, bucket, cacheKey, cache, samples,
                   sent, ids>>

\* Another conversation is classified while this one waits.
OtherConversation ==
    /\ phase = "classifying"
    /\ \E text \in script.others :
          samples' = Learn(<<System(text)>>, samples, [text EXCEPT !.size = 0],
                           script.classify.samples)
    /\ UNCHANGED <<client, phase, status, history, request, bucket, cacheKey, pins, cache,
                   sent, ids>>

Next ==
    \/ Ask \/ Screen \/ Judge \/ Prepare
    \/ RefuseRoute \/ PassThrough \/ ClassifyAlone
    \/ HitPin \/ RaceWon \/ PinForced \/ PinPrefix \/ LookUp \/ ClassifierAnswers
    \/ Answer \/ Fail \/ Expire \/ OtherConversation

Spec == Init /\ [][Next]_vars

-----------------------------------------------------------------------------
(* What the dates mean: stated from the phrases and the calendar alone     *)

HasWord(words, w) == \E k \in DOMAIN words : words[k] = w

\* "last", "this" and "next" week, month and year are whole ones, side by side.
PeriodMeans(unit, words, v, today) ==
    /\ v.kind = "dates" /\ v.a = StartOf(unit, v.a) /\ v.b = EndOf(unit, v.a)
    /\ CASE words[1] = "last" -> v.b + 1 = StartOf(unit, today)
         [] words[1] = "this" -> today \in v.a..v.b
         [] words[1] = "next" -> v.a - 1 = EndOf(unit, today)

\* Three whole months, before, around or after today; of this year if numbered.
QuarterMeans(words, v, today) ==
    /\ DayOfMonth(v.a) = 1 /\ DayOfMonth(v.b + 1) = 1 /\ v.b - v.a \in 89..91
    /\ MonthOf(v.a) \in {1, 4, 7, 10}
    /\ CASE words[1] = "last" -> v.b < today /\ today - v.b <= 92
         [] words[1] = "this" -> today \in v.a..v.b
         [] words[1] = "next" -> today < v.a /\ v.a - today <= 92

\* A weekend is a Saturday and a Sunday, a season three whole months from its own.
WeekendMeans(words, v, today) ==
    /\ DayOfWeek(v.a) = 5 /\ v.b = v.a + 1
    /\ CASE words[1] = "last" -> v.b < today /\ today - v.b <= 7
         [] words[1] = "this" -> today <= v.b /\ v.b - today <= 6
         [] words[1] = "next" -> today < v.a /\ v.a - today <= 12

SeasonMeans(words, e, v, today) ==
    /\ DayOfMonth(v.a) = 1 /\ MonthOf(v.a) = e.n
    /\ DayOfMonth(v.b + 1) = 1 /\ v.b - v.a \in 89..91
    /\ CASE words[1] = "last" -> v.a <= today
         [] words[1] = "next" -> v.a > today
         [] words[1] = "this" -> YearOf(v.a) = YearOf(today)

\* A weekday is that weekday: within a week on the side the word says.
WeekdayMeans(words, e, v, today) ==
    /\ v.kind = "dates" /\ v.a = v.b /\ DayOfWeek(v.a) = e.n
    /\ v.a - today \in
         CASE words[1] \in {"last", "previous"} -> -7..-1
           [] words[1] \in {"next", "coming"} -> 1..7
           [] words[1] = "this" -> (-DayOfWeek(today))..(6 - DayOfWeek(today))
           [] OTHER -> 0..6

\* A time of the clock is that time, in the afternoon if it says so.
ClockMeans(words, e, v, today) ==
    LET shown == 60 * (e.n % 12)
    IN  /\ v.kind = "moment" /\ v.a = today
        /\ v.b % 720 = (CASE words[1] = "quarter" /\ words[2] = "to" -> (shown - 15) % 720
                          [] words[1] = "quarter" /\ words[2] # "to" -> shown + 15
                          [] words[1] = "half" -> shown + 30
                          [] OTHER -> shown + e.m)
        /\ e.ampm = "pm" /\ words[1] # "quarter" => v.b >= 720
        /\ e.ampm = "am" /\ words[1] # "quarter" => v.b < 720

\* How many days away the phrases of days are.
DayPhrases ==
    {<< <<"today">>, 0>>, << <<"tomorrow">>, 1>>, << <<"yesterday">>, -1>>,
     << <<"the", "day", "after", "tomorrow">>, 2>>,
     << <<"the", "day", "before", "yesterday">>, -2>>,
     << <<"yesterday", "afternoon">>, -1>>, << <<"tomorrow", "night">>, 1>>,
     << <<"first", "thing", "in", "the", "morning">>, 0>>,
     << <<"a", "fortnight", "from", "now">>, 14>>, << <<"3", "days", "from", "now">>, 3>>,
     << <<"end", "of", "day">>, 0>>}

Means(words, e, v, today) ==
    /\ \A unit \in {"week", "month", "year"} :
          HasWord(words, unit) => PeriodMeans(unit, words, v, today)
    /\ HasWord(words, "quarter") /\ Len(words) = 2 => QuarterMeans(words, v, today)
    /\ HasWord(words, "weekend") => WeekendMeans(words, v, today)
    /\ HasWord(words, "spring") \/ HasWord(words, "winter")
          => SeasonMeans(words, e, v, today)
    /\ HasWord(words, "friday") => WeekdayMeans(words, e, v, today)
    /\ HasWord(words, "3:15") \/ (HasWord(words, "3") /\ ~HasWord(words, "days"))
          => ClockMeans(words, e, v, today)
    /\ \A p \in DayPhrases : words = p[1] => v.a = today + p[2]

-----------------------------------------------------------------------------
(* Properties                                                              *)

Statuses == {0, 200, 400, 401, 422, 500, 502}

\* Every variable keeps its type; a request is with the router exactly while its
\* messages are, and a conversation alternates between the two sides.
TypeOK ==
    /\ turn \in 0..MaxTurns /\ phase \in Phases
    /\ status \in Statuses
    /\ opts \in script.options
    /\ (request = <<>>) = (phase = "client")
    /\ \A i \in DOMAIN history :
          history[i].role = IF i % 2 = 1 THEN "user" ELSE "assistant"
    /\ (Len(history) % 2 = 1) = (phase # "client")
    /\ cacheKey # <<>> => phase \in {"classifying", "sending"}
    /\ \A pin \in pins : pin.level \in Level
    /\ \A p, q \in pins : p.id = q.id => p = q
    /\ \A entry \in cache : entry.level \in Level
    /\ Len(samples) <= script.classify.samples
    /\ sent.path \in Paths /\ sent.level \in Level \cup {NoLevel}
    /\ phase = "sending" => sent.path # "none"

(***************************************************************************)
(* DatesRight: what the provider is sent names the day the user means as   *)
(* of this turn, whatever was asked on earlier days and whichever rules    *)
(* share words with the phrase (rules.py is sorted by the length of the    *)
(* regular expressions, and every rule sees what the ones before it left). *)
(***************************************************************************)
DatesRight ==
    \A i \in DOMAIN sent.messages :
       LET text == sent.messages[i].text
       IN  script.temporal /\ text.words # <<>> /\ ~text.blocks =>
              /\ Len(text.values) = 1
              /\ Means(text.words, text.e, text.values[1], now.day)

(***************************************************************************)
(* SessionStable: all turns of a conversation are one session, if the      *)
(* client names it or the head of the conversation stays the same when it  *)
(* is dated anew; and they share one redaction bucket even if that differs *)
(* (chat_completions finds the bucket before the dates, the session after  *)
(* them).  The head are the system message and the first that the user     *)
(* says, which is not the opening if that has no text.                     *)
(***************************************************************************)
Named == script.header # NoId \/ script.body # NoId
           \/ (script.session.useUserField /\ script.user # NoId)
FirstSaid == IF script.opening.size > 0 THEN {script.opening}
             ELSE {text \in script.followups : text.size > 0}
SameHead == /\ \A s, t \in FirstSaid : s = t
            /\ ~script.stamped \/ script.session.stripPatterns
Undated == \A text \in FirstSaid \cup {script.system} :
              ~script.temporal \/ text.words = <<>> \/ text.blocks
SessionStable ==
    /\ Named \/ (SameHead /\ Undated) => \A a, b \in sessions : a = b
    /\ Named \/ SameHead => \A a, b \in buckets : a = b

(***************************************************************************)
(* LevelAllowed: the tier a request is routed to keeps within the bounds   *)
(* of the request when the pin is new or was hit and no signal moved it; a *)
(* hit that moved leaves those bounds, but not the global ceiling.  A      *)
(* stateless request keeps within the global ceiling, and a level the      *)
(* client forces goes over it only by a model directive or a minimum       *)
(* (enforce_route_policy, RoutingEngine.resolve and the clamps of the      *)
(* pinned path each see other parts of it).  What the budget and retries   *)
(* make of the tier afterwards is in PinTurns.                             *)
(***************************************************************************)
LevelAllowed ==
    LET capped == opts.min = NoLevel \/ opts.min <= script.routing.globalMax
        forced == ForcedLevel(opts) # NoLevel /\ Mode # "level"
    IN  /\ sent.path \in {"hit", "pinned"} =>
              /\ opts.max # NoLevel => sent.level <= opts.max
              /\ opts.min # NoLevel => sent.level >= opts.min
        /\ sent.path = "escalated" => sent.level <= script.routing.globalMax
        /\ sent.path = "stateless" /\ capped => sent.level <= script.routing.globalMax
        /\ sent.path \in {"hit", "pinned"} /\ forced /\ capped
              => sent.level <= script.routing.globalMax

\* SentIsScreened: nothing the masking covers is in any message the provider is
\* sent, not even what only stripping the invisible characters brings out, and
\* nothing the guardrail blocks is (_guardrail_scan_input_impl).
SentIsScreened ==
    \A i \in DOMAIN sent.messages :
       LET marks == sent.messages[i].text.marks
       IN  /\ script.guard.maskInput => marks \cap Sensitive = {}
           /\ script.guard.maskInput /\ script.guard.invisible => "broken" \notin marks
           /\ ~Blocked({marks}, script.guard)
=============================================================================
