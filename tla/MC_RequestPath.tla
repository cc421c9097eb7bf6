-------------------------- MODULE MC_RequestPath --------------------------
(* Small instances of RequestPath: one plain script, and variations of it  *)
(* in one dimension each.                                                  *)
EXTENDS RequestPath, FiniteSets

NoTag == Plain("")
Text(topic, size) ==
    [topic |-> topic, marks |-> {}, size |-> size, fences |-> 0, phrases |-> {},
     prefix |-> NoLevel, blocks |-> FALSE, stamp |-> 0, words |-> <<>>, e |-> NoTag,
     values |-> <<>>]
Question == Text("question", 90)
Short == Text("go on", 5)
NoTask == Text("none", 0)

Auto == [headerLevel |-> NoLevel, level |-> NoLevel, headerModel |-> "", forceModel |-> "",
         max |-> NoLevel, min |-> NoLevel, repin |-> FALSE, reclassify |-> FALSE,
         stateless |-> FALSE, bypass |-> FALSE, model |-> "auto", task |-> NoTask]

Guard == [invisible |-> TRUE, maskInput |-> TRUE, inputEnabled |-> TRUE, homoglyphs |-> TRUE,
          banned |-> TRUE, obfuscation |-> TRUE, action |-> "block", threshold |-> "HIGH",
          maskOutput |-> TRUE, urls |-> TRUE, leaks |-> TRUE, outputEnabled |-> TRUE,
          outputAction |-> "mask"]
Custom == [enabled |-> FALSE, skip |-> TRUE, limit |-> 20, scope |-> "conversation",
           threshold |-> 50, onError |-> "reject", delivery |-> "reply"]
Routing == [globalMax |-> 4, globalMin |-> 1, default |-> 2, overrides |-> TRUE,
            passthrough |-> TRUE]
Session == [enabled |-> TRUE, namespaced |-> TRUE, stripPatterns |-> TRUE,
            useUserField |-> TRUE, fingerprint |-> TRUE]
Classifier == [enabled |-> TRUE, guard |-> TRUE, heuristics |-> TRUE, huge |-> 100,
               minConfidence |-> 60, lowConfidence |-> "escalate", default |-> 2,
               unknown |-> 3, cache |-> TRUE, samples |-> 2]

Model(form, level, confidence, reason) ==
    [form |-> form, level |-> level, confidence |-> confidence, reason |-> reason]
Sure == Model("json", 3, 90, TRUE)
Decision(form, p, legend, choice) ==
    [form |-> form, p |-> p, legend |-> legend, choice |-> choice]

Base ==
    [key |-> "valid", header |-> NoId, body |-> NoId, user |-> NoId, tools |-> {"search"},
     system |-> Text("agent", 300), stamped |-> FALSE, opening |-> Question,
     followups |-> {Short}, options |-> {Auto}, days |-> {0}, start |-> [day |-> 738000, minute |-> 600],
     answers |-> {{}}, decisions |-> {}, outcomes |-> {Sure}, guard |-> Guard,
     custom |-> Custom, routing |-> Routing, session |-> Session, classify |-> Classifier,
     privacy |-> TRUE, temporal |-> TRUE, auth |-> TRUE, prefix |-> TRUE, jsonMode |-> FALSE,
     others |-> {}, escalation |-> FALSE]

-----------------------------------------------------------------------------
(* Dates: the edges of weeks, months, quarters and years                   *)

Days ==
    {DayNumber(2023, 12, 31), DayNumber(2024, 1, 1), DayNumber(2024, 2, 28),
     DayNumber(2024, 3, 31), DayNumber(2024, 9, 30), DayNumber(2024, 12, 27),
     DayNumber(2025, 1, 31), DayNumber(2025, 5, 2)}
LeapDay == DayNumber(2024, 2, 29)

Dir(words) == IF words[1] \in {"last", "next", "previous"} THEN words[1] ELSE "this"
Captured(words, e) == [Question EXCEPT !.words = words, !.e = e]
Tagged(words, tag) ==
    Captured(words, [Plain(tag) EXCEPT !.dir = Dir(words), !.unit = "week", !.n = 3])

Friday(words) == Captured(words, [NoTag EXCEPT !.n = 4, !.dir = Dir(words)])
AtThree(words, suffix) == Captured(words, [NoTag EXCEPT !.n = 3, !.m = 0, !.ampm = suffix])

Periods ==
    {Tagged(<<d, u>>, d \o "_" \o u) : d \in {"last", "this", "next"},
                                      u \in {"week", "month", "year", "quarter", "weekend"}}
Seasons ==
    {Captured(<<d, "spring">>, [Plain("relative_season") EXCEPT !.n = 3, !.dir = d]) :
        d \in {"last", "this", "next"}}
    \cup {Captured(<<d, "winter">>, [Plain("relative_season") EXCEPT !.n = 12, !.dir = d]) :
            d \in {"last", "this", "next"}}
Weekdays ==
    {Friday(<<d, "friday">>) : d \in {"last", "previous", "this", "next", "coming", "on"}}
    \cup {Friday(<<"friday">>)}
Clocks ==
    {AtThree(<<"3", "am/pm">>, s) : s \in {"am", "pm"}}
    \cup {AtThree(<<"quarter", "to", "3", "am/pm">>, "pm"),
          AtThree(<<"quarter", "past", "3">>, ""), AtThree(<<"half", "past", "3">>, ""),
          Captured(<<"at", "3:15", "am/pm">>, [NoTag EXCEPT !.n = 3, !.m = 15, !.ampm = "pm"]),
          Captured(<<"3:15", "am/pm">>, [NoTag EXCEPT !.n = 12, !.m = 15, !.ampm = "am"])}
Phrases ==
    {Captured(p[1], [NoTag EXCEPT !.n = 3]) : p \in DayPhrases}
\* One expression of every other kind the engine resolves.
Others ==
    {Tagged(<<t>>, t) : t \in {"a_while_ago", "teatime", "cob", "eom", "shortly", "midweek",
                              "past_n_units", "few_units_ago", "military_time_hundred",
                              "start_of_period", "following_period", "quarter_n",
                              "relative_decade", "noon_datetime", "later_today"}}

Openings == Periods \cup Seasons \cup Weekdays \cup Clocks \cup Phrases

\* The opening is said on an edge of the calendar and sent again a day later.
DateScripts ==
    {[Base EXCEPT !.opening = t, !.start.day = d, !.days = {0, 1}, !.classify.heuristics = FALSE] :
        t \in Openings, d \in Days}
    \cup {[Base EXCEPT !.opening = t, !.start.day = LeapDay] : t \in Others \cup Periods}
    \cup {[Base EXCEPT !.opening = Tagged(<<"last", "week">>, "last_week"),
                       !.opening.blocks = TRUE, !.days = {0, 1}]}

-----------------------------------------------------------------------------
(* Sessions                                                                *)

IdScripts ==
    {[Base EXCEPT !.header = h, !.body = b, !.user = u, !.days = {1}, !.stamped = s,
                  !.session.stripPatterns = p, !.session.fingerprint = f,
                  !.opening = t] :
        h \in {NoId, "h", InvalidId}, b \in {NoId, "b", InvalidId}, u \in {NoId, "u"},
        s \in BOOLEAN, p \in BOOLEAN, f \in BOOLEAN,
        t \in {Question, Captured(<<"tomorrow">>, NoTag), Text("image", 0)}}
    \cup {[Base EXCEPT !.followups = {Short, Question}, !.days = {1}],
          [Base EXCEPT !.header = "h", !.session.namespaced = FALSE, !.privacy = FALSE],
          [Base EXCEPT !.session.enabled = FALSE]}

-----------------------------------------------------------------------------
(* Guardrails                                                              *)

\* A credential is broken by an invisible character.
MarkSets == {{m} : m \in Marks \ {"broken"}} \cup {{"invisible", "broken"}, {"steering", "fenced"}}
GuardSettings ==
    {Guard, [Guard EXCEPT !.action = "log"], [Guard EXCEPT !.threshold = "LOW"],
     [Guard EXCEPT !.inputEnabled = FALSE], [Guard EXCEPT !.invisible = FALSE],
     [Guard EXCEPT !.maskInput = FALSE, !.outputAction = "log"]}
GuardScripts ==
    {[Base EXCEPT !.opening.marks = m, !.guard = g, !.answers = {{}, m}] :
        m \in MarkSets, g \in GuardSettings}
    \cup {[Base EXCEPT !.key = "other"], [Base EXCEPT !.opening.size = 2000]}

Decisions ==
    {Decision("noul", 70, 0, "?"), Decision("noul", 20, 0, "?"), Decision("noul", 130, 0, "?"),
     Decision("score", 1, 4, "?"), Decision("score", 2, 1, "?"),
     Decision("choice", -1, 0, "yes"), Decision("choice", 10, 0, "yes"),
     Decision("text", -1, 0, "no"), Decision("timeout", -1, 0, "?")}
CustomScripts ==
    {[Base EXCEPT !.custom.enabled = TRUE, !.custom.scope = sc, !.custom.skip = sk,
                  !.custom.onError = x, !.opening = t, !.decisions = {d}] :
        sc \in {"conversation", "last_user", "all"}, sk \in BOOLEAN,
        x \in {"reject", "allow"}, t \in {Question, Short, Text("image", 0)},
        d \in Decisions}
    \cup {[Base EXCEPT !.custom.enabled = TRUE, !.custom.delivery = "error",
                       !.decisions = Decisions]}

-----------------------------------------------------------------------------
(* Routes                                                                  *)

Opts ==
    {Auto, [Auto EXCEPT !.level = 5], [Auto EXCEPT !.headerLevel = 5, !.level = 1],
     [Auto EXCEPT !.headerLevel = BadLevel], [Auto EXCEPT !.level = 1, !.repin = TRUE],
     [Auto EXCEPT !.max = 1], [Auto EXCEPT !.max = 2, !.min = 2],
     [Auto EXCEPT !.max = 1, !.min = 3], [Auto EXCEPT !.min = 5],
     [Auto EXCEPT !.level = 5, !.max = 3], [Auto EXCEPT !.stateless = TRUE],
     [Auto EXCEPT !.stateless = TRUE, !.min = 5], [Auto EXCEPT !.model = "smart-router/L5"],
     [Auto EXCEPT !.model = "smart-router/L5", !.max = 2],
     [Auto EXCEPT !.model = "smart-router/classify-only"],
     [Auto EXCEPT !.model = "smart-router/stateless", !.max = 1],
     [Auto EXCEPT !.model = "listed"], [Auto EXCEPT !.model = "other"],
     [Auto EXCEPT !.headerModel = "other", !.forceModel = "tier"],
     [Auto EXCEPT !.headerModel = "tier"], [Auto EXCEPT !.bypass = TRUE],
     [Auto EXCEPT !.reclassify = TRUE], [Auto EXCEPT !.task = Text("task", 70)]}
Prefixed == [Question EXCEPT !.prefix = 4]
RouteScripts ==
    {[Base EXCEPT !.options = {Auto, o}, !.opening = t, !.outcomes = {Sure, Model("json", 5, 30, TRUE)},
                  !.routing = r, !.escalation = TRUE] :
        o \in Opts, t \in {Question, Prefixed},
        r \in {Routing, [Routing EXCEPT !.globalMax = 3, !.passthrough = FALSE],
               [Routing EXCEPT !.globalMin = 2, !.default = 1, !.overrides = FALSE]}}

Answers ==
    {Model("json", 2, 30, TRUE), Model("json", 5, 90, TRUE), Model("json", NoLevel, 0, FALSE),
     Model("json", NoLevel, 0, TRUE), Model("prose", 3, 0, TRUE), Model("prose", NoLevel, 0, TRUE),
     Model("blank", NoLevel, 0, TRUE), Model("failed", NoLevel, 0, TRUE)}
Tasks ==
    {Question, Short, [Question EXCEPT !.size = 500], [Question EXCEPT !.phrases = {"deep"}],
     [Question EXCEPT !.phrases = {"steers"}], [Question EXCEPT !.fences = 3]}
ClassifyScripts ==
    {[Base EXCEPT !.opening = t, !.outcomes = Answers, !.classify.lowConfidence = l,
                  !.jsonMode = j, !.classify.enabled = e] :
        t \in Tasks, l \in {"escalate", "default", "accept"}, j \in BOOLEAN, e \in BOOLEAN}
    \cup {[Base EXCEPT !.others = {Text("other", 300), Text("third", 300)}, !.outcomes = {Sure}]}

AllScripts ==
    UNION {DateScripts, IdScripts, GuardScripts, CustomScripts, RouteScripts, ClassifyScripts}
=============================================================================
