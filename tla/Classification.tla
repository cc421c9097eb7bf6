--------------------------- MODULE Classification ---------------------------
(***************************************************************************)
(* How the level of a conversation's opening is found                      *)
(* (app/classify/*.py): the digest, the heuristics, the model's answer and *)
(* what is made of it.                                                     *)
(*                                                                         *)
(* A text is known by its topic, the number of its characters and fences,  *)
(* and the phrases in it that the heuristics and the guard look for.       *)
(***************************************************************************)
EXTENDS Levels, Sequences
Sets == INSTANCE FiniteSetsExt

-----------------------------------------------------------------------------
(* The digest                                                              *)

SystemTexts(messages) ==
    LET systems == SelectSeq(messages, LAMBDA m : m.role = "system")
    IN  [k \in DOMAIN systems |-> systems[k].text]

Size(texts) == Sets!FoldSet(LAMBDA k, sum : texts[k].size + sum, 0, DOMAIN texts)

Mut_Learn(messages, samples, task, max) ==      \* Mutant: the oldest stays.
    LET system == SystemTexts(messages)
    IN  IF task.size > 0 \/ Size(system) < 20 \/ (\E k \in DOMAIN samples : samples[k] = system)
        THEN samples
        ELSE Append(samples, system)

\* CommonPrefixLearner.add_sample: the latest max different system messages,
\* unless an explicit task text made the split end before.
Learn(messages, samples, task, max) ==
    LET system == SystemTexts(messages)
        known == \E k \in DOMAIN samples : samples[k] = system
        longer == Append(samples, system)
    IN  IF task.size > 0 \/ Size(system) < 20 \/ known THEN samples
        ELSE IF Len(longer) > max THEN Tail(longer) ELSE longer

(***************************************************************************)
(* DigestBuilder.build: what the classifier is asked about.  The common    *)
(* part of two or more system messages is taken off; the user texts are    *)
(* joined; an explicit task text replaces everything.                      *)
(***************************************************************************)
Digest(messages, samples, task) ==
    LET users == SelectSeq(messages, LAMBDA m : m.role = "user")
        texts == IF task.size > 0 THEN <<task>> ELSE [k \in DOMAIN users |-> users[k].text]
    IN  [system |-> IF task.size > 0 THEN <<>> ELSE SystemTexts(messages),
         stripped |-> task.size = 0 /\ Len(samples) >= 2,
         count |-> Len(messages),
         texts |-> texts,
         chars |-> Size(texts),
         fences |-> Sets!FoldSet(LAMBDA k, sum : texts[k].fences + sum, 0, DOMAIN texts),
         phrases |-> UNION {texts[k].phrases : k \in DOMAIN texts}]

-----------------------------------------------------------------------------
(* Heuristics                                                              *)

Tokens(chars) == IF chars \div 4 < 1 THEN 1 ELSE chars \div 4

\* evaluate_heuristics with the default rules: the first that stops, else the
\* floor of code_heavy and of the deep keywords.
Evaluate(digest, jsonMode, huge) ==
    IF digest.chars < 40 /\ digest.fences = 0 THEN [level |-> 1, stop |-> TRUE]
    ELSE IF jsonMode /\ digest.chars < 600 THEN [level |-> 1, stop |-> TRUE]
    ELSE IF Tokens(digest.chars) > huge THEN [level |-> 4, stop |-> TRUE]
    ELSE [level |-> IF "deep" \in digest.phrases THEN 4
                    ELSE IF digest.fences >= 3 THEN 3 ELSE NoLevel,
          stop |-> FALSE]

\* _try_heuristics: a floor is not gone on with.
Stops(digest, jsonMode, cfg) ==
    cfg.heuristics /\ Evaluate(digest, jsonMode, cfg.huge).stop

-----------------------------------------------------------------------------
(* The model's answer: its form, level, confidence in percent, and whether *)
(* it gave a reason.                                                       *)

Outcome(level, reason) == [level |-> level, reason |-> reason]

\* parse_classifier_output.  "json": an object; "prose": no JSON, the level
\* is found in the text; "blank": nothing is.  A level of NoLevel is UNKNOWN;
\* a level of 5 is not looked for in prose.
Parse(answer) ==
    CASE answer.form = "json" /\ answer.level \in Level ->
            [level |-> answer.level, confidence |-> answer.confidence, reason |-> "model"]
      [] answer.form = "json" /\ answer.level = NoLevel ->
            [level |-> NoLevel, confidence |-> answer.confidence,
             reason |-> IF answer.reason THEN "model" ELSE "UNKNOWN"]
      [] answer.form = "prose" /\ answer.level \in 1..4 ->
            [level |-> answer.level, confidence |-> 50, reason |-> "model"]
      [] answer.form = "prose" /\ answer.level = NoLevel ->
            [level |-> NoLevel, confidence |-> 0, reason |-> "UNKNOWN"]
      [] OTHER -> [level |-> NoLevel, confidence |-> 0, reason |-> "parse failure"]

\* _apply_confidence_policy
WithConfidence(parsed, cfg) ==
    IF parsed.confidence >= cfg.minConfidence THEN parsed.level
    ELSE CASE cfg.lowConfidence = "escalate" -> FromNumeric(parsed.level + 1)
           [] cfg.lowConfidence = "default" -> cfg.default
           [] OTHER -> parsed.level

\* _handle_classifier_result
Handle(parsed, cfg) ==
    IF parsed.level # NoLevel THEN Outcome(WithConfidence(parsed, cfg), parsed.reason)
    ELSE IF parsed.reason = "parse failure" THEN Outcome(cfg.default, "parse failure")
    ELSE Outcome(cfg.unknown, parsed.reason)

\* _classify_inner: the answer of the model matters only if it is asked.
Classify(digest, jsonMode, answer, cfg) ==
    IF cfg.guard /\ "steers" \in digest.phrases THEN Outcome(cfg.default, "steering suspected")
    ELSE IF Stops(digest, jsonMode, cfg)
         THEN Outcome(Evaluate(digest, jsonMode, cfg.huge).level, "heuristic")
    ELSE IF ~cfg.enabled \/ answer.form = "failed" THEN Outcome(cfg.default, "default")
    ELSE Handle(Parse(answer), cfg)
=============================================================================
