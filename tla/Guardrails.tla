----------------------------- MODULE Guardrails -----------------------------
(***************************************************************************)
(* The guardrails on the way in and on the way out                         *)
(* (app/guardrails/scanner.py, rules.py, base.py, custom.py and their use  *)
(* in app/api/chat.py).                                                    *)
(*                                                                         *)
(* A text is known by the marks the rules look for; which characters make  *)
(* a mark is left to the regular expressions.                              *)
(***************************************************************************)
EXTENDS Integers, Sequences

(***************************************************************************)
(* "credential", "email" and "card" are what SECRET_RULES and PII_RULES    *)
(* match, "digits" a run of digits that is no card number.  "broken": a    *)
(* credential with an invisible character in it, "spaced": with blanks.    *)
(* "steering": what an injection rule of the scan matches; "quoted" the    *)
(* same in a benign context, "lookalike" in homoglyphs, "fenced" a text    *)
(* dominated by code.  "listed": a banned substring.  "encoded": hex or    *)
(* URL encoding with a signal inside.                                      *)
(***************************************************************************)
Sensitive == {"credential", "email", "card"}
Marks == Sensitive \cup
    {"digits", "broken", "spaced", "invisible", "steering", "quoted", "lookalike",
     "fenced", "listed", "encoded", "badUrl", "promptLeak", "refusal", "masked"}

SevOrder == [LOW |-> 0, MEDIUM |-> 1, HIGH |-> 2, CRITICAL |-> 3]

-----------------------------------------------------------------------------
(* Input                                                                   *)

\* _scan_invisible_text
StripInvisible(marks, cfg) ==
    IF cfg.invisible /\ "invisible" \in marks
    THEN (marks \ {"invisible", "broken"})
            \cup (IF "broken" \in marks THEN {"credential"} ELSE {})
    ELSE marks

\* _scan_input_pii
MaskInput(marks, cfg) ==
    IF cfg.maskInput /\ marks \cap Sensitive # {}
    THEN (marks \ Sensitive) \cup {"masked"}
    ELSE marks

Mut_CleanInput(marks, cfg) ==      \* Mutant: masked before the characters are stripped.
    StripInvisible(MaskInput(marks, cfg), cfg)

\* The content that is written back: stripped first, then masked.
CleanInput(marks, cfg) == MaskInput(StripInvisible(marks, cfg), cfg)

\* scan_text: a text full of code is not scanned.
InjectionFindings(marks, cfg) ==
    IF ~cfg.inputEnabled \/ "fenced" \in marks THEN {}
    ELSE IF "steering" \in marks \/ (cfg.homoglyphs /\ "lookalike" \in marks)
         THEN {"CRITICAL"} ELSE {}

\* Banned substrings and obfuscation are looked for even if the scan is off.
OtherFindings(marks, cfg) ==
    (IF cfg.banned /\ "listed" \in marks THEN {"HIGH"} ELSE {})
    \cup (IF cfg.obfuscation /\ "encoded" \in marks THEN {"MEDIUM"} ELSE {})

\* _check_guardrail_block on the findings of every message.
Blocked(texts, cfg) ==
    /\ cfg.action = "block"
    /\ \E marks \in texts :
          \E severity \in InjectionFindings(marks, cfg) \cup OtherFindings(marks, cfg) :
             SevOrder[severity] >= SevOrder[cfg.threshold]

-----------------------------------------------------------------------------
(* The custom guardrail.  A message is [role, text], a text has a size: the *)
(* number of its characters, 0 for an image alone.                         *)

UserAt(messages) == {i \in DOMAIN messages : messages[i].role = "user"}
LastUser(messages) == CHOOSE i \in UserAt(messages) : \A j \in UserAt(messages) : j <= i

\* A short message after something other than a system prompt.
IsShortFollowup(messages, limit) ==
    /\ UserAt(messages) # {}
    /\ \E i \in 1..(LastUser(messages) - 1) : messages[i].role # "system"
    /\ messages[LastUser(messages)].text.size \in 1..limit

\* payload_scope
InScope(messages, scope) ==
    CASE scope = "last_user" /\ UserAt(messages) # {} -> {LastUser(messages)}
      [] scope = "conversation" /\ (\E i \in DOMAIN messages : messages[i].role # "system") ->
            {i \in DOMAIN messages : messages[i].role # "system"}
      [] OTHER -> DOMAIN messages

\* build_payload_text indexes the texts by the number of texts before the last
\* user message: there is none there if that message is an image and the last.
PayloadRaises(messages, scope) ==
    LET scoped == InScope(messages, scope)
    IN  /\ scoped \cap UserAt(messages) # {}
        /\ \A i \in scoped : i >= LastUser(messages) => messages[i].text.size = 0

(***************************************************************************)
(* _parse_decision.  An answer is [form, p, legend, choice]: p in percent, *)
(* or the score; legend the number of levels of a score; choice what was   *)
(* chosen.  "?" is what the strict constraint refuses.                     *)
(***************************************************************************)
Threshold(p, threshold) ==
    IF p \notin 0..100 THEN "error" ELSE IF p >= threshold THEN "yes" ELSE "no"

ParseDecision(answer, threshold) ==
    CASE answer.form = "noul" -> Threshold(answer.p, threshold)
      [] answer.form = "score" ->
            IF answer.legend < 2 THEN "error"
            ELSE Threshold((100 * answer.p) \div (answer.legend - 1), threshold)
      [] answer.form = "choice" /\ answer.p >= 0 -> Threshold(answer.p, threshold)
      [] answer.form = "text" \/ (answer.form = "choice" /\ answer.p < 0) ->
            IF answer.choice \in {"yes", "no"} THEN answer.choice ELSE "error"
      [] OTHER -> "error"      \* timeout, HTTP error, not JSON

\* evaluate: every failure is the decision on_error stands for.
Verdict(answer, cfg) ==
    LET decision == ParseDecision(answer, cfg.threshold)
    IN  IF decision = "error" THEN IF cfg.onError = "reject" THEN "no" ELSE "yes"
        ELSE decision

-----------------------------------------------------------------------------
(* Output                                                                  *)

MaskedOnOutput(cfg) ==
    {"credential", "spaced"}
    \cup (IF cfg.maskOutput THEN {"email", "card"} ELSE {})
    \cup (IF cfg.urls THEN {"badUrl"} ELSE {})
    \cup (IF cfg.leaks THEN {"promptLeak"} ELSE {})

\* process_response_content: a refusal is only logged.
CleanOutput(marks, cfg) ==
    IF cfg.outputEnabled /\ cfg.outputAction = "mask" /\ marks \cap MaskedOnOutput(cfg) # {}
    THEN (marks \ MaskedOnOutput(cfg)) \cup {"masked"}
    ELSE marks
=============================================================================
