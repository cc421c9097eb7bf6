-------------------------- MODULE SessionIdentity --------------------------
(***************************************************************************)
(* Which conversation a request belongs to (app/session/resolver.py,       *)
(* app/session/fingerprint.py).                                            *)
(*                                                                         *)
(* Hashes are taken to be injective: an id is the record of what went into *)
(* it.                                                                     *)
(***************************************************************************)
EXTENDS Integers, Sequences

\* An id a client may send, one the pattern refuses, and none.
InvalidId == "not an id!"
NoId == ""

NoSession == [source |-> "none"]

\* _get_api_key_identity
KeyIdentity(key) == IF key = "" THEN "anon" ELSE key

\* derive_internal_session_id, when sessions are kept apart by key.
Given(name, request, cfg) ==
    [name |-> name, owner |-> IF cfg.namespaced THEN KeyIdentity(request.key) ELSE ""]

Spoken(messages, role) ==
    {i \in DOMAIN messages : messages[i].role = role /\ messages[i].text.size > 0}

\* The first message of the role that says something.
FirstText(messages, role) ==
    LET at == Spoken(messages, role)
    IN  messages[CHOOSE i \in at : \A j \in at : i <= j].text

\* derive_fingerprint strips the patterns, here the stamp, from the system text.
SystemPart(messages, cfg) ==
    LET first == FirstText(messages, "system")
    IN  IF Spoken(messages, "system") = {} THEN <<>>
        ELSE IF cfg.stripPatterns THEN <<[first EXCEPT !.stamp = 0]>>
        ELSE <<first>>

Mut_Fingerprint(messages, request, cfg) ==      \* Mutant: the latest user message.
    LET users == Spoken(messages, "user")
    IN  [system |-> SystemPart(messages, cfg),
         user |-> messages[CHOOSE i \in users : \A j \in users : i >= j].text,
         tools |-> request.tools, key |-> KeyIdentity(request.key)]

\* The invariant head of the conversation: its first system and user messages.
Fingerprint(messages, request, cfg) ==
    [system |-> SystemPart(messages, cfg), user |-> FirstText(messages, "user"),
     tools |-> request.tools, key |-> KeyIdentity(request.key)]

\* resolve_session_id: the first source the request has, valid or not.
ResolveSession(messages, request, cfg) ==
    LET named == IF request.header # NoId THEN request.header ELSE request.body
    IN  IF named = InvalidId THEN NoSession
        ELSE IF named # NoId THEN Given(named, request, cfg)
        ELSE IF cfg.useUserField /\ request.user # NoId THEN Given(request.user, request, cfg)
        ELSE IF cfg.fingerprint /\ Spoken(messages, "user") # {}
             THEN Fingerprint(messages, request, cfg)
        ELSE NoSession
=============================================================================
