---------------------------- MODULE IpRedaction ----------------------------
(***************************************************************************)
(* The IP redaction of one session (app/privacy/ip_redaction.py): requests *)
(* that replace the addresses of their texts with numbered tokens before   *)
(* they go upstream, and put the addresses back into the answer, over one  *)
(* SQLite table that a maintenance task purges by age.                     *)
(*                                                                         *)
(* Every statement runs in a worker thread of its own (to_thread), so      *)
(* other requests run between any two of them.  A text is the set of the   *)
(* addresses in it; the order they appear in is any order.  Statements of  *)
(* other sessions touch other rows.                                        *)
(***************************************************************************)
EXTENDS Integers, Sequences, FiniteSets

CONSTANTS
    Requests,   \* chat completions of the session
    Ips,        \* addresses
    Prompts,    \* what a request may send: sequences of texts
    MayPurge,   \* the maintenance task may run
    MayCrash,   \* the router may be restarted
    None

ASSUME IpRedactionAssumption ==
    /\ Prompts \subseteq Seq(SUBSET Ips)
    /\ IsFiniteSet(Ips)
    /\ MayPurge \in BOOLEAN /\ MayCrash \in BOOLEAN
    /\ None \notin Ips

VARIABLES
    table,      \* the rows of ip_redaction_sessions
    lastId,     \* the last AUTOINCREMENT id
    pc,         \* where each request is
    todo,       \* the texts each request has not redacted yet
    pending,    \* tokens assigned to the text at hand and not recorded yet
    sent,       \* the tokens in the prompt, each with the address it stands for
    restored,   \* the last token of the answer and what replaced it, or None
    disturbed   \* history: requests another one, or a purge, interfered with

vars == <<table, lastId, pc, todo, pending, sent, restored, disturbed>>

Number == Nat \ {0}
Rows == [id : Number, ip : Ips, num : Number]
Tokens == [ip : Ips, num : Number]
Answers == [ip : Ips, num : Number, got : Ips \cup {None}]

PCs == {"idle", "redact", "record", "upstream", "done", "dead"}
InFlight == {"redact", "record", "upstream"}

Init ==
    /\ table = {} /\ lastId = 0
    /\ pc = [r \in Requests |-> "idle"]
    /\ todo = [r \in Requests |-> <<>>]
    /\ pending = [r \in Requests |-> {}]
    /\ sent = [r \in Requests |-> {}]
    /\ restored = [r \in Requests |-> None]
    /\ disturbed = {}

Goto(r, there) == pc' = [pc EXCEPT ![r] = there]

Arrive(r) ==
    /\ pc[r] = "idle"
    /\ \E prompt \in Prompts : todo' = [todo EXCEPT ![r] = prompt]
    /\ Goto(r, "redact")
    /\ UNCHANGED <<table, lastId, pending, sent, restored, disturbed>>

-----------------------------------------------------------------------------
(* redact_text                                                             *)

\* Mutant: a known address is not looked up.
Mut_Known(text) == {}

\* by_ip: the tokens the snapshot of the table has for the text's addresses.
Known(text) ==
    {[ip |-> row.ip, num |-> row.num] : row \in {x \in table : x.ip \in text}}

\* Mutant: the numbering starts over with every text.
Mut_IsHighest(n) == n = 0

\* _max_existing: 0 when the table is empty.
IsHighest(n) ==
    /\ n = 0 \/ \E row \in table : row.num = n
    /\ \A row \in table : row.num <= n

\* The ways to give the numbers after n to the new addresses.
Assignments(new, n) ==
    {{[ip |-> ip, num |-> number[ip]] : ip \in new} : number \in
        {f \in [new -> (n + 1)..(n + Cardinality(new))] :
            \A a, b \in new : f[a] = f[b] => a = b}}

\* get_mappings, then the numbering of one text, which nothing interrupts.
Redact(r) ==
    /\ pc[r] = "redact" /\ todo[r] # <<>>
    /\ LET text == Head(todo[r])
           known == Known(text)
       IN  \E n \in {0} \cup {row.num : row \in table} :
             /\ IsHighest(n)
             /\ \E assigned \in Assignments(text \ {t.ip : t \in known}, n) :
                  /\ pending' = [pending EXCEPT ![r] = assigned]
                  /\ sent' = [sent EXCEPT ![r] = @ \cup known \cup assigned]
                  /\ Goto(r, IF assigned = {} THEN "redact" ELSE "record")
    /\ todo' = [todo EXCEPT ![r] = Tail(@)]
    /\ UNCHANGED <<table, lastId, restored, disturbed>>

\* Mutant: only UNIQUE(session_id, original_ip) is declared.
Mut_Conflicts(token) == \E row \in table : row.ip = token.ip

\* UNIQUE(session_id, original_ip) and UNIQUE(session_id, placeholder).
Conflicts(token) ==
    \E row \in table : row.ip = token.ip \/ row.num = token.num

\* INSERT OR IGNORE of the next assigned token, in the order of the numbers.
Record(r) ==
    /\ pc[r] = "record"
    /\ \E token \in pending[r] :
         /\ \A other \in pending[r] : token.num <= other.num
         /\ pending' = [pending EXCEPT ![r] = @ \ {token}]
         /\ Goto(r, IF pending[r] = {token} THEN "redact" ELSE "record")
         /\ IF Conflicts(token)
            THEN UNCHANGED <<table, lastId, disturbed>>
            ELSE /\ table' = table \cup
                        {[id |-> lastId + 1, ip |-> token.ip, num |-> token.num]}
                 /\ lastId' = lastId + 1
                 /\ disturbed' = disturbed \cup
                        {q \in Requests \ {r} : pending[q] # {}}
    /\ UNCHANGED <<todo, sent, restored>>

\* Every text is redacted: the prompt goes to the classifier and the tiers.
Forward(r) ==
    /\ pc[r] = "redact" /\ todo[r] = <<>>
    /\ Goto(r, "upstream")
    /\ UNCHANGED <<table, lastId, todo, pending, sent, restored, disturbed>>

-----------------------------------------------------------------------------
(* rehydrate_text_sync, for one choice or one chunk of the answer at a time *)

\* The answer quotes a token: it is replaced if the table still has it.
Rehydrate(r) ==
    /\ pc[r] = "upstream"
    /\ \E token \in sent[r] :
         \E got \in Ips \cup {None} :
           /\ \/ \E row \in table : row.num = token.num /\ row.ip = got
              \/ got = None /\ \A row \in table : row.num # token.num
           /\ restored' = [restored EXCEPT ![r] =
                   [ip |-> token.ip, num |-> token.num, got |-> got]]
    /\ UNCHANGED <<table, lastId, pc, todo, pending, sent, disturbed>>

Finish(r) ==
    /\ pc[r] = "upstream"
    /\ Goto(r, "done")
    /\ restored' = [restored EXCEPT ![r] = None]
    /\ UNCHANGED <<table, lastId, todo, pending, sent, disturbed>>

-----------------------------------------------------------------------------
\* purge_older_than: the rows up to some age go, whoever still needs them.
Purge ==
    /\ MayPurge
    /\ \E limit \in {row.id : row \in table} :
         table' = {row \in table : row.id > limit}
    /\ disturbed' = disturbed \cup {r \in Requests : sent[r] # {}}
    /\ UNCHANGED <<lastId, pc, todo, pending, sent, restored>>

\* The router stops: the table stays, the requests do not.
Crash ==
    /\ MayCrash
    /\ \E r \in Requests : pc[r] \in InFlight
    /\ pc' = [r \in Requests |-> IF pc[r] \in InFlight THEN "dead" ELSE pc[r]]
    /\ todo' = [r \in Requests |-> <<>>]
    /\ pending' = [r \in Requests |-> {}]
    /\ sent' = [r \in Requests |-> IF pc[r] \in InFlight THEN {} ELSE sent[r]]
    /\ restored' = [r \in Requests |-> None]
    /\ UNCHANGED <<table, lastId, disturbed>>

-----------------------------------------------------------------------------
RequestStep(r) ==
    Arrive(r) \/ Redact(r) \/ Record(r) \/ Forward(r) \/ Rehydrate(r) \/ Finish(r)

Next == (\E r \in Requests : RequestStep(r)) \/ Purge \/ Crash

Spec == Init /\ [][Next]_vars

-----------------------------------------------------------------------------
(* Properties                                                              *)

\* Every variable keeps its type, and the table its two unique constraints.
TypeOK ==
    /\ table \subseteq Rows /\ lastId \in Nat
    /\ \A x, y \in table : x.ip = y.ip \/ x.num = y.num => x = y
    /\ pc \in [Requests -> PCs]
    /\ todo \in [Requests -> Seq(SUBSET Ips)]
    /\ pending \in [Requests -> SUBSET Tokens]
    /\ sent \in [Requests -> SUBSET Tokens]
    /\ restored \in [Requests -> Answers \cup {None}]
    /\ disturbed \subseteq Requests

\* What goes out as a token comes back as the address it stands for, unless
\* another request of the session recorded a token while this one had some to
\* record, or a purge ran after this one had read the table.
RoundTrip ==
    \A r \in Requests \ disturbed :
        restored[r] # None => restored[r].got = restored[r].ip

\* "The same IP always maps to the same token across turns", and no token to
\* two addresses: between any two requests that went upstream undisturbed.
StableTokens ==
    \A r, q \in {x \in Requests \ disturbed : pc[x] \in {"upstream", "done"}} :
        \A s \in sent[r], t \in sent[q] : s.ip = t.ip <=> s.num = t.num

\* "IGNORE on unique conflicts (race-safe)": the same without the exception of
\* concurrent requests.
RaceSafe ==
    \A r \in Requests : restored[r] # None => restored[r].got = restored[r].ip
=============================================================================
