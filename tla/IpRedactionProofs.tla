------------------------- MODULE IpRedactionProofs -------------------------
(***************************************************************************)
(* For any number of requests, addresses and texts: the redaction's types  *)
(* and unique constraints, the round trip of an undisturbed request, and   *)
(* the stability of its tokens.                                            *)
(***************************************************************************)
EXTENDS IpRedaction, TLAPS

\* Token t is a row of the table.
InTable(t) == \E row \in table : row.ip = t.ip /\ row.num = t.num

\* Neither the address nor the number of t is in the table.
Fresh(t) == \A row \in table : row.ip # t.ip /\ row.num # t.num

\* Why the round trip holds: of an undisturbed request, what is recorded is in
\* the table, and what is not recorded yet cannot conflict with it.
Undisturbed(r) ==
    /\ \A t \in pending[r] : Fresh(t)
    /\ \A t \in sent[r] \ pending[r] : InTable(t)
    /\ \A s, t \in pending[r] : s.ip = t.ip \/ s.num = t.num => s = t
    /\ restored[r] # None => restored[r].got = restored[r].ip

\* Only a request that is recording has tokens pending, and an idle one or one
\* that died has sent nothing.
Phases ==
    \A r \in Requests :
        /\ pending[r] # {} => pc[r] = "record"
        /\ sent[r] = {} => pending[r] = {} /\ restored[r] = None

IInv == TypeOK /\ Phases /\ \A r \in Requests \ disturbed : Undisturbed(r)

\* The tokens of one assignment have different addresses and numbers, all of
\* them new.
LEMMA AssignmentsFresh ==
    ASSUME table \subseteq Rows, NEW new \in SUBSET Ips, NEW n \in Nat, IsHighest(n),
           \A row \in table : row.ip \notin new,
           NEW assigned \in Assignments(new, n)
    PROVE  /\ assigned \subseteq Tokens
           /\ \A t \in assigned : Fresh(t)
           /\ \A s, t \in assigned : s.ip = t.ip \/ s.num = t.num => s = t
<1> DEFINE K == Cardinality(new)
<1>1. PICK f \in [new -> (n + 1)..(n + K)] :
          /\ \A a, b \in new : f[a] = f[b] => a = b
          /\ assigned = {[ip |-> ip, num |-> f[ip]] : ip \in new}
  BY DEF Assignments
<1>2. \A ip \in new : f[ip] \in Nat /\ f[ip] > n
  <2> SUFFICES ASSUME NEW ip \in new PROVE f[ip] \in Nat /\ f[ip] > n
    OBVIOUS
  <2>1. f[ip] \in (n + 1)..(n + K)
    BY <1>1
  <2> HIDE DEF K
  <2> QED
    BY <2>1
<1>3. assigned \subseteq Tokens
  BY <1>1, <1>2 DEF Tokens, Number
<1>4. \A t \in assigned : t.ip \in new /\ t.num > n
  BY <1>1, <1>2
<1>5. \A t \in assigned : Fresh(t)
  <2> SUFFICES ASSUME NEW t \in assigned, NEW row \in table
               PROVE  row.ip # t.ip /\ row.num # t.num
    BY DEF Fresh
  <2>1. row.num <= n /\ row.num \in Nat
    BY DEF IsHighest, Rows, Number
  <2>2. t.num \in Nat
    BY <1>3 DEF Tokens, Number
  <2> QED
    BY <1>4, <2>1, <2>2
<1>6. \A s, t \in assigned : s.ip = t.ip \/ s.num = t.num => s = t
  BY <1>1
<1> QED
  BY <1>3, <1>5, <1>6

LEMMA InitInv == Init => IInv
BY DEF Init, IInv, TypeOK, Phases, Undisturbed, PCs

\* A coroutine only ever moves to a point of the program.
LEMMA GotoType ==
    ASSUME NEW r \in Requests, NEW there \in PCs, pc \in [Requests -> PCs], Goto(r, there)
    PROVE  pc' \in [Requests -> PCs]
BY DEF Goto

\* A request that nothing touched stays undisturbed.
LEMMA Untouched ==
    ASSUME NEW q \in Requests, Undisturbed(q), table' = table,
           pending'[q] = pending[q], sent'[q] = sent[q], restored'[q] = restored[q]
    PROVE  Undisturbed(q)'
BY DEF Undisturbed, Fresh, InTable

LEMMA RedactKeeps ==
    ASSUME IInv, NEW r \in Requests, Redact(r)
    PROVE  IInv'
<1> USE DEF IInv
<1> DEFINE text == Head(todo[r])
           known == Known(text)
           new == text \ {t.ip : t \in known}
<1>1. text \in SUBSET Ips /\ Tail(todo[r]) \in Seq(SUBSET Ips)
  BY DEF TypeOK, Redact
<1>2. known \subseteq Tokens /\ \A t \in known : InTable(t)
  BY DEF Known, TypeOK, Rows, Tokens, InTable
<1>3. new \subseteq Ips /\ \A row \in table : row.ip \notin new
  <2>1. ASSUME NEW row \in table, row.ip \in text
        PROVE  \E t \in known : t.ip = row.ip
    <3> DEFINE token == [ip |-> row.ip, num |-> row.num]
    <3>1. token \in known
      BY <2>1 DEF Known
    <3>2. token.ip = row.ip
      OBVIOUS
    <3> HIDE DEF token, known
    <3> QED
      BY <3>1, <3>2
  <2> HIDE DEF text, known
  <2> QED
    BY <1>1, <2>1
<1> HIDE DEF known, text
<1>4. PICK n \in {0} \cup {row.num : row \in table} :
          /\ IsHighest(n)
          /\ \E assigned \in Assignments(new, n) :
               /\ pending' = [pending EXCEPT ![r] = assigned]
               /\ sent' = [sent EXCEPT ![r] = @ \cup known \cup assigned]
               /\ Goto(r, IF assigned = {} THEN "redact" ELSE "record")
  BY DEF Redact, text, known
<1>5. PICK assigned \in Assignments(new, n) :
          /\ pending' = [pending EXCEPT ![r] = assigned]
          /\ sent' = [sent EXCEPT ![r] = @ \cup known \cup assigned]
          /\ Goto(r, IF assigned = {} THEN "redact" ELSE "record")
  BY <1>4
<1>6. n \in Nat
  BY DEF TypeOK, Rows, Number
<1> HIDE DEF new
<1>7. /\ assigned \subseteq Tokens
      /\ \A t \in assigned : Fresh(t)
      /\ \A s, t \in assigned : s.ip = t.ip \/ s.num = t.num => s = t
  BY <1>3, <1>4, <1>6, AssignmentsFresh DEF TypeOK
<1>8. UNCHANGED <<table, lastId, restored, disturbed>>
  BY DEF Redact
<1>9. pending[r] = {}
  BY DEF Phases, Redact
<1>10. TypeOK'
  <2>1. pc' \in [Requests -> PCs]
    BY <1>5, GotoType DEF TypeOK, PCs
  <2>2. todo' \in [Requests -> Seq(SUBSET Ips)]
    BY <1>1 DEF Redact, TypeOK, text
  <2>3. pending' \in [Requests -> SUBSET Tokens]
    BY <1>5, <1>7 DEF TypeOK
  <2>4. sent' \in [Requests -> SUBSET Tokens]
    BY <1>2, <1>5, <1>7 DEF TypeOK
  <2> QED
    BY <1>8, <2>1, <2>2, <2>3, <2>4 DEF TypeOK
<1>11. Phases'
  BY <1>5, <1>8, <1>9 DEF Phases, Goto, TypeOK
<1>12. ASSUME NEW q \in Requests \ disturbed' PROVE Undisturbed(q)'
  <2>1. CASE q # r
    BY <1>5, <1>8, <1>12, <2>1, Untouched DEF TypeOK
  <2>2. CASE q = r
    <3>1. pending'[q] = assigned /\ sent'[q] = sent[q] \cup known \cup assigned
      BY <1>5, <2>2 DEF TypeOK
    <3>2. \A t \in sent[q] : InTable(t)
      BY <1>8, <1>9, <1>12, <2>2 DEF Undisturbed
    <3>3. restored'[q] # None => restored'[q].got = restored'[q].ip
      BY <1>8, <1>12 DEF Undisturbed
    <3> QED
      BY <1>2, <1>7, <1>8, <3>1, <3>2, <3>3 DEF Undisturbed, Fresh, InTable
  <2> QED
    BY <2>1, <2>2
<1> QED
  BY <1>10, <1>11, <1>12

LEMMA RecordKeeps ==
    ASSUME IInv, NEW r \in Requests, Record(r)
    PROVE  IInv'
<1> USE DEF IInv
<1>1. PICK token \in pending[r] :
         /\ \A other \in pending[r] : token.num <= other.num
         /\ pending' = [pending EXCEPT ![r] = @ \ {token}]
         /\ Goto(r, IF pending[r] = {token} THEN "redact" ELSE "record")
         /\ IF Conflicts(token)
            THEN UNCHANGED <<table, lastId, disturbed>>
            ELSE /\ table' = table \cup
                        {[id |-> lastId + 1, ip |-> token.ip, num |-> token.num]}
                 /\ lastId' = lastId + 1
                 /\ disturbed' = disturbed \cup
                        {q \in Requests \ {r} : pending[q] # {}}
  BY DEF Record
<1>2. UNCHANGED <<todo, sent, restored>>
  BY DEF Record
<1>3. token \in Tokens
  BY DEF TypeOK
<1>4. table' \subseteq Rows /\ lastId' \in Nat /\ disturbed' \subseteq Requests
  BY <1>1, <1>3 DEF TypeOK, Rows, Tokens, Number
<1>5. \A x, y \in table' : x.ip = y.ip \/ x.num = y.num => x = y
  <2>1. CASE Conflicts(token)
    BY <1>1, <2>1 DEF TypeOK
  <2>2. CASE ~Conflicts(token)
    <3> DEFINE added == [id |-> lastId + 1, ip |-> token.ip, num |-> token.num]
    <3>1. \A x \in table : x.ip # added.ip /\ x.num # added.num
      BY <2>2 DEF Conflicts
    <3>2. table' = table \cup {added}
      BY <1>1, <2>2
    <3> HIDE DEF added
    <3> QED
      BY <3>1, <3>2 DEF TypeOK
  <2> QED
    BY <2>1, <2>2
<1>6. TypeOK'
  <2>1. pc' \in [Requests -> PCs]
    BY <1>1, GotoType DEF TypeOK, PCs
  <2>2. pending' \in [Requests -> SUBSET Tokens]
    BY <1>1 DEF TypeOK
  <2> QED
    BY <1>2, <1>4, <1>5, <2>1, <2>2 DEF TypeOK
<1>7. Phases'
  BY <1>1, <1>2 DEF Phases, Goto, TypeOK, Record
<1>8. ASSUME NEW q \in Requests \ disturbed' PROVE Undisturbed(q)'
  <2>1. Undisturbed(q)
    BY <1>1, <1>8
  <2>2. restored'[q] # None => restored'[q].got = restored'[q].ip
    BY <1>2, <2>1 DEF Undisturbed
  <2>3. CASE q # r /\ Conflicts(token)
    BY <1>1, <1>2, <2>1, <2>3, Untouched DEF TypeOK
  <2>4. CASE q # r /\ ~Conflicts(token)
    <3>1. pending[q] = {} /\ pending'[q] = {}
      BY <1>1, <1>8, <2>4 DEF TypeOK
    <3>2. \A t \in sent[q] : InTable(t)'
      BY <1>1, <2>1, <2>4, <3>1 DEF Undisturbed, InTable
    <3> QED
      BY <1>2, <2>2, <3>1, <3>2 DEF Undisturbed
  <2>5. CASE q = r
    <3> DEFINE added == [id |-> lastId + 1, ip |-> token.ip, num |-> token.num]
    <3>1. ~Conflicts(token)
      BY <2>1, <2>5 DEF Undisturbed, Fresh, Conflicts
    <3>2. table' = table \cup {added} /\ added.ip = token.ip /\ added.num = token.num
      BY <1>1, <3>1
    <3> HIDE DEF added
    <3>3. pending'[r] = pending[r] \ {token}
      BY <1>1 DEF TypeOK
    <3>4. \A t \in pending'[r] : Fresh(t)'
      BY <2>1, <2>5, <3>2, <3>3 DEF Undisturbed, Fresh
    <3>5. \A t \in sent'[r] \ pending'[r] : InTable(t)'
      BY <1>2, <2>1, <2>5, <3>2, <3>3 DEF Undisturbed, InTable
    <3>6. \A s, t \in pending'[r] : s.ip = t.ip \/ s.num = t.num => s = t
      BY <2>1, <2>5, <3>3 DEF Undisturbed
    <3> QED
      BY <2>2, <2>5, <3>4, <3>5, <3>6 DEF Undisturbed
  <2> QED
    BY <2>3, <2>4, <2>5
<1> QED
  BY <1>6, <1>7, <1>8

LEMMA RehydrateKeeps ==
    ASSUME IInv, NEW r \in Requests, Rehydrate(r)
    PROVE  IInv'
<1> USE DEF IInv
<1>1. PICK token \in sent[r], got \in Ips \cup {None} :
          /\ \/ \E row \in table : row.num = token.num /\ row.ip = got
             \/ got = None /\ \A row \in table : row.num # token.num
          /\ restored' = [restored EXCEPT ![r] =
                  [ip |-> token.ip, num |-> token.num, got |-> got]]
  BY DEF Rehydrate
<1>2. UNCHANGED <<table, lastId, pc, todo, pending, sent, disturbed>>
  BY DEF Rehydrate
<1>3. restored' \in [Requests -> Answers \cup {None}]
  BY <1>1 DEF TypeOK, Tokens, Answers
<1>4. TypeOK'
  BY <1>2, <1>3 DEF TypeOK
<1>5. Phases'
  BY <1>1, <1>2 DEF Phases, TypeOK
<1>6. ASSUME NEW q \in Requests \ disturbed' PROVE Undisturbed(q)'
  <2>1. Undisturbed(q)
    BY <1>2, <1>6
  <2>2. CASE q # r
    BY <1>1, <1>2, <2>1, <2>2, Untouched DEF TypeOK
  <2>3. CASE q = r
    <3>1. pending[r] = {}
      BY DEF Phases, Rehydrate
    <3>2. PICK row \in table : row.ip = token.ip /\ row.num = token.num
      BY <2>1, <2>3, <3>1 DEF Undisturbed, InTable
    <3>3. got = token.ip
      BY <1>1, <3>2 DEF TypeOK
    <3>4. restored'[r].got = restored'[r].ip
      BY <1>1, <3>3 DEF TypeOK
    <3> QED
      BY <1>2, <2>1, <2>3, <3>4 DEF Undisturbed, Fresh, InTable
  <2> QED
    BY <2>2, <2>3
<1> QED
  BY <1>4, <1>5, <1>6

LEMMA FinishKeeps ==
    ASSUME IInv, NEW r \in Requests, Finish(r)
    PROVE  IInv'
<1> USE DEF IInv
<1>1. restored' = [restored EXCEPT ![r] = None]
      /\ UNCHANGED <<table, lastId, todo, pending, sent, disturbed>>
  BY DEF Finish
<1>2. TypeOK'
  BY <1>1, GotoType DEF Finish, TypeOK, PCs
<1>3. Phases'
  BY <1>1 DEF Finish, Goto, Phases, TypeOK
<1>4. ASSUME NEW q \in Requests \ disturbed' PROVE Undisturbed(q)'
  <2>1. Undisturbed(q)
    BY <1>1, <1>4
  <2>2. restored'[q] = restored[q] \/ restored'[q] = None
    BY <1>1 DEF TypeOK
  <2> QED
    BY <1>1, <2>1, <2>2 DEF Undisturbed, Fresh, InTable
<1> QED
  BY <1>2, <1>3, <1>4

\* A purge leaves only requests undisturbed that have not read the table.
LEMMA PurgeKeeps == ASSUME IInv, Purge PROVE IInv'
<1> USE DEF IInv
<1>1. table' \subseteq table
      /\ disturbed' = disturbed \cup {r \in Requests : sent[r] # {}}
      /\ UNCHANGED <<lastId, pc, todo, pending, sent, restored>>
  BY DEF Purge
<1>2. TypeOK'
  BY <1>1 DEF TypeOK
<1>3. Phases'
  BY <1>1 DEF Phases
<1>4. ASSUME NEW q \in Requests \ disturbed' PROVE Undisturbed(q)'
  <2>1. sent[q] = {} /\ pending[q] = {} /\ restored[q] = None
    BY <1>1, <1>4 DEF Phases
  <2> QED
    BY <1>1, <2>1 DEF Undisturbed
<1> QED
  BY <1>2, <1>3, <1>4

LEMMA CrashKeeps == ASSUME IInv, Crash PROVE IInv'
<1> USE DEF IInv
<1>1. UNCHANGED <<table, lastId, disturbed>>
  BY DEF Crash
<1>2. TypeOK'
  <2>1. <<>> \in Seq(SUBSET Ips)
    OBVIOUS
  <2>2. todo' \in [Requests -> Seq(SUBSET Ips)]
    BY <2>1 DEF Crash
  <2>3. sent' \in [Requests -> SUBSET Tokens]
    BY DEF Crash, TypeOK
  <2>4. pc' \in [Requests -> PCs]
    BY DEF Crash, TypeOK, PCs
  <2>5. pending' \in [Requests -> SUBSET Tokens]
        /\ restored' \in [Requests -> Answers \cup {None}]
    BY DEF Crash
  <2> QED
    BY <1>1, <2>2, <2>3, <2>4, <2>5 DEF TypeOK
<1>3. Phases'
  BY DEF Crash, Phases
<1>4. ASSUME NEW q \in Requests \ disturbed' PROVE Undisturbed(q)'
  <2>1. Undisturbed(q)
    BY <1>1, <1>4
  <2>2. pending'[q] = {} /\ restored'[q] = None
    BY DEF Crash
  <2>3. \A t \in sent'[q] : InTable(t)
    <3>1. CASE pc[q] \in InFlight
      BY <3>1 DEF Crash
    <3>2. CASE pc[q] \notin InFlight
      <4>1. pending[q] = {}
        BY <3>2 DEF Phases, InFlight
      <4>2. sent'[q] = sent[q]
        BY <3>2 DEF Crash
      <4> QED
        BY <2>1, <4>1, <4>2 DEF Undisturbed
    <3> QED
      BY <3>1, <3>2
  <2> QED
    BY <1>1, <2>2, <2>3 DEF Undisturbed, InTable
<1> QED
  BY <1>2, <1>3, <1>4

LEMMA NextKeeps == ASSUME IInv, [Next]_vars PROVE IInv'
<1>1. ASSUME NEW r \in Requests, Arrive(r) PROVE IInv'
  <2>1. UNCHANGED <<table, lastId, pending, sent, restored, disturbed>>
    BY <1>1 DEF Arrive
  <2>2. TypeOK'
    BY <1>1, <2>1, GotoType, IpRedactionAssumption DEF IInv, Arrive, TypeOK, PCs
  <2>3. Phases'
    BY <1>1, <2>1 DEF IInv, Arrive, Phases, Goto, TypeOK
  <2> QED
    BY <2>1, <2>2, <2>3 DEF IInv, Undisturbed, Fresh, InTable
<1>2. ASSUME NEW r \in Requests, Forward(r) PROVE IInv'
  <2>1. UNCHANGED <<table, lastId, todo, pending, sent, restored, disturbed>>
    BY <1>2 DEF Forward
  <2>2. TypeOK'
    BY <1>2, <2>1, GotoType DEF IInv, Forward, TypeOK, PCs
  <2>3. Phases'
    BY <1>2, <2>1 DEF IInv, Forward, Phases, Goto, TypeOK
  <2> QED
    BY <2>1, <2>2, <2>3 DEF IInv, Undisturbed, Fresh, InTable
<1>3. CASE UNCHANGED vars
  BY <1>3 DEF vars, IInv, TypeOK, Phases, Undisturbed, Fresh, InTable
<1> QED
  BY <1>1, <1>2, <1>3, RedactKeeps, RecordKeeps, RehydrateKeeps, FinishKeeps,
     PurgeKeeps, CrashKeeps DEF Next, RequestStep

LEMMA Invariance == Spec => []IInv
BY InitInv, NextKeeps, PTL DEF Spec

\* Types and unique constraints, for every session.
THEOREM TypeCorrect == Spec => []TypeOK
<1>1. IInv => TypeOK
  BY DEF IInv
<1> QED
  BY <1>1, Invariance, PTL

\* An undisturbed request reads back the addresses it wrote.
THEOREM RoundTrips == Spec => []RoundTrip
<1>1. IInv => RoundTrip
  BY DEF IInv, RoundTrip, Undisturbed
<1> QED
  BY <1>1, Invariance, PTL

\* Undisturbed requests agree on the token of every address.
THEOREM Stability == Spec => []StableTokens
<1>1. ASSUME IInv PROVE StableTokens
  <2> SUFFICES ASSUME NEW r \in Requests \ disturbed, NEW q \in Requests \ disturbed,
                      pc[r] \in {"upstream", "done"}, pc[q] \in {"upstream", "done"},
                      NEW s \in sent[r], NEW t \in sent[q]
               PROVE  s.ip = t.ip <=> s.num = t.num
    BY DEF StableTokens
  <2>1. InTable(s) /\ InTable(t)
    BY <1>1 DEF IInv, Phases, Undisturbed
  <2> QED
    BY <1>1, <2>1 DEF IInv, TypeOK, InTable
<1> QED
  BY <1>1, Invariance, PTL
=============================================================================
