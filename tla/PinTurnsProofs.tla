--------------------------- MODULE PinTurnsProofs ---------------------------
(***************************************************************************)
(* What holds of the turns of a pinned session for any number of turns and *)
(* calls, any options and any setting of the escalation block: the types;  *)
(* the caps and the ceiling of every copy of the pin and the evidence for  *)
(* the top tier, with both stores; and, with the in-memory store, the caps *)
(* on the moves made in all, the failure mark, the cooldown and what lets  *)
(* the tier go down.                                                       *)
(***************************************************************************)
EXTENDS PinTurns, TLAPS

LEMMA FromNumericType == ASSUME NEW n \in Int PROVE FromNumeric(n) \in Level
BY DEF FromNumeric, Level

\* Clamping keeps a level a level.
LEMMA ClampType ==
    ASSUME NEW l \in Level, NEW max \in Level \cup {NoLevel}, NEW min \in Level \cup {NoLevel}
    PROVE  Clamp(l, max, min) \in Level
BY DEF Clamp, Level, NoLevel

\* What the code does to a pin leaves it a pin; and what it does to the counters.
LEMMA MarkPin ==
    ASSUME NEW p \in PinType
    PROVE  /\ Failed(p) \in PinType
           /\ Failed(p).count = p.count /\ Failed(p).retries = p.retries
           /\ Cleared(p) \in PinType
           /\ Cleared(p).count = p.count /\ Cleared(p).retries = p.retries
           /\ Retried(p) \in PinType
           /\ Retried(p).count = p.count /\ Retried(p).retries = p.retries + 1
BY DEF PinType, Failed, Cleared, Retried

LEMMA TurnPin ==
    ASSUME NEW p \in PinType
    PROVE  /\ [p EXCEPT !.turns = @ + 1] \in PinType
           /\ [p EXCEPT !.turns = @ + 1].count = p.count
           /\ [p EXCEPT !.turns = @ + 1].retries = p.retries
BY DEF PinType

LEMMA ScorePin ==
    ASSUME NEW p \in PinType, NEW n \in Int
    PROVE  /\ [p EXCEPT !.score = n] \in PinType
           /\ [p EXCEPT !.score = n].count = p.count
           /\ [p EXCEPT !.score = n].retries = p.retries
BY DEF PinType

LEMMA LevelPin ==
    ASSUME NEW p \in PinType, NEW l \in Level
    PROVE  /\ AtLevel(p, l) \in PinType
           /\ AtLevel(p, l).count = p.count /\ AtLevel(p, l).retries = p.retries
           /\ MovedUp(p, l) \in PinType
           /\ MovedUp(p, l).count = p.count + 1 /\ MovedUp(p, l).retries = p.retries
<1> USE DEF PinType
<1>1. AtLevel(p, l) \in PinType /\ AtLevel(p, l).count = p.count
      /\ AtLevel(p, l).retries = p.retries
  BY DEF AtLevel
<1>2. MovedUp(p, l) \in PinType /\ MovedUp(p, l).count = p.count + 1
      /\ MovedUp(p, l).retries = p.retries
  BY PinTurnsAssumption DEF MovedUp
<1> QED
  BY <1>1, <1>2

-----------------------------------------------------------------------------
\* The shape of every step: the acting coroutine makes `p` of the pin it saw,
\* or of the one it loads, and each counter of `p` moves by at most one, under
\* its cap and together with its history.
Change(a) ==
    \E p \in PinType, q \in {Seen(a), stored} :
        /\ stored' \in {stored, Seen(a), p}
        /\ Backend = "memory" => stored' = p
        /\ copy' \in {copy, [copy EXCEPT ![a] = p]}
        /\ \/ p.count = q.count /\ escalated' = escalated
           \/ p.count = q.count + 1 /\ q.count < MaxEscalations /\ escalated' = escalated + 1
        /\ \/ p.retries = q.retries /\ retried' = retried
           \/ p.retries = q.retries + 1 /\ q.retries < MaxRetries /\ retried' = retried + 1

LEMMA SeenType == ASSUME TypeOK, NEW a \in Actors PROVE Seen(a) \in PinType
BY DEF TypeOK, Seen

\* The three ways a coroutine writes a pin, as changes.
LEMMA MutateChanges ==
    ASSUME TypeOK, NEW a \in Actors, NEW p \in PinType,
           Mutate(a, p) \/ MutateAndPut(a, p),
           \/ p.count = Seen(a).count /\ escalated' = escalated
           \/ /\ p.count = Seen(a).count + 1 /\ Seen(a).count < MaxEscalations
              /\ escalated' = escalated + 1,
           \/ p.retries = Seen(a).retries /\ retried' = retried
           \/ /\ p.retries = Seen(a).retries + 1 /\ Seen(a).retries < MaxRetries
              /\ retried' = retried + 1
    PROVE  Change(a)
<1>1. /\ stored' \in {stored, Seen(a), p}
      /\ Backend = "memory" => stored' = p
      /\ copy' \in {copy, [copy EXCEPT ![a] = p]}
  BY DEF Mutate, MutateAndPut
<1> QED
  BY <1>1 DEF Change

LEMMA LoadChanges ==
    ASSUME TypeOK, NEW a \in Actors, Load(a), escalated' = escalated, retried' = retried
    PROVE  Change(a)
<1>1. /\ stored' = stored
      /\ copy' \in {copy, [copy EXCEPT ![a] = stored]}
  BY DEF Load
<1>2. stored \in PinType
  BY DEF TypeOK
<1> QED
  BY <1>1, <1>2 DEF Change

LEMMA PutChanges ==
    ASSUME TypeOK, NEW a \in Actors, Put(a) \/ UNCHANGED <<stored, copy>>,
           escalated' = escalated, retried' = retried
    PROVE  Change(a)
<1>1. /\ stored' \in {stored, Seen(a)}
      /\ Backend = "memory" => stored' = Seen(a)
      /\ copy' = copy
  BY DEF Put, Seen
<1>2. Seen(a) \in PinType
  BY SeenType
<1> QED
  BY <1>1, <1>2 DEF Change

\* Every step of a turn has that shape.
LEMMA TurnChanges ==
    ASSUME TypeOK, NEW t \in Turns, TurnStep(t)
    PROVE  Change(t)
<1> USE PinTurnsAssumption
<1>0. t \in Actors
  BY DEF Actors
<1>1. Seen(t) \in PinType /\ opt[t] \in OptionType /\ route[t] \in Level
  BY <1>0, SeenType DEF TypeOK
<1>2. CASE Arrive(t)
  BY <1>0, <1>2, LoadChanges DEF Arrive
<1>3. CASE Hit(t)
  <2> DEFINE turned == [Seen(t) EXCEPT !.turns = @ + 1]
             level == IF opt[t].forced # NoLevel /\ opt[t].repin
                      THEN opt[t].forced ELSE Seen(t).level
  <2>1. level \in Level
    BY <1>1 DEF OptionType, PinType
  <2>2. turned \in PinType /\ turned.count = Seen(t).count /\ turned.retries = Seen(t).retries
    BY <1>1, TurnPin
  <2> HIDE DEF turned, level
  <2>3. /\ AtLevel(turned, level) \in PinType
        /\ AtLevel(turned, level).count = Seen(t).count
        /\ AtLevel(turned, level).retries = Seen(t).retries
    BY <2>1, <2>2, LevelPin
  <2>4. MutateAndPut(t, AtLevel(turned, level)) /\ escalated' = escalated /\ retried' = retried
    BY <1>3 DEF Hit, turned, level
  <2> QED
    BY <1>0, <2>3, <2>4, MutateChanges
<1>4. CASE SignalsQuiet(t)
  <2> DEFINE left == Seen(t).score - Decay
             score == IF left > 0 THEN left ELSE 0
             p == [Seen(t) EXCEPT !.score = score]
  <2>1. score \in Int
    BY <1>1 DEF PinType
  <2> HIDE DEF score
  <2>3. p \in PinType /\ p.count = Seen(t).count /\ p.retries = Seen(t).retries
    BY <1>1, <2>1, ScorePin
  <2>4. Mutate(t, p) /\ escalated' = escalated /\ retried' = retried
    BY <1>4 DEF SignalsQuiet, score
  <2> HIDE DEF p
  <2> QED
    BY <1>0, <2>3, <2>4, MutateChanges
<1>5. CASE SignalsFire(t)
  <2> DEFINE fired == Fired(opt[t], Seen(t))
             score == Seen(t).score + fired
             scored == [Seen(t) EXCEPT !.score = score]
             new == FromNumeric(scored.level + 1)
             moved == [MovedUp(scored, new) EXCEPT !.score = 0]
  <2>1. score \in Int
    BY <1>1 DEF Fired, OptionType, PinType, TurnDepthWeight, FailureWeight
  <2>2. 0 \in Int
    OBVIOUS
  <2> HIDE DEF score
  <2>3. scored \in PinType /\ scored.count = Seen(t).count /\ scored.retries = Seen(t).retries
    BY <1>1, <2>1, ScorePin
  <2> HIDE DEF scored
  <2>4. new \in Level
    BY <2>3, FromNumericType DEF PinType, Level
  <2> HIDE DEF new
  <2>5. /\ MovedUp(scored, new) \in PinType
        /\ MovedUp(scored, new).count = scored.count + 1
        /\ MovedUp(scored, new).retries = scored.retries
    BY <2>3, <2>4, LevelPin
  <2>6. /\ moved \in PinType
        /\ moved.count = Seen(t).count + 1 /\ moved.retries = Seen(t).retries
    BY <2>2, <2>3, <2>5, ScorePin
  <2>7. \/ Mutate(t, scored) /\ escalated' = escalated /\ retried' = retried
        \/ /\ Mutate(t, moved) /\ escalated' = escalated + 1 /\ retried' = retried
           /\ scored.count < MaxEscalations
    BY <1>5 DEF SignalsFire, MayEscalate, scored, score, new
  <2> HIDE DEF moved
  <2> QED
    BY <1>0, <2>3, <2>6, <2>7, MutateChanges
<1>6. CASE EscalationPut(t) \/ RetryPut(t) \/ StreamOpens(t) \/ RestreamOpens(t)
           \/ RestreamFails(t) \/ Refused(t) \/ ClientLeaves(t)
  BY <1>0, <1>6, PutChanges DEF EscalationPut, RetryPut, StreamOpens, RestreamOpens,
     RestreamFails, Refused, ClientLeaves
<1>7. CASE Answer(t)
  <2>2. /\ Cleared(Seen(t)) \in PinType /\ Cleared(Seen(t)).count = Seen(t).count
        /\ Cleared(Seen(t)).retries = Seen(t).retries
    BY <1>1, MarkPin
  <2> QED
    BY <1>0, <1>7, <2>2, MutateChanges DEF Answer
<1>8. CASE Fail(t) \/ StreamBreaks(t)
  <2>2. /\ Failed(Seen(t)) \in PinType /\ Failed(Seen(t)).count = Seen(t).count
        /\ Failed(Seen(t)).retries = Seen(t).retries
    BY <1>1, MarkPin
  <2> QED
    BY <1>0, <1>8, <2>2, MutateChanges DEF Fail, StreamBreaks
<1>9. CASE Retry(t) \/ StallRecovers(t)
  <2>1. PICK new \in Level :
            /\ Mutate(t, AtLevel(Retried(Failed(Seen(t))), new))
            /\ Seen(t).retries < MaxRetries
            /\ retried' = retried + 1 /\ escalated' = escalated
    <3>1. \A n \in Level : FromNumeric(n + 1) \in Level
      BY FromNumericType DEF Level
    <3>2. CASE Retry(t)
      BY <1>1, <3>1, <3>2 DEF Retry, MayRetry, PinType
    <3>3. CASE StallRecovers(t)
      BY <1>1, <3>1, <3>3 DEF StallRecovers
    <3> QED
      BY <1>9, <3>2, <3>3
  <2> DEFINE p == AtLevel(Retried(Failed(Seen(t))), new)
  <2>3. /\ Failed(Seen(t)) \in PinType /\ Failed(Seen(t)).count = Seen(t).count
        /\ Failed(Seen(t)).retries = Seen(t).retries
    BY <1>1, MarkPin
  <2>4. /\ Retried(Failed(Seen(t))) \in PinType
        /\ Retried(Failed(Seen(t))).count = Seen(t).count
        /\ Retried(Failed(Seen(t))).retries = Seen(t).retries + 1
    BY <2>3, MarkPin
  <2>5. p \in PinType /\ p.count = Seen(t).count /\ p.retries = Seen(t).retries + 1
    BY <2>1, <2>4, LevelPin
  <2>6. Mutate(t, p)
    BY <2>1
  <2> HIDE DEF p
  <2> QED
    BY <1>0, <2>1, <2>5, <2>6, MutateChanges
<1>10. CASE StreamEnds(t)
  <2> DEFINE p == Cleared(Seen(t))
  <2>2. p \in PinType /\ p.count = Seen(t).count /\ p.retries = Seen(t).retries
    BY <1>1, MarkPin
  <2>3. /\ stored' \in {stored, Seen(t), p}
        /\ Backend = "memory" => stored' = p
        /\ copy' \in {copy, [copy EXCEPT ![t] = p]}
        /\ escalated' = escalated /\ retried' = retried
    BY <1>10 DEF StreamEnds, Seen
  <2> HIDE DEF p
  <2> QED
    BY <2>2, <2>3 DEF Change
<1> QED
  BY <1>2, <1>3, <1>4, <1>5, <1>6, <1>7, <1>8, <1>9, <1>10 DEF TurnStep

\* So has every step of a /signal or a PUT call.
LEMMA SignalChanges ==
    ASSUME TypeOK, NEW s \in Signals, SignalStep(s)
    PROVE  Change(s)
<1> USE PinTurnsAssumption
<1>0. s \in Actors
  BY DEF Actors
<1>1. Seen(s) \in PinType
  BY <1>0, SeenType
<1>2. CASE LoadForSignal(s)
  BY <1>0, <1>2, LoadChanges DEF LoadForSignal
<1>3. CASE SignalPut(s)
  <2>1. PICK e \in Evidence :
          LET scored == [Seen(s) EXCEPT !.score = @ + e.weight]
              new == FromNumeric(scored.level + 1)
              moves == MayEscalate(scored, new)
          IN  /\ MutateAndPut(s, IF moves THEN MovedUp(scored, new) ELSE scored)
              /\ escalated' = IF moves THEN escalated + 1 ELSE escalated
    BY <1>3 DEF SignalPut
  <2> DEFINE score == Seen(s).score + e.weight
             scored == [Seen(s) EXCEPT !.score = score]
             new == FromNumeric(scored.level + 1)
  <2>2. score \in Int
    BY <1>1 DEF EvidenceType, PinType
  <2>3. /\ \/ MutateAndPut(s, scored) /\ escalated' = escalated
           \/ /\ MutateAndPut(s, MovedUp(scored, new)) /\ escalated' = escalated + 1
              /\ scored.count < MaxEscalations
        /\ retried' = retried
    BY <1>3, <2>1 DEF SignalPut, MayEscalate
  <2> HIDE DEF score
  <2>4. scored \in PinType /\ scored.count = Seen(s).count /\ scored.retries = Seen(s).retries
    BY <1>1, <2>2, ScorePin
  <2> HIDE DEF scored
  <2>5. new \in Level
    BY <2>4, FromNumericType DEF PinType, Level
  <2> HIDE DEF new
  <2>6. /\ MovedUp(scored, new) \in PinType
        /\ MovedUp(scored, new).count = Seen(s).count + 1
        /\ MovedUp(scored, new).retries = Seen(s).retries
    <3>1. /\ MovedUp(scored, new) \in PinType
          /\ MovedUp(scored, new).count = scored.count + 1
          /\ MovedUp(scored, new).retries = scored.retries
      BY <2>4, <2>5, LevelPin
    <3> QED
      BY <2>4, <3>1
  <2> QED
    BY <1>0, <2>3, <2>4, <2>6, MutateChanges
<1> QED
  BY <1>2, <1>3 DEF SignalStep

LEMMA SetterChanges ==
    ASSUME TypeOK, NEW s \in Setters, SetterStep(s)
    PROVE  Change(s)
<1>0. s \in Actors
  BY DEF Actors
<1>1. CASE LoadForSet(s)
  BY <1>0, <1>1, LoadChanges DEF LoadForSet
<1>2. CASE SetPut(s)
  <2>1. PICK l \in Level : MutateAndPut(s, AtLevel(Seen(s), l))
    BY <1>2, PinTurnsAssumption DEF SetPut
  <2>2. /\ AtLevel(Seen(s), l) \in PinType
        /\ AtLevel(Seen(s), l).count = Seen(s).count
        /\ AtLevel(Seen(s), l).retries = Seen(s).retries
    BY <1>0, SeenType, LevelPin
  <2>3. escalated' = escalated /\ retried' = retried
    BY <1>2 DEF SetPut
  <2> QED
    BY <1>0, <2>1, <2>2, <2>3, MutateChanges
<1> QED
  BY <1>1, <1>2 DEF SetterStep

LEMMA StepChanges ==
    ASSUME TypeOK, Next PROVE \E a \in Actors : Change(a)
BY TurnChanges, SignalChanges, SetterChanges DEF Next, Actors

-----------------------------------------------------------------------------
\* The rest of the state: control, requests, routes and histories.
LEMMA ControlType ==
    ASSUME TypeOK, Next
    PROVE  /\ pc' \in [Actors -> PCs]
           /\ opt' \in [Turns -> Options]
           /\ route' \in [Turns -> Level]
           /\ strongSeen' \in BOOLEAN /\ called' \in BOOLEAN /\ lastOutcome' \in {"none", "ok", "failed", "lost"}
<1> USE PinTurnsAssumption DEF TypeOK, Goto, PCs
<1>1. ASSUME NEW t \in Turns, TurnStep(t)
      PROVE  /\ pc' \in [Actors -> PCs]
             /\ opt' \in [Turns -> Options]
             /\ route' \in [Turns -> Level]
             /\ strongSeen' \in BOOLEAN /\ called' \in BOOLEAN /\ lastOutcome' \in {"none", "ok", "failed", "lost"}
  <2>0. t \in Actors
    BY DEF Actors
  <2>1. Seen(t) \in PinType /\ opt[t] \in OptionType
    BY <2>0, SeenType
  <2>2. \A l \in Level : Dispatch(t, l) => route' \in [Turns -> Level]
    BY DEF Dispatch
  <2>3. \A n \in Int : FromNumeric(n) \in Level
    BY FromNumericType
  <2>4. CASE Arrive(t)
    BY <2>0, <2>4 DEF Arrive
  <2>5. CASE Hit(t)
    <3>1. (IF opt[t].forced # NoLevel THEN opt[t].forced ELSE Seen(t).level) \in Level
      BY <2>1 DEF OptionType, PinType
    <3>2. Clamp(IF opt[t].forced # NoLevel THEN opt[t].forced ELSE Seen(t).level,
                opt[t].max, opt[t].min) \in Level
      BY <2>1, <3>1, ClampType DEF OptionType
    <3>3. route' = [route EXCEPT ![t] =
              Clamp(IF opt[t].forced # NoLevel THEN opt[t].forced ELSE Seen(t).level,
                    opt[t].max, opt[t].min)]
      BY <2>5 DEF Hit
    <3>4. route' \in [Turns -> Level]
      BY <3>2, <3>3
    <3> QED
      BY <2>0, <2>5, <3>4 DEF Hit
  <2>6. CASE SignalsQuiet(t)
    BY <2>0, <2>2, <2>6 DEF SignalsQuiet
  <2>7. CASE SignalsFire(t)
    <3>1. PICK new \in Level, strong \in BOOLEAN :
              /\ strongSeen' = (strongSeen \/ strong)
              /\ \/ route' = [route EXCEPT ![t] = new] /\ Goto(t, "escput")
                 \/ Dispatch(t, route[t]) /\ Goto(t, "upstream")
      <4> DEFINE scored == [Seen(t) EXCEPT !.score = @ + Fired(opt[t], Seen(t))]
      <4>1. scored.level = Seen(t).level
        BY <2>1 DEF PinType
      <4> HIDE DEF scored
      <4>2. FromNumeric(scored.level + 1) \in Level
        BY <2>1, <2>3, <4>1 DEF PinType, Level
      <4>3. StrongFired(opt[t], Seen(t)) \in BOOLEAN
        BY <2>1 DEF StrongFired, OptionType
      <4>4. /\ strongSeen' = (strongSeen \/ StrongFired(opt[t], Seen(t)))
            /\ \/ /\ route' = [route EXCEPT ![t] = FromNumeric(scored.level + 1)]
                  /\ Goto(t, "escput")
               \/ Dispatch(t, route[t]) /\ Goto(t, "upstream")
        BY <2>7 DEF SignalsFire, scored
      <4> QED
        BY <4>2, <4>3, <4>4
    <3>2. route' \in [Turns -> Level]
      BY <2>2, <3>1
    <3>3. strongSeen' \in BOOLEAN /\ called' \in BOOLEAN
      BY <2>0, <2>7, <3>1 DEF SignalsFire
    <3> QED
      BY <2>0, <2>7, <3>1, <3>2, <3>3 DEF SignalsFire
  <2>8. CASE EscalationPut(t) \/ RetryPut(t)
    BY <2>0, <2>2, <2>8 DEF EscalationPut, RetryPut
  <2>9. CASE Answer(t) \/ Fail(t) \/ StreamOpens(t) \/ StreamEnds(t) \/ StreamBreaks(t)
             \/ RestreamOpens(t) \/ RestreamFails(t) \/ Refused(t) \/ ClientLeaves(t)
    BY <2>0, <2>9 DEF Answer, Fail, StreamOpens, StreamEnds, StreamBreaks,
       RestreamOpens, RestreamFails, Refused, ClientLeaves
  <2>10. CASE Retry(t)
    <3>1. FromNumeric(Seen(t).level + 1) \in Level
      BY <2>1, <2>3 DEF PinType, Level
    <3> QED
      BY <2>0, <2>10, <3>1 DEF Retry
  <2>11. CASE StallRecovers(t)
    <3>1. FromNumeric(route[t] + 1) \in Level
      BY <2>3 DEF Level
    <3> QED
      BY <2>0, <2>11, <3>1 DEF StallRecovers
  <2> QED
    BY <1>1, <2>4, <2>5, <2>6, <2>7, <2>8, <2>9, <2>10, <2>11 DEF TurnStep
<1>2. ASSUME NEW s \in Signals, SignalStep(s)
      PROVE  /\ pc' \in [Actors -> PCs]
             /\ opt' \in [Turns -> Options]
             /\ route' \in [Turns -> Level]
             /\ strongSeen' \in BOOLEAN /\ called' \in BOOLEAN /\ lastOutcome' \in {"none", "ok", "failed", "lost"}
  <2>1. s \in Actors
    BY DEF Actors
  <2>2. CASE LoadForSignal(s)
    BY <2>1, <2>2 DEF LoadForSignal
  <2>3. CASE SignalPut(s)
    <3>1. strongSeen' \in BOOLEAN /\ called' \in BOOLEAN
      BY <2>3 DEF SignalPut, EvidenceType
    <3> QED
      BY <2>1, <2>3, <3>1 DEF SignalPut
  <2> QED
    BY <1>2, <2>2, <2>3 DEF SignalStep
<1>3. ASSUME NEW s \in Setters, SetterStep(s)
      PROVE  /\ pc' \in [Actors -> PCs]
             /\ opt' \in [Turns -> Options]
             /\ route' \in [Turns -> Level]
             /\ strongSeen' \in BOOLEAN /\ called' \in BOOLEAN /\ lastOutcome' \in {"none", "ok", "failed", "lost"}
  <2>1. s \in Actors
    BY DEF Actors
  <2> QED
    BY <1>3, <2>1 DEF SetterStep, LoadForSet, SetPut
<1> QED
  BY <1>1, <1>2, <1>3 DEF Next

LEMMA FreshType == ASSUME NEW l \in Level PROVE FreshPin(l) \in PinType
BY DEF FreshPin, PinType

LEMMA InitType == Init => TypeOK
<1> SUFFICES ASSUME Init PROVE TypeOK
  OBVIOUS
<1> USE PinTurnsAssumption
<1>1. PICK level \in StartLevels :
        /\ stored = FreshPin(level)
        /\ copy = [a \in Actors |-> FreshPin(level)]
        /\ route = [t \in Turns |-> level]
  BY DEF Init
<1>2. FreshPin(level) \in PinType /\ level \in Level
  BY FreshType
<1>3. (CHOOSE o \in Options : TRUE) \in Options
  OBVIOUS
<1>4. opt \in [Turns -> Options]
  BY <1>3 DEF Init
<1> QED
  BY <1>1, <1>2, <1>4 DEF Init, TypeOK, PCs

\* The pins and the two histories, from the shape of the step.
LEMMA ChangeType ==
    ASSUME TypeOK, NEW a \in Actors, Change(a)
    PROVE  /\ stored' \in PinType /\ copy' \in [Actors -> PinType]
           /\ escalated' \in Nat /\ retried' \in Nat
<1>1. Seen(a) \in PinType
  BY SeenType
<1> QED
  BY <1>1 DEF Change, TypeOK

\* The type invariant, for every instance.
THEOREM TypeCorrect == Spec => []TypeOK
<1>1. TypeOK /\ [Next]_vars => TypeOK'
  <2> SUFFICES ASSUME TypeOK, [Next]_vars PROVE TypeOK'
    OBVIOUS
  <2>1. CASE Next
    <3>1. PICK a \in Actors : Change(a)
      BY <2>1, StepChanges
    <3>2. /\ stored' \in PinType /\ copy' \in [Actors -> PinType]
          /\ escalated' \in Nat /\ retried' \in Nat
      BY <3>1, ChangeType
    <3> QED
      BY <2>1, <3>2, ControlType DEF TypeOK
  <2>2. CASE UNCHANGED vars
    BY <2>2 DEF vars, TypeOK
  <2> QED
    BY <2>1, <2>2
<1> QED
  BY <1>1, InitType, PTL DEF Spec

-----------------------------------------------------------------------------
\* No copy of the pin, in the store or in a worker's hands, is ever past a cap:
\* with both stores, however many updates are lost.
THEOREM CapsHold == Spec => []PinsCapped
<1> DEFINE Within(p) == p.count <= MaxEscalations /\ p.retries <= MaxRetries
<1>1. Init => PinsCapped
  BY PinTurnsAssumption DEF Init, PinsCapped, FreshPin
<1>2. TypeOK /\ PinsCapped /\ [Next]_vars => PinsCapped'
  <2> SUFFICES ASSUME TypeOK, PinsCapped, [Next]_vars PROVE PinsCapped'
    OBVIOUS
  <2>1. CASE Next
    <3>1. PICK a \in Actors : Change(a)
      BY <2>1, StepChanges
    <3>2. Seen(a) \in PinType /\ stored \in PinType
      BY SeenType DEF TypeOK
    <3>3. Within(Seen(a)) /\ Within(stored)
      BY DEF PinsCapped, Seen
    <3>4. PICK p \in PinType :
            /\ stored' \in {stored, Seen(a), p}
            /\ copy' \in {copy, [copy EXCEPT ![a] = p]}
            /\ Within(p)
      BY <3>1, <3>2, <3>3, PinTurnsAssumption DEF Change, PinType
    <3>5. \A b \in Actors : Within(copy'[b])
      BY <3>4 DEF PinsCapped, TypeOK
    <3> QED
      BY <3>3, <3>4, <3>5 DEF PinsCapped
  <2>2. CASE UNCHANGED vars
    BY <2>2 DEF vars, PinsCapped
  <2> QED
    BY <2>1, <2>2
<1> QED
  BY <1>1, <1>2, TypeCorrect, PTL DEF Spec

\* With the in-memory store every move of the session is in the one pin's
\* counters, so the caps bound the moves made in all.
MovesCounted ==
    /\ escalated = stored.count /\ retried = stored.retries
    /\ stored.count <= MaxEscalations /\ stored.retries <= MaxRetries

THEOREM MemoryBudgets == ASSUME Backend = "memory" PROVE Spec => []BudgetsKept
<1>1. Init => MovesCounted
  BY PinTurnsAssumption DEF Init, MovesCounted, FreshPin
<1>2. TypeOK /\ MovesCounted /\ [Next]_vars => MovesCounted'
  <2> SUFFICES ASSUME TypeOK, MovesCounted, [Next]_vars PROVE MovesCounted'
    OBVIOUS
  <2>1. CASE Next
    <3>1. PICK a \in Actors : Change(a)
      BY <2>1, StepChanges
    <3>2. Seen(a) = stored /\ stored \in PinType
      BY DEF Seen, TypeOK
    <3> QED
      BY <3>1, <3>2, PinTurnsAssumption DEF Change, MovesCounted, PinType
  <2>2. CASE UNCHANGED vars
    BY <2>2 DEF vars, MovesCounted
  <2> QED
    BY <2>1, <2>2
<1>3. MovesCounted => BudgetsKept
  BY DEF MovesCounted, BudgetsKept
<1> QED
  BY <1>1, <1>2, <1>3, TypeCorrect, PTL DEF Spec

-----------------------------------------------------------------------------
(* The ceiling                                                             *)

\* Sessions are pinned, set and asked for inside the global ceiling.
AskedInside ==
    /\ \A l \in StartLevels \cup SetLevels : l <= GlobalMax
    /\ DowngradeTo <= GlobalMax
    /\ \A o \in Options : o.forced <= GlobalMax /\ o.min <= GlobalMax

\* The ceiling, of every copy of the pin.
Ceiled ==
    /\ CeilingKept
    /\ \A a \in Actors : copy[a].level <= GlobalMax

LEMMA SameLevel ==
    ASSUME NEW p \in PinType, NEW n \in Int, NEW m \in Nat
    PROVE  /\ Failed(p).level = p.level /\ Cleared(p).level = p.level
           /\ Retried(p).level = p.level
           /\ [p EXCEPT !.score = n].level = p.level
           /\ [p EXCEPT !.turns = m].level = p.level
BY DEF PinType, Failed, Cleared, Retried

\* A pin that is written at or under the ceiling keeps it.
LEMMA CeiledWrite ==
    ASSUME TypeOK, Ceiled, NEW a \in Actors, NEW l \in Level, NEW p, p.level = l,
           l <= GlobalMax,
           \/ Mutate(a, p) \/ MutateAndPut(a, p),
           \A t \in Turns : route'[t] <= GlobalMax
    PROVE  Ceiled'
BY DEF TypeOK, Ceiled, CeilingKept, Mutate, MutateAndPut

LEMMA CeiledRead ==
    ASSUME TypeOK, Ceiled, NEW a \in Actors,
           Load(a) \/ Put(a) \/ UNCHANGED <<stored, copy>>,
           \A t \in Turns : route'[t] <= GlobalMax
    PROVE  Ceiled'
BY DEF TypeOK, Ceiled, CeilingKept, Load, Put, Seen

LEMMA TurnKeepsCeiling ==
    ASSUME AskedInside, TypeOK, Ceiled, NEW t \in Turns, TurnStep(t)
    PROVE  Ceiled'
<1> USE PinTurnsAssumption
<1>0. t \in Actors
  BY DEF Actors
<1>1. /\ Seen(t) \in PinType /\ opt[t] \in Options /\ opt[t] \in OptionType
      /\ route \in [Turns -> Level] /\ route[t] \in Level /\ GlobalMax \in Level
  BY <1>0, SeenType DEF TypeOK
<1>2. Seen(t).level <= GlobalMax /\ Seen(t).level \in Level
  BY <1>0, <1>1 DEF Seen, Ceiled, CeilingKept, PinType
<1>3. \A u \in Turns : route[u] <= GlobalMax
  BY DEF Ceiled, CeilingKept
<1>4. ASSUME Dispatch(t, route[t]) PROVE \A u \in Turns : route'[u] <= GlobalMax
  BY <1>1, <1>3, <1>4 DEF Dispatch, AskedInside
<1>5. \A n \in Int : FromNumeric(n) \in Level
  BY FromNumericType
<1>6. CASE Arrive(t)
  BY <1>0, <1>3, <1>6, CeiledRead DEF Arrive
<1>7. CASE Hit(t)
  <2> DEFINE turned == [Seen(t) EXCEPT !.turns = @ + 1]
             level == IF opt[t].forced # NoLevel /\ opt[t].repin
                      THEN opt[t].forced ELSE Seen(t).level
             wanted == IF opt[t].forced # NoLevel THEN opt[t].forced ELSE Seen(t).level
  <2>1. level \in Level /\ level <= GlobalMax /\ wanted \in Level /\ wanted <= GlobalMax
    BY <1>1, <1>2 DEF OptionType, AskedInside
  <2>2. turned \in PinType
    BY <1>1, TurnPin
  <2> HIDE DEF turned, level, wanted
  <2>3. AtLevel(turned, level).level = level
    BY <2>2 DEF AtLevel, PinType
  <2>4. Clamp(wanted, opt[t].max, opt[t].min) <= GlobalMax
    BY <1>1, <2>1 DEF Clamp, OptionType, AskedInside, Level, NoLevel
  <2>5. /\ MutateAndPut(t, AtLevel(turned, level))
        /\ route' = [route EXCEPT ![t] = Clamp(wanted, opt[t].max, opt[t].min)]
    BY <1>7 DEF Hit, turned, level, wanted
  <2>6. \A u \in Turns : route'[u] <= GlobalMax
    BY <1>1, <1>3, <2>4, <2>5
  <2> QED
    BY <1>0, <2>1, <2>3, <2>5, <2>6, CeiledWrite
<1>8. CASE SignalsQuiet(t)
  <2> DEFINE left == Seen(t).score - Decay
             score == IF left > 0 THEN left ELSE 0
             p == [Seen(t) EXCEPT !.score = score]
  <2>1. score \in Int
    BY <1>1 DEF PinType
  <2> HIDE DEF score
  <2>2. p.level = Seen(t).level
    BY <1>1, <2>1, SameLevel
  <2>3. Mutate(t, p) /\ Dispatch(t, route[t])
    BY <1>8 DEF SignalsQuiet, score
  <2> HIDE DEF p
  <2> QED
    BY <1>0, <1>2, <1>4, <2>2, <2>3, CeiledWrite
<1>9. CASE SignalsFire(t)
  <2> DEFINE score == Seen(t).score + Fired(opt[t], Seen(t))
             scored == [Seen(t) EXCEPT !.score = score]
             new == FromNumeric(scored.level + 1)
             moved == [MovedUp(scored, new) EXCEPT !.score = 0]
  <2>1. score \in Int
    BY <1>1 DEF Fired, OptionType, PinType, TurnDepthWeight, FailureWeight
  <2> HIDE DEF score
  <2>2. scored \in PinType /\ scored.level = Seen(t).level
    BY <1>1, <2>1, ScorePin, SameLevel
  <2> HIDE DEF scored
  <2>3. new \in Level
    BY <1>5, <2>2 DEF PinType, Level
  <2> HIDE DEF new
  <2>4. moved.level = new
    BY DEF MovedUp
  <2> HIDE DEF moved
  <2>5. CASE /\ MayEscalate(scored, new) /\ Mutate(t, moved)
             /\ route' = [route EXCEPT ![t] = new]
    <3>1. new <= GlobalMax
      BY <2>5 DEF MayEscalate
    <3>2. \A u \in Turns : route'[u] <= GlobalMax
      BY <1>1, <1>3, <2>5, <3>1
    <3> QED
      BY <1>0, <2>3, <2>4, <2>5, <3>1, <3>2, CeiledWrite
  <2>6. CASE Mutate(t, scored) /\ Dispatch(t, route[t])
    BY <1>0, <1>2, <1>4, <2>2, <2>6, CeiledWrite
  <2> QED
    BY <1>9, <2>5, <2>6 DEF SignalsFire, scored, score, new, moved
<1>10. CASE EscalationPut(t) \/ RetryPut(t)
  BY <1>0, <1>4, <1>10, CeiledRead DEF EscalationPut, RetryPut
<1>11. CASE RestreamOpens(t)
  BY <1>0, <1>3, <1>11, CeiledRead DEF RestreamOpens
<1>12. CASE StreamOpens(t) \/ RestreamFails(t) \/ Refused(t) \/ ClientLeaves(t)
  BY <1>0, <1>3, <1>12, CeiledRead DEF StreamOpens, RestreamFails, Refused, ClientLeaves
<1>13. CASE Answer(t)
  <2>1. Cleared(Seen(t)).level = Seen(t).level
    BY <1>1, SameLevel
  <2> QED
    BY <1>0, <1>2, <1>3, <1>13, <2>1, CeiledWrite DEF Answer
<1>14. CASE Fail(t) \/ StreamBreaks(t)
  <2>1. Failed(Seen(t)).level = Seen(t).level
    BY <1>1, SameLevel
  <2> QED
    BY <1>0, <1>2, <1>3, <1>14, <2>1, CeiledWrite DEF Fail, StreamBreaks
<1>15. CASE Retry(t) \/ StallRecovers(t)
  <2>1. PICK new \in Level :
            /\ Mutate(t, AtLevel(Retried(Failed(Seen(t))), new))
            /\ new <= GlobalMax
            /\ route' = [route EXCEPT ![t] = new]
    <3>1. \A n \in Level : FromNumeric(n + 1) \in Level
      BY <1>5 DEF Level
    <3>2. CASE Retry(t)
      BY <1>2, <3>1, <3>2 DEF Retry, MayRetry
    <3>3. CASE StallRecovers(t)
      BY <1>1, <3>1, <3>3 DEF StallRecovers
    <3> QED
      BY <1>15, <3>2, <3>3
  <2>2. AtLevel(Retried(Failed(Seen(t))), new).level = new
    <3>1. Retried(Failed(Seen(t))) \in PinType
      BY <1>1, MarkPin
    <3> QED
      BY <3>1 DEF AtLevel, PinType
  <2>3. \A u \in Turns : route'[u] <= GlobalMax
    BY <1>1, <1>3, <2>1
  <2> QED
    BY <1>0, <2>1, <2>2, <2>3, CeiledWrite
<1>16. CASE StreamEnds(t)
  <2>1. Cleared(Seen(t)).level = Seen(t).level
    BY <1>1, SameLevel
  <2>2. /\ stored' \in {stored, Seen(t), Cleared(Seen(t))}
        /\ copy' \in {copy, [copy EXCEPT ![t] = Cleared(Seen(t))]}
        /\ route' = route
    BY <1>16 DEF StreamEnds, Seen
  <2>3. stored'.level <= GlobalMax
    BY <1>2, <2>1, <2>2 DEF Ceiled, CeilingKept
  <2>4. \A a \in Actors : copy'[a].level <= GlobalMax
    BY <1>0, <1>2, <2>1, <2>2 DEF Ceiled, TypeOK
  <2> QED
    BY <1>3, <2>2, <2>3, <2>4 DEF Ceiled, CeilingKept
<1> QED
  BY <1>6, <1>7, <1>8, <1>9, <1>10, <1>11, <1>12, <1>13, <1>14, <1>15, <1>16 DEF TurnStep

LEMMA CallKeepsCeiling ==
    ASSUME AskedInside, TypeOK, Ceiled, NEW a \in Actors,
           (a \in Signals /\ SignalStep(a)) \/ (a \in Setters /\ SetterStep(a))
    PROVE  Ceiled'
<1> USE PinTurnsAssumption
<1>1. Seen(a) \in PinType /\ GlobalMax \in Level
  BY SeenType
<1>2. Seen(a).level <= GlobalMax /\ Seen(a).level \in Level
  BY <1>1 DEF Seen, Ceiled, CeilingKept, PinType
<1>3. \A u \in Turns : route[u] <= GlobalMax
  BY DEF Ceiled, CeilingKept
<1>4. CASE LoadForSignal(a) \/ LoadForSet(a)
  BY <1>3, <1>4, CeiledRead DEF LoadForSignal, LoadForSet
<1>5. CASE a \in Setters /\ SetPut(a)
  <2>1. PICK l \in SetLevels : MutateAndPut(a, AtLevel(Seen(a), l)) /\ route' = route
    BY <1>5 DEF SetPut
  <2>2. AtLevel(Seen(a), l).level = l /\ l \in Level /\ l <= GlobalMax
    BY <1>1 DEF AtLevel, PinType, AskedInside
  <2> QED
    BY <1>3, <2>1, <2>2, CeiledWrite
<1>6. CASE a \in Signals /\ SignalPut(a)
  <2>1. PICK e \in Evidence :
          LET scored == [Seen(a) EXCEPT !.score = @ + e.weight]
              new == FromNumeric(scored.level + 1)
          IN  MutateAndPut(a, IF MayEscalate(scored, new) THEN MovedUp(scored, new) ELSE scored)
    BY <1>6 DEF SignalPut
  <2> DEFINE score == Seen(a).score + e.weight
             scored == [Seen(a) EXCEPT !.score = score]
             new == FromNumeric(scored.level + 1)
  <2>2. score \in Int
    BY <1>1 DEF EvidenceType, PinType
  <2>3. MutateAndPut(a, IF MayEscalate(scored, new) THEN MovedUp(scored, new) ELSE scored)
    BY <2>1
  <2> HIDE DEF score
  <2>4. scored \in PinType /\ scored.level = Seen(a).level
    BY <1>1, <2>2, ScorePin, SameLevel
  <2> HIDE DEF scored
  <2>5. new \in Level
    BY <2>4, FromNumericType DEF PinType, Level
  <2> HIDE DEF new
  <2>6. MovedUp(scored, new).level = new /\ (MayEscalate(scored, new) => new <= GlobalMax)
    BY DEF MovedUp, MayEscalate
  <2>7. \A u \in Turns : route'[u] <= GlobalMax
    BY <1>3, <1>6 DEF SignalPut
  <2>8. CASE MayEscalate(scored, new)
    BY <2>3, <2>5, <2>6, <2>7, <2>8, CeiledWrite
  <2>9. CASE ~MayEscalate(scored, new)
    BY <1>2, <2>3, <2>4, <2>7, <2>9, CeiledWrite
  <2> QED
    BY <2>8, <2>9
<1> QED
  BY <1>4, <1>5, <1>6 DEF SignalStep, SetterStep

\* With both stores, however the turns and the calls interleave: sessions that
\* are pinned, set and asked for inside the ceiling are served inside it.
THEOREM CeilingHolds == ASSUME AskedInside PROVE Spec => []CeilingKept
<1>1. Init => Ceiled
  <2> SUFFICES ASSUME Init PROVE Ceiled
    OBVIOUS
  <2>1. PICK l \in StartLevels :
          /\ stored = FreshPin(l) /\ copy = [a \in Actors |-> FreshPin(l)]
          /\ route = [t \in Turns |-> l]
    BY DEF Init
  <2>2. FreshPin(l).level = l /\ l <= GlobalMax
    BY AskedInside DEF FreshPin, AskedInside
  <2> QED
    BY <2>1, <2>2 DEF Ceiled, CeilingKept
<1>2. TypeOK /\ Ceiled /\ [Next]_vars => Ceiled'
  <2> SUFFICES ASSUME TypeOK, Ceiled, [Next]_vars PROVE Ceiled'
    OBVIOUS
  <2>1. CASE Next
    BY <2>1, AskedInside, TurnKeepsCeiling, CallKeepsCeiling DEF Next, Actors
  <2>2. CASE UNCHANGED vars
    BY <2>2 DEF vars, Ceiled, CeilingKept
  <2> QED
    BY <2>1, <2>2
<1>3. Ceiled => CeilingKept
  BY DEF Ceiled
<1> QED
  BY <1>1, <1>2, <1>3, TypeCorrect, PTL DEF Spec

-----------------------------------------------------------------------------
(* The failure mark                                                        *)

\* What becomes of the mark of the pin `p` when `q` is written in its place.
MarkKept(p, q) ==
    \/ q.fails >= p.fails /\ lastOutcome' = lastOutcome
    \/ q.fails > 0 /\ lastOutcome' = "failed"
    \/ lastOutcome' \in {"ok", "lost"}

\* Every way the code changes a pin keeps the mark, adds to it or, after a
\* success, clears it.
LEMMA MarkOfChange ==
    ASSUME NEW p \in PinType, NEW l \in Level, NEW n \in Int, NEW m \in Nat
    PROVE  /\ [p EXCEPT !.score = n].fails = p.fails
           /\ [p EXCEPT !.turns = m].fails = p.fails
           /\ AtLevel(p, l).fails = p.fails /\ MovedUp(p, l).fails = p.fails
           /\ Retried(p).fails = p.fails
           /\ Failed(p).fails = p.fails + 1
           /\ p.fails \in Nat
BY DEF PinType, AtLevel, MovedUp, Retried, Failed

LEMMA MemoryMark ==
    ASSUME TypeOK, Backend = "memory", Next PROVE MarkKept(stored, stored')
<1> USE PinTurnsAssumption
<1>1. stored \in PinType /\ stored.fails \in Nat /\ stored.turns \in Nat
      /\ stored.level \in Level /\ \A a \in Actors : Seen(a) = stored
  BY DEF TypeOK, PinType, Seen
<1>2. \A n \in Int : FromNumeric(n) \in Level
  BY FromNumericType
<1>3. ASSUME NEW t \in Turns, TurnStep(t) PROVE MarkKept(stored, stored')
  <2>1. t \in Actors /\ Seen(t) = stored /\ opt[t] \in OptionType /\ route[t] \in Level
    BY <1>1 DEF Actors, TypeOK
  <2>2. CASE Arrive(t) \/ StreamOpens(t) \/ Refused(t) \/ ClientLeaves(t)
             \/ EscalationPut(t) \/ RetryPut(t) \/ RestreamOpens(t)
    BY <1>1, <2>1, <2>2 DEF Arrive, StreamOpens, Refused, ClientLeaves, EscalationPut,
       RetryPut, RestreamOpens, Load, Put, MarkKept
  <2>3. CASE Answer(t) \/ StreamEnds(t) \/ RestreamFails(t)
    BY <2>3 DEF Answer, StreamEnds, RestreamFails, MarkKept
  <2>4. CASE Fail(t) \/ StreamBreaks(t)
    <3>1. stored' = Failed(stored) /\ lastOutcome' = "failed"
      BY <2>1, <2>4 DEF Fail, StreamBreaks, Mutate
    <3>2. Failed(stored).fails = stored.fails + 1
      BY <1>1, MarkOfChange
    <3> QED
      BY <1>1, <3>1, <3>2 DEF MarkKept
  <2>5. CASE Hit(t)
    <3> DEFINE turned == [stored EXCEPT !.turns = @ + 1]
               level == IF opt[t].forced # NoLevel /\ opt[t].repin
                        THEN opt[t].forced ELSE stored.level
    <3>1. level \in Level
      BY <1>1, <2>1 DEF OptionType
    <3>2. turned \in PinType /\ turned.fails = stored.fails
      BY <1>1, TurnPin, MarkOfChange
    <3> HIDE DEF turned, level
    <3>3. AtLevel(turned, level).fails = stored.fails
      BY <3>1, <3>2, MarkOfChange
    <3>4. stored' = AtLevel(turned, level) /\ lastOutcome' = lastOutcome
      BY <2>1, <2>5 DEF Hit, MutateAndPut, turned, level
    <3> QED
      BY <1>1, <3>3, <3>4 DEF MarkKept
  <2>6. CASE SignalsQuiet(t)
    <3> DEFINE left == stored.score - Decay
               score == IF left > 0 THEN left ELSE 0
    <3>1. score \in Int
      BY <1>1 DEF PinType
    <3> HIDE DEF score
    <3>2. [stored EXCEPT !.score = score].fails = stored.fails
      BY <1>1, <3>1, MarkOfChange
    <3>3. stored' = [stored EXCEPT !.score = score] /\ lastOutcome' = lastOutcome
      BY <2>1, <2>6 DEF SignalsQuiet, Mutate, score
    <3> QED
      BY <1>1, <3>2, <3>3 DEF MarkKept
  <2>7. CASE SignalsFire(t)
    <3> DEFINE score == stored.score + Fired(opt[t], stored)
               scored == [stored EXCEPT !.score = score]
               new == FromNumeric(scored.level + 1)
               moved == [MovedUp(scored, new) EXCEPT !.score = 0]
    <3>1. score \in Int
      BY <1>1, <2>1 DEF Fired, OptionType, PinType, TurnDepthWeight, FailureWeight
    <3> HIDE DEF score
    <3>2. scored \in PinType /\ scored.fails = stored.fails
      BY <1>1, <3>1, ScorePin, MarkOfChange
    <3> HIDE DEF scored
    <3>3. new \in Level
      BY <1>2, <3>2 DEF PinType, Level
    <3> HIDE DEF new
    <3>4. moved.fails = stored.fails
      BY <3>2 DEF MovedUp
    <3>5. stored' \in {scored, moved} /\ lastOutcome' = lastOutcome
      BY <2>1, <2>7 DEF SignalsFire, Mutate, scored, score, new
    <3> HIDE DEF moved
    <3> QED
      BY <1>1, <3>2, <3>4, <3>5 DEF MarkKept
  <2>8. CASE Retry(t) \/ StallRecovers(t)
    <3>1. PICK new \in Level :
            /\ Mutate(t, AtLevel(Retried(Failed(stored)), new))
            /\ lastOutcome' = lastOutcome
      BY <1>1, <1>2, <2>1, <2>8 DEF Retry, StallRecovers, Level
    <3>2. Failed(stored) \in PinType /\ Retried(Failed(stored)) \in PinType
      BY <1>1, MarkPin
    <3>3. AtLevel(Retried(Failed(stored)), new).fails = stored.fails + 1
      BY <1>1, <3>2, MarkOfChange
    <3>4. stored' = AtLevel(Retried(Failed(stored)), new)
      BY <3>1 DEF Mutate
    <3> QED
      BY <1>1, <3>1, <3>3, <3>4 DEF MarkKept
  <2> QED
    BY <1>3, <2>2, <2>3, <2>4, <2>5, <2>6, <2>7, <2>8 DEF TurnStep
<1>4. ASSUME NEW s \in Setters, SetterStep(s) PROVE MarkKept(stored, stored')
  <2>1. s \in Actors /\ Seen(s) = stored
    BY <1>1 DEF Actors
  <2>2. CASE LoadForSet(s)
    BY <1>1, <2>2 DEF LoadForSet, Load, MarkKept
  <2>3. CASE SetPut(s)
    <3>1. PICK l \in Level : stored' = AtLevel(stored, l) /\ lastOutcome' = lastOutcome
      BY <2>1, <2>3 DEF SetPut, MutateAndPut
    <3> QED
      BY <1>1, <3>1, MarkOfChange DEF MarkKept
  <2> QED
    BY <1>4, <2>2, <2>3 DEF SetterStep
<1>5. ASSUME NEW s \in Signals, SignalStep(s) PROVE MarkKept(stored, stored')
  <2>1. s \in Actors /\ Seen(s) = stored
    BY <1>1 DEF Actors
  <2>2. CASE LoadForSignal(s)
    BY <1>1, <2>2 DEF LoadForSignal, Load, MarkKept
  <2>3. CASE SignalPut(s)
    <3>1. PICK e \in Evidence :
            LET scored == [Seen(s) EXCEPT !.score = @ + e.weight]
                new == FromNumeric(scored.level + 1)
            IN  MutateAndPut(s, IF MayEscalate(scored, new)
                                THEN MovedUp(scored, new) ELSE scored)
      BY <2>3 DEF SignalPut
    <3> DEFINE score == stored.score + e.weight
               scored == [stored EXCEPT !.score = score]
               new == FromNumeric(scored.level + 1)
    <3>2. score \in Int
      BY <1>1 DEF EvidenceType, PinType
    <3>3. stored' \in {scored, MovedUp(scored, new)} /\ lastOutcome' = lastOutcome
      BY <2>1, <2>3, <3>1 DEF SignalPut, MutateAndPut
    <3> HIDE DEF score
    <3>4. scored \in PinType /\ scored.fails = stored.fails
      BY <1>1, <3>2, ScorePin, MarkOfChange
    <3> HIDE DEF scored
    <3>5. new \in Level
      BY <1>2, <3>4 DEF PinType, Level
    <3> HIDE DEF new
    <3>6. MovedUp(scored, new).fails = stored.fails
      BY <3>4, <3>5, MarkOfChange
    <3> QED
      BY <1>1, <3>3, <3>4, <3>6 DEF MarkKept
  <2> QED
    BY <1>5, <2>2, <2>3 DEF SignalStep
<1> QED
  BY <1>3, <1>4, <1>5 DEF Next

\* With the in-memory store a failed turn is still in the pin when the next one
\* is served, whatever ran in between.
THEOREM MemoryRemembers == ASSUME Backend = "memory" PROVE Spec => []FailureRemembered
<1>1. Init => FailureRemembered
  BY DEF Init, FailureRemembered
<1>2. TypeOK /\ FailureRemembered /\ [Next]_vars => FailureRemembered'
  <2> SUFFICES ASSUME TypeOK, FailureRemembered, [Next]_vars PROVE FailureRemembered'
    OBVIOUS
  <2>1. CASE Next
    <3>1. MarkKept(stored, stored')
      BY <2>1, MemoryMark
    <3>2. stored.fails \in Nat /\ stored'.fails \in Nat
      <4>1. PICK a \in Actors : Change(a)
        BY <2>1, StepChanges
      <4>2. stored' \in PinType
        BY <4>1, ChangeType
      <4> QED
        BY <4>2 DEF TypeOK, PinType
    <3> QED
      BY <3>1, <3>2 DEF MarkKept, FailureRemembered
  <2>2. CASE UNCHANGED vars
    BY <2>2 DEF vars, FailureRemembered
  <2> QED
    BY <2>1, <2>2
<1> QED
  BY <1>1, <1>2, TypeCorrect, PTL DEF Spec

-----------------------------------------------------------------------------
(* The top tier                                                            *)

\* The session is not pinned, set or repinned to the top tier from outside.
NoTopFromOutside ==
    /\ 5 \notin StartLevels \cup SetLevels
    /\ \A o \in Options : o.repin => o.forced # 5

\* No copy of the pin is at the top tier.
BelowTop == stored.level # 5 /\ \A a \in Actors : copy[a].level # 5

Evidenced == strongSeen \/ called \/ BelowTop

\* What was seen stays seen, and who called stays known.
LEMMA EvidenceStays ==
    ASSUME Next, strongSeen \/ called, strongSeen \in BOOLEAN, called \in BOOLEAN
    PROVE  strongSeen' \/ called'
<1>1. ASSUME NEW t \in Turns, TurnStep(t) PROVE strongSeen' \/ called'
  <2>1. CASE SignalsFire(t)
    BY <2>1 DEF SignalsFire
  <2>2. CASE Retry(t) \/ Fail(t) \/ StreamBreaks(t) \/ StallRecovers(t)
    BY <2>2 DEF Retry, Fail, StreamBreaks, StallRecovers
  <2>3. CASE Arrive(t) \/ Hit(t) \/ SignalsQuiet(t) \/ EscalationPut(t) \/ Answer(t) \/ RetryPut(t)
    BY <2>3 DEF Arrive, Hit, SignalsQuiet, EscalationPut, Answer, RetryPut
  <2>4. CASE Refused(t) \/ StreamOpens(t) \/ StreamEnds(t) \/ RestreamOpens(t)
             \/ RestreamFails(t) \/ ClientLeaves(t)
    BY <2>4 DEF Refused, StreamOpens, StreamEnds, RestreamOpens, RestreamFails, ClientLeaves
  <2> QED
    BY <1>1, <2>1, <2>2, <2>3, <2>4 DEF TurnStep
<1>2. ASSUME NEW s \in Signals, SignalStep(s) PROVE strongSeen' \/ called'
  BY <1>2 DEF SignalStep, LoadForSignal, SignalPut
<1>3. ASSUME NEW s \in Setters, SetterStep(s) PROVE strongSeen' \/ called'
  BY <1>3 DEF SetterStep, LoadForSet, SetPut
<1> QED
  BY <1>1, <1>2, <1>3 DEF Next

\* A pin that is written below the top tier keeps every copy there.
LEMMA BelowWrite ==
    ASSUME TypeOK, BelowTop, NEW a \in Actors, NEW l, l # 5, NEW p, p.level = l,
           Mutate(a, p) \/ MutateAndPut(a, p)
    PROVE  BelowTop'
BY DEF TypeOK, BelowTop, Mutate, MutateAndPut

LEMMA BelowRead ==
    ASSUME TypeOK, BelowTop, NEW a \in Actors,
           Load(a) \/ Put(a) \/ UNCHANGED <<stored, copy>>
    PROVE  BelowTop'
BY DEF TypeOK, BelowTop, Load, Put, Seen

LEMMA TurnKeepsEvidence ==
    ASSUME NoTopFromOutside, TypeOK, BelowTop, NEW t \in Turns, TurnStep(t)
    PROVE  strongSeen' \/ BelowTop'
<1> USE PinTurnsAssumption
<1>1. t \in Actors
  BY DEF Actors
<1>2. Seen(t) \in PinType /\ Seen(t).level # 5 /\ opt[t] \in Options /\ opt[t] \in OptionType
  BY <1>1, SeenType DEF TypeOK, BelowTop, Seen
<1>3. CASE Hit(t)
  <2> DEFINE turned == [Seen(t) EXCEPT !.turns = @ + 1]
             level == IF opt[t].forced # NoLevel /\ opt[t].repin
                      THEN opt[t].forced ELSE Seen(t).level
  <2>1. level # 5
    BY <1>2 DEF NoTopFromOutside
  <2>2. turned \in PinType
    BY <1>2, TurnPin
  <2> HIDE DEF turned, level
  <2>3. AtLevel(turned, level).level = level
    BY <2>2 DEF AtLevel, PinType
  <2>4. MutateAndPut(t, AtLevel(turned, level))
    BY <1>3 DEF Hit, turned, level
  <2> QED
    BY <1>1, <2>1, <2>3, <2>4, BelowWrite
<1>4. CASE SignalsQuiet(t)
  <2> DEFINE left == Seen(t).score - Decay
             score == IF left > 0 THEN left ELSE 0
             p == [Seen(t) EXCEPT !.score = score]
  <2>1. score \in Int
    BY <1>2 DEF PinType
  <2> HIDE DEF score
  <2>2. p.level = Seen(t).level
    BY <1>2, <2>1, SameLevel
  <2>3. Mutate(t, p)
    BY <1>4 DEF SignalsQuiet, score
  <2> HIDE DEF p
  <2> QED
    BY <1>1, <1>2, <2>2, <2>3, BelowWrite
<1>5. CASE SignalsFire(t)
  <2> DEFINE score == Seen(t).score + Fired(opt[t], Seen(t))
             strong == StrongFired(opt[t], Seen(t))
             scored == [Seen(t) EXCEPT !.score = score]
             new == FromNumeric(scored.level + 1)
             moved == [MovedUp(scored, new) EXCEPT !.score = 0]
  <2>1. score \in Int
    BY <1>2 DEF Fired, OptionType, PinType, TurnDepthWeight, FailureWeight
  <2> HIDE DEF score
  <2>2. scored.level = Seen(t).level
    BY <1>2, <2>1, SameLevel
  <2> HIDE DEF scored, new
  <2>3. moved.level = new
    BY DEF MovedUp
  <2> HIDE DEF moved, strong
  <2>4. \/ Mutate(t, scored)
        \/ Mutate(t, moved) /\ TopTierGuard(new, strong) /\ strongSeen' = (strongSeen \/ strong)
    BY <1>5 DEF SignalsFire, scored, score, new, moved, strong
  <2>5. CASE Mutate(t, scored)
    BY <1>1, <1>2, <2>2, <2>5, BelowWrite
  <2>6. CASE Mutate(t, moved) /\ TopTierGuard(new, strong) /\ strongSeen' = (strongSeen \/ strong)
    <3>1. CASE new = 5
      BY <2>6, <3>1 DEF TopTierGuard
    <3>2. CASE new # 5
      BY <1>1, <2>3, <2>6, <3>2, BelowWrite
    <3> QED
      BY <3>1, <3>2
  <2> QED
    BY <2>4, <2>5, <2>6
<1>6. CASE Arrive(t) \/ EscalationPut(t) \/ RetryPut(t) \/ RestreamOpens(t) \/ StreamOpens(t)
           \/ RestreamFails(t) \/ Refused(t) \/ ClientLeaves(t)
  BY <1>1, <1>6, BelowRead DEF Arrive, EscalationPut, RetryPut, RestreamOpens, StreamOpens,
     RestreamFails, Refused, ClientLeaves
<1>7. CASE Retry(t) \/ StallRecovers(t) \/ Fail(t) \/ StreamBreaks(t)
  BY <1>7 DEF Retry, StallRecovers, Fail, StreamBreaks
<1>8. CASE Answer(t)
  <2>1. Cleared(Seen(t)).level = Seen(t).level
    BY <1>2, SameLevel
  <2> QED
    BY <1>1, <1>2, <1>8, <2>1, BelowWrite DEF Answer
<1>9. CASE StreamEnds(t)
  <2>1. Cleared(Seen(t)).level = Seen(t).level
    BY <1>2, SameLevel
  <2>2. /\ stored' \in {stored, Seen(t), Cleared(Seen(t))}
        /\ copy' \in {copy, [copy EXCEPT ![t] = Cleared(Seen(t))]}
    BY <1>9 DEF StreamEnds, Seen
  <2> QED
    BY <1>1, <1>2, <2>1, <2>2 DEF BelowTop, TypeOK
<1> QED
  BY <1>3, <1>4, <1>5, <1>6, <1>7, <1>8, <1>9 DEF TurnStep

LEMMA CallKeepsEvidence ==
    ASSUME NoTopFromOutside, TypeOK, BelowTop, NEW a \in Actors,
           (a \in Signals /\ SignalStep(a)) \/ (a \in Setters /\ SetterStep(a))
    PROVE  called' \/ BelowTop'
<1>1. Seen(a) \in PinType /\ Seen(a).level # 5
  BY SeenType DEF TypeOK, BelowTop, Seen
<1>2. CASE LoadForSignal(a) \/ LoadForSet(a)
  BY <1>2, BelowRead DEF LoadForSignal, LoadForSet
<1>3. CASE SetPut(a)
  <2>1. PICK l \in SetLevels : MutateAndPut(a, AtLevel(Seen(a), l))
    BY <1>3 DEF SetPut
  <2>2. AtLevel(Seen(a), l).level = l /\ l # 5
    BY <1>1 DEF AtLevel, PinType, NoTopFromOutside
  <2> QED
    BY <2>1, <2>2, BelowWrite
<1>4. CASE SignalPut(a)
  <2> DEFINE scored(e) == [Seen(a) EXCEPT !.score = @ + e.weight]
             new(e) == FromNumeric(scored(e).level + 1)
             moves(e) == MayEscalate(scored(e), new(e))
  <2>1. PICK e \in Evidence :
          /\ MutateAndPut(a, IF moves(e) THEN MovedUp(scored(e), new(e)) ELSE scored(e))
          /\ called' = (called \/ (moves(e) /\ new(e) = 5))
    BY <1>4 DEF SignalPut
  <2>2. scored(e).level = Seen(a).level
    <3>1. Seen(a).score + e.weight \in Int
      BY <1>1, PinTurnsAssumption DEF PinType, EvidenceType
    <3> QED
      BY <1>1, <3>1, SameLevel
  <2> HIDE DEF scored, new, moves
  <2>3. MovedUp(scored(e), new(e)).level = new(e)
    BY DEF MovedUp
  <2>4. CASE moves(e) /\ new(e) = 5
    BY <2>1, <2>4
  <2>5. CASE moves(e) /\ new(e) # 5
    BY <2>1, <2>3, <2>5, BelowWrite
  <2>6. CASE ~moves(e)
    BY <1>1, <2>1, <2>2, <2>6, BelowWrite
  <2> QED
    BY <2>4, <2>5, <2>6
<1> QED
  BY <1>2, <1>3, <1>4 DEF SignalStep, SetterStep

\* "L5 must require stronger evidence": with both stores, a session that is not
\* pinned or set to the top tier is only moved there after a strong signal, an
\* upstream failure, or by a /signal call, whatever that call reports.
THEOREM TopTierIsEarned == ASSUME NoTopFromOutside PROVE Spec => []TopTierOnEvidence
<1>1. Init => Evidenced
  <2> SUFFICES ASSUME Init PROVE BelowTop
    BY DEF Evidenced
  <2>1. PICK l \in StartLevels : stored = FreshPin(l) /\ copy = [a \in Actors |-> FreshPin(l)]
    BY DEF Init
  <2>2. FreshPin(l).level = l /\ l # 5
    BY NoTopFromOutside DEF FreshPin, NoTopFromOutside
  <2> QED
    BY <2>1, <2>2 DEF BelowTop
<1>2. TypeOK /\ Evidenced /\ [Next]_vars => Evidenced'
  <2> SUFFICES ASSUME TypeOK, Evidenced, [Next]_vars PROVE Evidenced'
    OBVIOUS
  <2>1. CASE Next /\ (strongSeen \/ called)
    BY <2>1, EvidenceStays DEF Evidenced, TypeOK
  <2>2. CASE Next /\ BelowTop
    BY <2>2, NoTopFromOutside, TurnKeepsEvidence, CallKeepsEvidence DEF Next, Actors, Evidenced
  <2>3. CASE UNCHANGED vars
    BY <2>3 DEF vars, Evidenced, BelowTop
  <2> QED
    BY <2>1, <2>2, <2>3 DEF Evidenced
<1>3. Evidenced => TopTierOnEvidence
  BY DEF Evidenced, BelowTop, TopTierOnEvidence
<1> QED
  BY <1>1, <1>2, <1>3, TypeCorrect, PTL DEF Spec

-----------------------------------------------------------------------------
(* What a step does to the one pin of the in-memory store                  *)

\* `q` is `p` with no move by signals: it keeps its place in the cooldown.
Unmoved(p, q) ==
    /\ q.count = p.count /\ q.last = p.last /\ q.until = p.until
    /\ q.turns \in Nat /\ q.turns >= p.turns

\* `q` is `p` moved up by signals.
Escalated(p, q) ==
    /\ q.count = p.count + 1 /\ q.turns = p.turns
    /\ q.last = p.turns /\ q.until = p.turns + Cooldown
    /\ p.turns >= p.until

\* What may take a tier down.
LowerBySet == \E s \in Setters : pc[s] = "setput" /\ pc'[s] = "done"
LowerByRepin == \E t \in Turns : pc[t] = "hit" /\ opt[t].repin /\ pc'[t] = "signals"
LowerByStall ==
    \E t \in Turns : pc[t] = "streaming" /\ pc'[t] = "restream" /\ route[t] < stored.level

PinStep ==
    /\ Unmoved(stored, stored') \/ Escalated(stored, stored')
    /\ stored'.level >= stored.level \/ LowerBySet \/ LowerByRepin \/ LowerByStall

\* One tier above is not below.
LEMMA NextTier ==
    ASSUME NEW l \in Level, NEW k \in Level
    PROVE  /\ FromNumeric(l + 1) \in Level /\ FromNumeric(l + 1) >= l
           /\ FromNumeric(k + 1) < l => k < l
BY DEF FromNumeric, Level

\* How the code's changes of a pin look in these terms.
LEMMA UnmovedChange ==
    ASSUME NEW p \in PinType
    PROVE  /\ Unmoved(p, p)
           /\ Unmoved(p, Failed(p)) /\ Unmoved(p, Cleared(p)) /\ Unmoved(p, Retried(p))
           /\ Unmoved(p, [p EXCEPT !.turns = @ + 1])
           /\ \A n \in Int : Unmoved(p, [p EXCEPT !.score = n])
           /\ \A l \in Level : Unmoved(p, AtLevel(p, l))
BY DEF Unmoved, PinType, Failed, Cleared, Retried, AtLevel

LEMMA UnmovedTwice ==
    ASSUME NEW p \in PinType, NEW q, NEW r, Unmoved(p, q), Unmoved(q, r) PROVE Unmoved(p, r)
BY DEF Unmoved, PinType

\* A move by signals, as both of its callers make it from a pin whose score rose.
LEMMA SignalMove ==
    ASSUME NEW p \in PinType, NEW score \in Int,
           NEW scored, scored = [p EXCEPT !.score = score],
           NEW new, new = FromNumeric(scored.level + 1)
    PROVE  /\ Unmoved(p, scored) /\ scored.level = p.level
           /\ MayEscalate(scored, new) =>
                /\ Escalated(p, MovedUp(scored, new))
                /\ Escalated(p, [MovedUp(scored, new) EXCEPT !.score = 0])
           /\ MovedUp(scored, new).level >= p.level
           /\ [MovedUp(scored, new) EXCEPT !.score = 0].level >= p.level
<1>1. /\ scored.level = p.level /\ scored.turns = p.turns /\ scored.until = p.until
      /\ scored.count = p.count /\ scored.last = p.last /\ p.level \in Level
  BY DEF PinType
<1>2. new >= p.level
  BY <1>1, NextTier
<1>3. Unmoved(p, scored)
  BY UnmovedChange
<1>4. MovedUp(scored, new).level = new /\ [MovedUp(scored, new) EXCEPT !.score = 0].level = new
  BY DEF MovedUp
<1>5. ASSUME MayEscalate(scored, new)
      PROVE  /\ Escalated(p, MovedUp(scored, new))
             /\ Escalated(p, [MovedUp(scored, new) EXCEPT !.score = 0])
  BY <1>1, <1>5 DEF MayEscalate, MovedUp, Escalated
<1> QED
  BY <1>1, <1>2, <1>3, <1>4, <1>5

LEMMA TurnSteps ==
    ASSUME TypeOK, Backend = "memory", NEW t \in Turns, TurnStep(t) PROVE PinStep
<1> USE PinTurnsAssumption
<1>1. /\ t \in Actors /\ Seen(t) = stored /\ stored \in PinType /\ stored.level \in Level
      /\ opt[t] \in OptionType /\ route[t] \in Level /\ pc \in [Actors -> PCs]
  BY DEF Actors, TypeOK, Seen, PinType
<1>2. CASE Arrive(t) \/ StreamOpens(t) \/ Refused(t) \/ ClientLeaves(t) \/ EscalationPut(t)
           \/ RetryPut(t) \/ RestreamOpens(t) \/ RestreamFails(t)
  <2>1. stored' = stored
    BY <1>1, <1>2 DEF Arrive, StreamOpens, Refused, ClientLeaves, EscalationPut, RetryPut,
       RestreamOpens, RestreamFails, Load, Put
  <2>2. Unmoved(stored, stored)
    BY <1>1, UnmovedChange
  <2>3. stored.level >= stored.level
    BY <1>1 DEF Level
  <2> QED
    BY <2>1, <2>2, <2>3 DEF PinStep
<1>3. CASE Answer(t) \/ StreamEnds(t) \/ Fail(t) \/ StreamBreaks(t)
  <2>1. stored' \in {Cleared(stored), Failed(stored)}
    BY <1>1, <1>3 DEF Answer, StreamEnds, Fail, StreamBreaks, Mutate, MutateAndPut
  <2>2. stored'.level = stored.level
    BY <1>1, <2>1, SameLevel
  <2>3. Unmoved(stored, stored')
    BY <1>1, <2>1, UnmovedChange
  <2>4. stored'.level >= stored.level
    BY <1>1, <2>2 DEF Level
  <2> QED
    BY <2>3, <2>4 DEF PinStep
<1>4. CASE Hit(t)
  <2> DEFINE turned == [stored EXCEPT !.turns = @ + 1]
             level == IF opt[t].forced # NoLevel /\ opt[t].repin
                      THEN opt[t].forced ELSE stored.level
  <2>1. turned \in PinType /\ Unmoved(stored, turned)
    BY <1>1, TurnPin, UnmovedChange
  <2>2. level \in Level /\ (~opt[t].repin => level = stored.level)
    BY <1>1 DEF OptionType
  <2>3. stored' = AtLevel(turned, level) /\ pc[t] = "hit" /\ pc'[t] = "signals"
    BY <1>1, <1>4 DEF Hit, MutateAndPut, Goto
  <2> HIDE DEF turned, level
  <2>4. Unmoved(turned, stored') /\ stored'.level = level
    <3>1. AtLevel(turned, level).level = level
      BY <2>1 DEF AtLevel, PinType
    <3> QED
      BY <2>1, <2>2, <2>3, <3>1, UnmovedChange
  <2>5. Unmoved(stored, stored')
    BY <1>1, <2>1, <2>4, UnmovedTwice
  <2>6. stored'.level >= stored.level \/ LowerByRepin
    <3>1. CASE opt[t].repin
      BY <2>3, <3>1 DEF LowerByRepin
    <3>2. CASE ~opt[t].repin
      BY <1>1, <2>2, <2>4, <3>2 DEF Level
    <3> QED
      BY <3>1, <3>2
  <2> QED
    BY <2>5, <2>6 DEF PinStep
<1>5. CASE SignalsQuiet(t)
  <2> DEFINE left == stored.score - Decay
             score == IF left > 0 THEN left ELSE 0
  <2>1. score \in Int
    BY <1>1 DEF PinType
  <2>2. stored' = [stored EXCEPT !.score = score]
    BY <1>1, <1>5 DEF SignalsQuiet, Mutate
  <2> HIDE DEF score
  <2>3. Unmoved(stored, stored') /\ stored'.level = stored.level
    BY <1>1, <2>1, <2>2, UnmovedChange, SameLevel
  <2> QED
    BY <1>1, <2>3 DEF PinStep, Level
<1>6. CASE SignalsFire(t)
  <2> DEFINE score == stored.score + Fired(opt[t], stored)
             scored == [stored EXCEPT !.score = score]
             new == FromNumeric(scored.level + 1)
             moved == [MovedUp(scored, new) EXCEPT !.score = 0]
  <2>1. score \in Int
    BY <1>1 DEF Fired, OptionType, PinType, TurnDepthWeight, FailureWeight
  <2>2. \/ stored' = scored
        \/ MayEscalate(scored, new) /\ stored' = moved
    BY <1>1, <1>6 DEF SignalsFire, Mutate
  <2> HIDE DEF score
  <2>3. scored = [stored EXCEPT !.score = score] /\ new = FromNumeric(scored.level + 1)
    OBVIOUS
  <2> HIDE DEF scored, new
  <2>4. /\ Unmoved(stored, scored) /\ scored.level = stored.level
        /\ MayEscalate(scored, new) => Escalated(stored, moved)
        /\ moved.level >= stored.level
    BY <1>1, <2>1, <2>3, SignalMove
  <2> HIDE DEF moved
  <2> QED
    BY <1>1, <2>2, <2>4 DEF PinStep, Level
<1>7. CASE Retry(t) \/ StallRecovers(t)
  <2> DEFINE marked == Retried(Failed(stored))
  <2>1. marked \in PinType /\ Unmoved(stored, marked)
    <3>1. Failed(stored) \in PinType /\ Unmoved(stored, Failed(stored))
      BY <1>1, MarkPin, UnmovedChange
    <3>2. marked \in PinType /\ Unmoved(Failed(stored), marked)
      BY <3>1, MarkPin, UnmovedChange
    <3> QED
      BY <1>1, <3>1, <3>2, UnmovedTwice
  <2>2. ASSUME NEW l \in Level PROVE Unmoved(stored, AtLevel(marked, l)) /\ AtLevel(marked, l).level = l
    <3> HIDE DEF marked
    <3>1. Unmoved(marked, AtLevel(marked, l)) /\ AtLevel(marked, l).level = l
      BY <2>1, UnmovedChange DEF AtLevel, PinType
    <3> QED
      BY <1>1, <2>1, <3>1, UnmovedTwice
  <2> HIDE DEF marked
  <2>3. CASE Retry(t)
    <3>1. stored' = AtLevel(marked, FromNumeric(stored.level + 1))
      BY <1>1, <2>3 DEF Retry, Mutate, marked
    <3> QED
      BY <1>1, <2>2, <3>1, NextTier DEF PinStep
  <2>4. CASE StallRecovers(t)
    <3>1. /\ stored' = AtLevel(marked, FromNumeric(route[t] + 1))
          /\ pc[t] = "streaming" /\ pc'[t] = "restream"
      BY <1>1, <2>4 DEF StallRecovers, Mutate, Goto, marked
    <3>2. Unmoved(stored, stored') /\ stored'.level = FromNumeric(route[t] + 1) /\ stored'.level \in Level
      BY <1>1, <2>2, <3>1, NextTier
    <3>3. stored'.level >= stored.level \/ LowerByStall
      <4>1. CASE stored'.level < stored.level
        BY <1>1, <3>1, <3>2, <4>1, NextTier DEF LowerByStall
      <4> QED
        BY <1>1, <3>2, <4>1 DEF Level
    <3> QED
      BY <3>2, <3>3 DEF PinStep
  <2> QED
    BY <1>7, <2>3, <2>4
<1> QED
  BY <1>2, <1>3, <1>4, <1>5, <1>6, <1>7 DEF TurnStep

LEMMA CallSteps ==
    ASSUME TypeOK, Backend = "memory", NEW a \in Actors,
           (a \in Signals /\ SignalStep(a)) \/ (a \in Setters /\ SetterStep(a))
    PROVE  PinStep
<1> USE PinTurnsAssumption
<1>1. /\ Seen(a) = stored /\ stored \in PinType /\ stored.level \in Level
      /\ pc \in [Actors -> PCs]
  BY DEF TypeOK, Seen, PinType
<1>2. CASE LoadForSignal(a) \/ LoadForSet(a)
  <2>1. stored' = stored
    BY <1>2 DEF LoadForSignal, LoadForSet, Load
  <2>2. Unmoved(stored, stored)
    BY <1>1, UnmovedChange
  <2>3. stored.level >= stored.level
    BY <1>1 DEF Level
  <2> QED
    BY <2>1, <2>2, <2>3 DEF PinStep
<1>3. CASE a \in Setters /\ SetPut(a)
  <2>1. PICK l \in Level : stored' = AtLevel(stored, l)
    BY <1>1, <1>3 DEF SetPut, MutateAndPut
  <2>2. Unmoved(stored, stored')
    BY <1>1, <2>1, UnmovedChange
  <2>3. LowerBySet
    BY <1>1, <1>3 DEF SetPut, Goto, LowerBySet
  <2> QED
    BY <2>2, <2>3 DEF PinStep
<1>4. CASE a \in Signals /\ SignalPut(a)
  <2>1. PICK e \in Evidence :
          LET scored == [Seen(a) EXCEPT !.score = @ + e.weight]
              new == FromNumeric(scored.level + 1)
          IN  MutateAndPut(a, IF MayEscalate(scored, new) THEN MovedUp(scored, new) ELSE scored)
    BY <1>4 DEF SignalPut
  <2> DEFINE score == stored.score + e.weight
             scored == [stored EXCEPT !.score = score]
             new == FromNumeric(scored.level + 1)
  <2>2. score \in Int
    BY <1>1 DEF EvidenceType, PinType
  <2>3. \/ stored' = scored
        \/ MayEscalate(scored, new) /\ stored' = MovedUp(scored, new)
    BY <1>1, <2>1 DEF MutateAndPut
  <2> HIDE DEF score
  <2>4. scored = [stored EXCEPT !.score = score] /\ new = FromNumeric(scored.level + 1)
    OBVIOUS
  <2> HIDE DEF scored, new
  <2>5. /\ Unmoved(stored, scored) /\ scored.level = stored.level
        /\ MayEscalate(scored, new) => Escalated(stored, MovedUp(scored, new))
        /\ MovedUp(scored, new).level >= stored.level
    BY <1>1, <2>2, <2>4, SignalMove
  <2> QED
    BY <1>1, <2>3, <2>5 DEF PinStep, Level
<1> QED
  BY <1>2, <1>3, <1>4 DEF SignalStep, SetterStep

LEMMA MemorySteps == ASSUME TypeOK, Backend = "memory", Next PROVE PinStep
BY TurnSteps, CallSteps DEF Next, Actors

\* Where a move by signals was made, the pin says until when the next one waits.
CooldownNoted == stored.count > 0 => stored.until = stored.last + Cooldown

LEMMA CooldownIsNoted == ASSUME Backend = "memory" PROVE Spec => []CooldownNoted
<1>1. Init => CooldownNoted
  BY DEF Init, FreshPin, CooldownNoted
<1>2. TypeOK /\ CooldownNoted /\ [Next]_vars => CooldownNoted'
  <2> SUFFICES ASSUME TypeOK, CooldownNoted, [Next]_vars PROVE CooldownNoted'
    OBVIOUS
  <2>1. CASE Next
    BY <2>1, MemorySteps DEF PinStep, Unmoved, Escalated, CooldownNoted
  <2>2. CASE UNCHANGED vars
    BY <2>2 DEF vars, CooldownNoted
  <2> QED
    BY <2>1, <2>2
<1> QED
  BY <1>1, <1>2, TypeCorrect, PTL DEF Spec

\* With the in-memory store two moves by signals are cooldown_turns turns apart,
\* however many turns and /signal calls of the session overlap.
THEOREM CooldownIsKept == ASSUME Backend = "memory" PROVE Spec => CooldownKept
<1>1. TypeOK /\ CooldownNoted /\ [Next]_vars =>
         [stored'.count > stored.count /\ stored.count > 0
            => stored'.turns >= stored.last + Cooldown]_vars
  <2> SUFFICES ASSUME TypeOK, CooldownNoted, Next, stored'.count > stored.count, stored.count > 0
               PROVE  stored'.turns >= stored.last + Cooldown
    OBVIOUS
  <2>1. PinStep /\ stored.count \in Nat
    BY MemorySteps DEF TypeOK, PinType
  <2>2. Escalated(stored, stored')
    BY <2>1 DEF PinStep, Unmoved
  <2> QED
    BY <2>2 DEF Escalated, CooldownNoted
<1> QED
  BY <1>1, TypeCorrect, CooldownIsNoted, PTL DEF Spec, CooldownKept

\* With the in-memory store the tier goes down only by PUT, by a repin or by a
\* stall recovery from a route below the pin.
THEOREM DropsAreExplained == ASSUME Backend = "memory" PROVE Spec => DropsExplained
<1>1. TypeOK /\ [Next]_vars =>
         [stored'.level < stored.level
            => \/ \E s \in Setters : pc[s] = "setput" /\ pc'[s] = "done"
               \/ \E t \in Turns : pc[t] = "hit" /\ opt[t].repin /\ pc'[t] = "signals"
               \/ \E t \in Turns : /\ pc[t] = "streaming" /\ pc'[t] = "restream"
                                   /\ route[t] < stored.level]_vars
  <2> SUFFICES ASSUME TypeOK, Next, stored'.level < stored.level
               PROVE  LowerBySet \/ LowerByRepin \/ LowerByStall
    BY DEF LowerBySet, LowerByRepin, LowerByStall
  <2>1. PinStep /\ stored.level \in Int
    BY MemorySteps DEF TypeOK, PinType, Level
  <2>2. stored'.level \in Int
    <3>1. PICK a \in Actors : Change(a)
      BY StepChanges
    <3> QED
      BY <3>1, ChangeType DEF PinType, Level
  <2> QED
    BY <2>1, <2>2 DEF PinStep
<1> QED
  BY <1>1, TypeCorrect, PTL DEF Spec, DropsExplained
=============================================================================
