------------------------ MODULE FallbackChainProofs ------------------------
(***************************************************************************)
(* For chains of any length and any configuration of times: the types, the *)
(* order of the attempts, that none is skipped, and when chain and request *)
(* are over at the latest.                                                 *)
(***************************************************************************)
EXTENDS FallbackChain, TLAPS

\* Where the chain stands: at `model` it has used `retry` retries, nothing
\* after it has been tried, and what is before it had all its attempts, unless
\* the deadline has passed and nothing will be tried any more.
Standing ==
    pc = "try" =>
        /\ tried[model] = retry
        /\ \A m \in Positions : m > model => tried[m] = 0
        /\ DeadlinePassed \/ \A m \in Positions : m < model => tried[m] = MaxRetries + 1

IInv == TypeOK /\ Standing /\ ChainOrder /\ NothingSkipped /\ ChainBounded

\* The overrun is a number of ticks.
LEMMA OverrunType == Overrun \in Nat /\ Larger(Timeout, Second) \in Nat
<1>1. Larger(Timeout, Second) \in Nat
  BY FallbackChainAssumption DEF Larger
<1>2. \A a, b \in Nat : a * b \in Nat
  OBVIOUS
<1>3. Waits - 1 \in Nat /\ Second - 1 \in Nat /\ Backoff \in Nat
  BY FallbackChainAssumption
<1> DEFINE P == (Waits - 1) * Larger(Timeout, Second)
<1>4. P \in Nat
  BY <1>1, <1>2, <1>3
<1>5. Overrun = P + (Second - 1) + Backoff
  BY DEF Overrun
<1> HIDE DEF P
<1> QED
  BY <1>1, <1>3, <1>4, <1>5

LEMMA FirstWaitType == FirstWait \in Nat /\ (FirstToken > 0 => FirstWait = FirstToken)
<1>1. \A a, b \in Nat : a * b \in Nat
  OBVIOUS
<1>2. Waits * Larger(Timeout, Second) \in Nat
  BY <1>1, OverrunType, FallbackChainAssumption
<1> QED
  BY <1>2, FallbackChainAssumption DEF FirstWait

LEMMA TimeoutType ==
    ASSUME now \in Nat, deadline \in Nat \cup {None}
    PROVE  AttemptTimeout \in Nat
BY FallbackChainAssumption DEF AttemptTimeout, Larger, Smaller

\* An attempt that starts before the deadline runs past it by less than the
\* overrun, the backoff after it included.
LEMMA AttemptBound ==
    ASSUME now \in Nat, deadline \in Nat, ~DeadlinePassed,
           NEW ticks \in 0..(Waits * AttemptTimeout)
    PROVE  now + ticks + Backoff <= deadline + Overrun
<1> DEFINE T == AttemptTimeout
           L == Larger(Timeout, Second)
           R == deadline - now
           W == Waits - 1
<1>1. deadline # None
  BY FallbackChainAssumption
<1>2. R \in Nat /\ R >= 1
  BY <1>1 DEF DeadlinePassed
<1>3. T \in Nat /\ T <= L /\ T - R <= Second - 1
  BY <1>1, <1>2, FallbackChainAssumption DEF AttemptTimeout, Larger, Smaller
<1>4. L \in Nat /\ W \in Nat
  BY FallbackChainAssumption, OverrunType
<1>5. ticks \in Nat /\ ticks <= W * T + T
  <2>1. Waits * T = W * T + T /\ Waits * T \in Nat
    <3> HIDE DEF T
    <3> QED
      BY <1>3, FallbackChainAssumption
  <2> QED
    BY <2>1
<1>6. W * T <= W * L /\ W * T \in Nat /\ W * L \in Nat
  <2> HIDE DEF T, L, W
  <2> QED
    BY <1>3, <1>4
<1>7. Overrun = W * L + (Second - 1) + Backoff
  BY DEF Overrun
<1> DEFINE WT == W * T
           WL == W * L
<1>8. ticks <= WT + T /\ WT <= WL /\ WT \in Nat /\ WL \in Nat
      /\ Overrun = WL + (Second - 1) + Backoff
  BY <1>5, <1>6, <1>7
<1>9. now + R = deadline
  OBVIOUS
<1> HIDE DEF WT, WL, T, L, W, R
<1> QED
  BY <1>2, <1>3, <1>5, <1>8, <1>9, FallbackChainAssumption

\* Before the first attempt nothing has been tried.
LEMMA UntriedType ==
    /\ [m \in Positions |-> 0] \in [Positions -> 0..(MaxRetries + 1)]
    /\ 1 \in Positions /\ 0 \in 0..MaxRetries /\ NoError \in Errors
<1>1. 0 \in 0..(MaxRetries + 1) /\ 0 \in 0..MaxRetries
  BY FallbackChainAssumption
<1>2. 1 \in Positions
  BY FallbackChainAssumption DEF Positions
<1>3. NoError \in Errors
  BY DEF NoError, Errors, Kinds
<1> QED
  BY <1>1, <1>2, <1>3

LEMMA InitInv == Init => IInv
<1> SUFFICES ASSUME Init PROVE IInv
  OBVIOUS
<1>1. 1 \in 1..Tiers /\ 0 \in 0..(1 - 1)
  BY FallbackChainAssumption
<1>2. TypeOK
  BY <1>1, UntriedType DEF Init, TypeOK, PCs
<1>3. Standing /\ ChainOrder /\ NothingSkipped /\ ChainBounded
  BY UntriedType DEF Init, Standing, ChainOrder, NothingSkipped, ChainBounded
<1> QED
  BY <1>2, <1>3 DEF IInv

\* A chain that starts has tried nothing.
LEMMA StartKeeps ==
    ASSUME IInv, StartChain, UNCHANGED <<stream, status>>,
           now' \in Nat, tier' \in 1..Tiers, restreams' \in 0..(tier' - 1),
           deadline' \in Nat \cup {None},
           deadline' # None => now' <= deadline'
    PROVE  IInv'
<1>1. tried' = [m \in Positions |-> 0] /\ model' = 1 /\ retry' = 0 /\ pc' = "try"
      /\ lastError' = NoError
  BY DEF StartChain
<1>2. 1 \in Positions
  BY UntriedType
<1>3. TypeOK'
  BY <1>1, UntriedType DEF IInv, TypeOK, PCs
<1>4. Standing' /\ ChainOrder' /\ NothingSkipped'
  BY <1>1, <1>2 DEF Standing, ChainOrder, NothingSkipped, Positions
<1>5. ChainBounded'
  BY OverrunType, FallbackChainAssumption DEF ChainBounded, Overrun
<1> QED
  BY <1>3, <1>4, <1>5 DEF IInv

LEMMA SkipKeeps == ASSUME IInv, SkipModel PROVE IInv'
<1> USE DEF IInv
<1>1. /\ pc = "try" /\ DeadlinePassed /\ retry' = 0
      /\ lastError' = [lastError EXCEPT !.kind = "deadline"]
      /\ UNCHANGED <<now, stream, tier, restreams, deadline, tried, status>>
      /\ \/ model < Models /\ model' = model + 1 /\ pc' = "try"
         \/ model' = model /\ pc' = "exhausted"
  BY DEF SkipModel, NextModel
<1>2. lastError' \in Errors /\ lastError'.kind = "deadline"
  BY <1>1 DEF TypeOK, Errors, Kinds
<1>3. TypeOK'
  <2>1. model' \in Positions
    <3>1. model \in 1..Models /\ Models \in Nat
      BY FallbackChainAssumption DEF TypeOK, Positions
    <3>2. model' = model \/ (model < Models /\ model' = model + 1)
      BY <1>1
    <3> QED
      BY <3>1, <3>2 DEF Positions
  <2>2. pc' \in PCs
    BY <1>1 DEF PCs
  <2>3. retry' \in 0..MaxRetries
    BY <1>1, UntriedType
  <2> QED
    BY <1>1, <1>2, <2>1, <2>2, <2>3 DEF TypeOK
<1>4. Standing'
  <2>1. DeadlinePassed'
    BY <1>1 DEF DeadlinePassed
  <2>2. model' = model + 1 => tried'[model'] = 0 /\ \A m \in Positions : m > model' => tried'[m] = 0
    BY <1>1, <1>3 DEF Standing, TypeOK, Positions
  <2> QED
    BY <1>1, <2>1, <2>2 DEF Standing
<1>5. ChainOrder' /\ NothingSkipped'
  BY <1>1, <1>2 DEF ChainOrder, NothingSkipped
<1>6. ChainBounded'
  BY <1>1, FallbackChainAssumption DEF ChainBounded, Overrun
<1> QED
  BY <1>3, <1>4, <1>5, <1>6

LEMMA FailKeeps == ASSUME IInv, AttemptFails PROVE IInv'
<1> USE DEF IInv
<1>1. PICK ticks \in 0..(Waits * AttemptTimeout) :
         /\ lastError' \in Failures(ticks)
         /\ now' = now + ticks + (IF RetriesLeft THEN Backoff ELSE 0)
  BY DEF AttemptFails
<1>2. /\ pc = "try" /\ ~DeadlinePassed
      /\ tried' = [tried EXCEPT ![model] = @ + 1]
      /\ UNCHANGED <<stream, tier, restreams, deadline, status>>
      /\ \/ retry < MaxRetries /\ retry' = retry + 1 /\ pc' = "try" /\ model' = model
         \/ /\ retry >= MaxRetries /\ retry' = 0
            /\ \/ model < Models /\ model' = model + 1 /\ pc' = "try"
               \/ model >= Models /\ model' = model /\ pc' = "exhausted"
  BY FallbackChainAssumption DEF AttemptFails, NextModel, RetriesLeft, TypeOK, Positions
<1>3. ticks \in Nat
  BY DEF TypeOK
<1>4. now' \in Nat
  BY <1>1, <1>3, FallbackChainAssumption DEF TypeOK
<1>5. lastError' \in Errors
  <2>1. Failures(ticks) \subseteq Errors
    <3>1. [kind : {"status", "exception"}, exhausted : BOOLEAN] \subseteq Errors
      BY DEF Errors, Kinds
    <3>2. [kind |-> "choices", exhausted |-> TRUE] \in Errors
      BY DEF Errors, Kinds
    <3>3. [kind |-> "timeout", exhausted |-> FALSE] \in Errors
      BY DEF Errors, Kinds
    <3> QED
      BY <3>1, <3>2, <3>3 DEF Failures
  <2> QED
    BY <1>1, <2>1
<1>6. tried[model] = retry /\ retry \in 0..MaxRetries /\ model \in Positions
  BY <1>2 DEF Standing, TypeOK
<1>7. /\ tried'[model] = retry + 1
      /\ \A m \in Positions \ {model} : tried'[m] = tried[m]
  BY <1>2, <1>6 DEF TypeOK
<1>8. tried' \in [Positions -> 0..(MaxRetries + 1)]
  <2>1. retry + 1 \in 0..(MaxRetries + 1)
    BY <1>6, FallbackChainAssumption
  <2> QED
    BY <1>2, <1>6, <2>1 DEF TypeOK
<1>9. TypeOK'
  <2>1. model' \in Positions /\ retry' \in 0..MaxRetries /\ pc' \in PCs
    BY <1>2, <1>6, FallbackChainAssumption DEF Positions, PCs
  <2> QED
    BY <1>2, <1>4, <1>5, <1>8, <2>1 DEF TypeOK
<1>10. \A m \in Positions : m < model => tried[m] = MaxRetries + 1
  BY <1>2 DEF Standing
<1>11. \A m \in Positions : m > model => tried[m] = 0
  BY <1>2 DEF Standing
<1>12. pc' = "try" \/ tried'[model] = MaxRetries + 1
  BY <1>2, <1>6, <1>7, FallbackChainAssumption
<1>13. Standing'
  <2>1. CASE model' = model /\ pc' = "try"
    BY <1>2, <1>6, <1>7, <1>10, <1>11, <2>1, FallbackChainAssumption DEF Standing, Positions
  <2>2. CASE model' = model + 1 /\ pc' = "try"
    <3>1. retry = MaxRetries /\ retry' = 0
      BY <1>2, <1>6, <2>2, FallbackChainAssumption DEF Positions
    <3>2. tried'[model'] = 0
      BY <1>7, <1>9, <1>11, <2>2 DEF TypeOK, Positions
    <3>3. \A m \in Positions : m > model' => tried'[m] = 0
      BY <1>6, <1>7, <1>11, <2>2, FallbackChainAssumption DEF Positions
    <3>4. \A m \in Positions : m < model' => tried'[m] = MaxRetries + 1
      BY <1>6, <1>7, <1>10, <2>2, <3>1 DEF Positions
    <3> QED
      BY <3>1, <3>2, <3>3, <3>4 DEF Standing
  <2>3. CASE pc' # "try"
    BY <2>3 DEF Standing
  <2> QED
    BY <1>2, <2>1, <2>2, <2>3
<1>14. ChainOrder'
  <2> SUFFICES ASSUME NEW m \in Positions, NEW n \in Positions, m < n, tried'[n] > 0
               PROVE  tried'[m] = MaxRetries + 1
    BY DEF ChainOrder
  <2>1. n <= model
    BY <1>6, <1>7, <1>11 DEF Positions
  <2> QED
    BY <1>6, <1>7, <1>10, <2>1 DEF Positions
<1>15. NothingSkipped'
  BY <1>2, <1>6, <1>7, <1>10, FallbackChainAssumption DEF NothingSkipped, Positions
<1>16. ChainBounded'
  <2>1. CASE deadline = None
    BY <1>2, <2>1 DEF ChainBounded
  <2>2. CASE deadline # None
    <3>1. now \in Nat /\ deadline \in Nat
      BY <2>2 DEF TypeOK
    <3>2. now + ticks + Backoff <= deadline + Overrun
      BY <1>2, <3>1, AttemptBound
    <3>3. now' <= now + ticks + Backoff
      BY <1>1, <1>3, <3>1, FallbackChainAssumption
    <3>4. now' <= deadline' + Overrun
      BY <1>2, <1>3, <1>4, <3>1, <3>2, <3>3, OverrunType, FallbackChainAssumption
    <3> QED
      BY <3>4 DEF ChainBounded, Overrun
  <2> QED
    BY <2>1, <2>2
<1> QED
  BY <1>9, <1>13, <1>14, <1>15, <1>16

LEMMA SucceedKeeps == ASSUME IInv, AttemptSucceeds PROVE IInv'
<1> USE DEF IInv
<1>1. PICK ticks \in 0..(Waits * AttemptTimeout) : now' = now + ticks
  BY DEF AttemptSucceeds
<1>2. /\ pc = "try" /\ ~DeadlinePassed
      /\ tried' = [tried EXCEPT ![model] = @ + 1]
      /\ pc' \in {"open", "answered"} /\ status' = 200
      /\ UNCHANGED <<stream, tier, restreams, deadline, model, retry, lastError>>
  BY DEF AttemptSucceeds
<1>3. ticks \in Nat /\ now' \in Nat
  BY <1>1 DEF TypeOK
<1>4. tried[model] = retry /\ retry \in 0..MaxRetries /\ model \in Positions
  BY <1>2 DEF Standing, TypeOK
<1>5. /\ tried'[model] = retry + 1
      /\ \A m \in Positions \ {model} : tried'[m] = tried[m]
  BY <1>2, <1>4 DEF TypeOK
<1>6. TypeOK'
  <2>1. retry + 1 \in 0..(MaxRetries + 1)
    BY <1>4, FallbackChainAssumption
  <2>2. tried' \in [Positions -> 0..(MaxRetries + 1)]
    BY <1>2, <1>4, <2>1 DEF TypeOK
  <2> QED
    BY <1>2, <1>3, <2>2 DEF TypeOK, PCs
<1>7. ChainOrder'
  <2> SUFFICES ASSUME NEW m \in Positions, NEW n \in Positions, m < n, tried'[n] > 0
               PROVE  tried'[m] = MaxRetries + 1
    BY DEF ChainOrder
  <2>1. n <= model
    BY <1>2, <1>4, <1>5 DEF Standing, Positions
  <2> QED
    BY <1>2, <1>4, <1>5, <2>1 DEF Standing, Positions
<1>8. Standing' /\ NothingSkipped'
  BY <1>2 DEF Standing, NothingSkipped
<1>9. ChainBounded'
  <2>1. CASE deadline = None
    BY <1>2, <2>1 DEF ChainBounded
  <2>2. CASE deadline # None
    <3>1. now \in Nat /\ deadline \in Nat
      BY <2>2 DEF TypeOK
    <3>2. now + ticks + Backoff <= deadline + Overrun
      BY <1>2, <3>1, AttemptBound
    <3>3. now' <= deadline' + Overrun
      BY <1>1, <1>2, <1>3, <3>1, <3>2, OverrunType, FallbackChainAssumption
    <3> QED
      BY <3>3 DEF ChainBounded, Overrun
  <2> QED
    BY <2>1, <2>2
<1> QED
  BY <1>6, <1>7, <1>8, <1>9

\* The steps outside the chain leave it alone.
LEMMA OutsideKeeps ==
    ASSUME IInv, Arrive \/ RetryHigherTier \/ Refuse \/ RestreamFails
                 \/ FirstTokenArrives \/ StreamBreaks \/ StallFails \/ UNCHANGED vars
    PROVE  IInv'
<1> USE DEF IInv
<1>1. CASE UNCHANGED vars
  BY <1>1 DEF vars, TypeOK, Standing, DeadlinePassed, ChainOrder, NothingSkipped,
              ChainBounded, Overrun
<1>2. CASE Arrive \/ RetryHigherTier \/ Refuse \/ RestreamFails
           \/ FirstTokenArrives \/ StreamBreaks \/ StallFails
  <2>1. UNCHANGED <<tried, model, retry, deadline, lastError>>
        /\ pc' \in PCs \ {"try", "exhausted", "open"}
    BY <1>2 DEF Arrive, RetryHigherTier, Refuse, RestreamFails, FirstTokenArrives,
                StreamBreaks, StallFails, PCs
  <2>2. now' \in Nat
    BY <1>2, FallbackChainAssumption DEF Arrive, RetryHigherTier, Refuse, RestreamFails,
                FirstTokenArrives, StreamBreaks, StallFails, TypeOK
  <2>3. tier' \in 1..Tiers /\ restreams' \in 0..(tier' - 1)
    BY <1>2, FallbackChainAssumption DEF Arrive, RetryHigherTier, Refuse, RestreamFails,
                FirstTokenArrives, StreamBreaks, StallFails, TypeOK
  <2>4. stream' \in BOOLEAN /\ status' \in {0, 200, 502, 504}
    BY <1>2 DEF Arrive, RetryHigherTier, Refuse, RestreamFails, FirstTokenArrives,
                StreamBreaks, StallFails, TypeOK
  <2>5. TypeOK'
    BY <2>1, <2>2, <2>3, <2>4 DEF TypeOK
  <2> QED
    BY <2>1, <2>5 DEF Standing, ChainOrder, NothingSkipped, ChainBounded
<1> QED
  BY <1>1, <1>2

LEMMA NextKeeps == ASSUME IInv, [Next]_vars PROVE IInv'
<1>1. CASE Forward
  BY <1>1, StartKeeps, FallbackChainAssumption DEF Forward, IInv, TypeOK
<1>2. CASE StallRecovers
  <2>1. now' \in Nat /\ (deadline' # None => now' <= deadline')
    BY <1>2, FallbackChainAssumption DEF StallRecovers, MayRestream, IInv, TypeOK
  <2>2. tier' \in 1..Tiers /\ restreams' \in 0..(tier' - 1) /\ deadline' \in Nat \cup {None}
    BY <1>2, FallbackChainAssumption DEF StallRecovers, MayRestream, IInv, TypeOK
  <2> QED
    BY <1>2, <2>1, <2>2, StartKeeps DEF StallRecovers
<1> QED
  BY <1>1, <1>2, SkipKeeps, FailKeeps, SucceedKeeps, OutsideKeeps DEF Next

LEMMA Invariance == Spec => []IInv
BY InitInv, NextKeeps, PTL DEF Spec

\* Types, for every chain and configuration.
THEOREM TypeCorrect == Spec => []TypeOK
<1>1. IInv => TypeOK
  BY DEF IInv
<1> QED
  BY <1>1, Invariance, PTL

\* The models of a tier are tried in order, each with all its attempts.
THEOREM OrderHolds == Spec => [](ChainOrder /\ NothingSkipped)
<1>1. IInv => ChainOrder /\ NothingSkipped
  BY DEF IInv
<1> QED
  BY <1>1, Invariance, PTL

\* A chain ends by its deadline, give or take one overrun.
THEOREM EndsInTime == Spec => []ChainBounded
<1>1. IInv => ChainBounded
  BY DEF IInv
<1> QED
  BY <1>1, Invariance, PTL

\* A chain that ends in an upstream error has left no model untried.
THEOREM NothingIsSkipped == Spec => []NothingSkipped
<1>1. IInv => NothingSkipped
  BY DEF IInv
<1> QED
  BY <1>1, Invariance, PTL

-----------------------------------------------------------------------------
(* A whole request: what each forward and each restream may add.           *)

Round == Deadline + Overrun

Rounds == tier - restreams

\* Between chains the request has had a round for each tier it left behind; the
\* deadline of a chain under way is at most one deadline later than that; and
\* the wait for a first token is the last thing to happen.
RInv ==
    Deadline > 0 =>
        /\ pc \in {"idle", "forward"} => restreams = 0 /\ now <= (Rounds - 1) * Round
        /\ pc \in {"try", "exhausted", "open"} =>
              deadline # None /\ deadline <= (Rounds - 1) * Round + Deadline
        /\ pc \in {"answered", "failed"} => now <= Rounds * Round + FirstWait

LEMMA OneRound ==
    ASSUME TypeOK
    PROVE  /\ Round \in Nat /\ Rounds \in Nat \ {0}
           /\ (Rounds - 1) * Round \in Nat /\ Rounds * Round \in Nat
           /\ Rounds * Round = (Rounds - 1) * Round + Round
<1>1. Round \in Nat
  BY OverrunType, FallbackChainAssumption DEF Round
<1>2. Rounds \in Nat \ {0}
  BY FallbackChainAssumption DEF TypeOK, Rounds
<1>3. \A n \in Nat \ {0}, b \in Nat :
        (n - 1) * b \in Nat /\ n * b \in Nat /\ n * b = (n - 1) * b + b
  OBVIOUS
<1> HIDE DEF Round, Rounds
<1> QED
  BY <1>1, <1>2, <1>3

\* Up to the end of a chain the request is within its rounds.
LEMMA WithinRounds ==
    ASSUME IInv, RInv, Deadline > 0, pc \in {"try", "exhausted", "open"}
    PROVE  now <= Rounds * Round
<1>1. now <= deadline + Overrun /\ deadline <= (Rounds - 1) * Round + Deadline
      /\ deadline # None
  BY DEF IInv, RInv, ChainBounded
<1>2. Round = Deadline + Overrun /\ now \in Nat /\ deadline \in Nat
  BY <1>1 DEF Round, IInv, TypeOK
<1> DEFINE A == (Rounds - 1) * Round
           Z == Rounds * Round
<1>3. A \in Nat /\ Z = A + Round
  BY OneRound DEF IInv
<1>4. deadline <= A + Deadline
  BY <1>1
<1> HIDE DEF A, Z
<1>5. now <= Z
  BY <1>1, <1>2, <1>3, <1>4, OverrunType, FallbackChainAssumption
<1> QED
  BY <1>5 DEF Z

LEMMA RoundsNext == ASSUME IInv, IInv', RInv, [Next]_vars PROVE RInv'
<1> SUFFICES ASSUME Deadline > 0 PROVE RInv'
  BY DEF RInv
<1> DEFINE A == (Rounds - 1) * Round
           Z == Rounds * Round
<1>1. A \in Nat /\ Z \in Nat /\ Z = A + Round /\ Round \in Nat
  BY OneRound DEF IInv
<1>2. now \in Nat /\ now' \in Nat
  BY DEF IInv, TypeOK
<1>3. pc \in {"try", "exhausted", "open"} => now <= Z
  BY WithinRounds
<1>4. Round' = Round
  BY DEF Round, Overrun
<1>5. Rounds' = Rounds => A' = A /\ Z' = Z
  BY <1>4
<1>6. CASE Arrive \/ UNCHANGED vars
  <2>1. Rounds' = Rounds /\ UNCHANGED <<now, deadline, restreams>>
        /\ (pc' = pc \/ (pc = "idle" /\ pc' = "forward"))
    BY <1>6 DEF Arrive, vars, Rounds
  <2> QED
    BY <2>1, <1>4 DEF RInv
<1>7. CASE Forward
  <2>1. pc = "forward" /\ pc' = "try" /\ deadline' = now + Deadline
        /\ UNCHANGED <<now, tier, restreams>>
    BY <1>7 DEF Forward, StartChain
  <2>2. now <= A /\ A' = A
    BY <2>1, <1>4 DEF RInv, Rounds
  <2>3. deadline' <= A' + Deadline /\ deadline' # None
    <3> HIDE DEF A, Z
    <3> QED
      BY <1>1, <1>2, <2>1, <2>2, FallbackChainAssumption
  <2> QED
    BY <2>1, <2>3 DEF RInv
<1>8. CASE SkipModel \/ AttemptFails
  <2>1. pc = "try" /\ pc' \in {"try", "exhausted"} /\ UNCHANGED <<deadline, tier, restreams>>
    BY <1>8 DEF SkipModel, AttemptFails, NextModel
  <2>2. Rounds' = Rounds
    BY <2>1 DEF Rounds
  <2> QED
    BY <1>4, <2>1, <2>2 DEF RInv
<1>9. CASE AttemptSucceeds
  <2>1. PICK ticks \in 0..(Waits * AttemptTimeout) : now' = now + ticks
    BY <1>9 DEF AttemptSucceeds
  <2>2. pc = "try" /\ ~DeadlinePassed /\ pc' \in {"open", "answered"}
        /\ UNCHANGED <<deadline, tier, restreams>>
    BY <1>9 DEF AttemptSucceeds
  <2>3. deadline \in Nat /\ deadline # None /\ deadline <= A + Deadline
    BY <2>2 DEF RInv, IInv, TypeOK
  <2>4. now + ticks + Backoff <= deadline + Overrun
    BY <1>2, <2>2, <2>3, AttemptBound
  <2>5. A' = A /\ Z' = Z /\ Rounds' = Rounds
    BY <1>5, <2>2 DEF Rounds
  <2>6. Round = Deadline + Overrun
    BY DEF Round
  <2>7. now' <= Z' + FirstWait
    <3>1. ticks \in Int
      OBVIOUS
    <3> HIDE DEF A, Z
    <3> QED
      BY <1>1, <1>2, <2>1, <2>3, <2>4, <2>5, <2>6, <3>1, OverrunType, FirstWaitType, FallbackChainAssumption
  <2>8. deadline' # None /\ deadline' <= A' + Deadline
    BY <2>2, <2>3, <2>5
  <2> QED
    BY <2>2, <2>7, <2>8 DEF RInv
<1>10. CASE RetryHigherTier
  <2>1. pc = "exhausted" /\ pc' = "forward" /\ restreams = 0 /\ restreams' = 0
        /\ tier' = tier + 1 /\ now' = now
    BY <1>10 DEF RetryHigherTier
  <2>2. Rounds' - 1 = Rounds
    BY <2>1 DEF Rounds, IInv, TypeOK
  <2>3. now' <= (Rounds' - 1) * Round'
    BY <1>3, <1>4, <2>1, <2>2
  <2> QED
    BY <2>1, <2>3 DEF RInv
<1>11. CASE Refuse \/ RestreamFails
  <2>1. pc = "exhausted" /\ pc' = "failed" /\ UNCHANGED <<now, tier, restreams>>
    BY <1>11 DEF Refuse, RestreamFails
  <2>2. Z' = Z /\ now <= Z
    BY <1>3, <1>5, <2>1 DEF Rounds
  <2>3. now' <= Z' + FirstWait
    <3> HIDE DEF A, Z
    <3> QED
      BY <1>1, <1>2, <2>1, <2>2, FirstWaitType
  <2> QED
    BY <2>1, <2>3 DEF RInv
<1>12. CASE FirstTokenArrives \/ StreamBreaks \/ StallFails
  <2>1. PICK ticks \in 0..FirstWait : now' = now + ticks
    BY <1>12, FirstWaitType, FallbackChainAssumption DEF FirstTokenArrives, StreamBreaks,
       StallFails
  <2>2. pc = "open" /\ pc' \in {"answered", "failed"} /\ UNCHANGED <<tier, restreams>>
    BY <1>12 DEF FirstTokenArrives, StreamBreaks, StallFails
  <2>3. Z' = Z /\ now <= Z
    BY <1>3, <1>5, <2>2 DEF Rounds
  <2>4. now' <= Z' + FirstWait
    <3>1. ticks \in Int /\ ticks <= FirstWait
      BY FirstWaitType
    <3> HIDE DEF A, Z
    <3> QED
      BY <1>1, <1>2, <2>1, <2>3, <3>1, FirstWaitType
  <2> QED
    BY <2>2, <2>4 DEF RInv
<1>13. CASE StallRecovers
  <2>1. pc = "open" /\ pc' = "try" /\ deadline' = deadline
        /\ tier' = tier + 1 /\ restreams' = restreams + 1
    BY <1>13 DEF StallRecovers, StartChain
  <2>2. Rounds' = Rounds
    BY <2>1 DEF Rounds, IInv, TypeOK
  <2> QED
    BY <1>4, <2>1, <2>2 DEF RInv
<1> QED
  BY <1>6, <1>7, <1>8, <1>9, <1>10, <1>11, <1>12, <1>13 DEF Next

LEMMA RoundsInit == Init => RInv
<1> SUFFICES ASSUME Init PROVE RInv
  OBVIOUS
<1>1. (Rounds - 1) * Round = 0
  <2>1. Rounds - 1 = 0 /\ Round \in Nat
    BY OverrunType, FallbackChainAssumption DEF Init, Rounds, Round
  <2>2. \A b \in Nat : 0 * b = 0
    OBVIOUS
  <2> HIDE DEF Rounds, Round
  <2> QED
    BY <2>1, <2>2
<1> QED
  BY <1>1 DEF Init, RInv

LEMMA RoundsWithin == ASSUME IInv, RInv PROVE RequestBounded
<1> SUFFICES ASSUME Deadline > 0 PROVE now <= Rounds * Round + FirstWait
  BY DEF RequestBounded, Rounds, Round
<1> DEFINE A == (Rounds - 1) * Round
           Z == Rounds * Round
<1>1. A \in Nat /\ Z \in Nat /\ Z = A + Round /\ Round \in Nat
  BY OneRound DEF IInv
<1>2. now <= A \/ now <= Z \/ now <= Z + FirstWait
  BY WithinRounds DEF RInv, IInv, TypeOK, PCs
<1>3. now \in Nat
  BY DEF IInv, TypeOK
<1>4. now <= Z + FirstWait
  <2> HIDE DEF A, Z
  <2> QED
    BY <1>1, <1>2, <1>3, FirstWaitType
<1> QED
  BY <1>4

\* A request ends within one deadline and one overrun for each time it is
\* forwarded, plus one wait for a first line, with the stall guard on or off: its
\* restreams cost nothing more.
THEOREM RequestEndsInTime == Spec => []RequestBounded
<1>1. Spec => []RInv
  BY RoundsInit, RoundsNext, Invariance, PTL DEF Spec
<1> QED
  BY <1>1, RoundsWithin, Invariance, PTL
=============================================================================
