-------------------------- MODULE FirstTurnProofs --------------------------
(***************************************************************************)
(* What holds of the first-turn protocol for any number of requests, any   *)
(* timing: its types and, with both stores, that a reservation is never    *)
(* given out twice (ReservationExcludes); with the in-memory store, what   *)
(* the classifier is called for (CallsAccounted) and that one request's    *)
(* pin does not take the place of another's (PinKept). The last part is    *)
(* about the conditions under which FirstTurn implements OnePin.           *)
(***************************************************************************)
EXTENDS FirstTurn, FiniteSetTheorems, TLAPS

\* Sharing a changed pin keeps every holder's entry a pin.
LEMMA MutatedType ==
    ASSUME NEW a \in Actors, NEW p \in Pins, mine \in [Actors -> Pins \cup {None}]
    PROVE  Mutated(a, p) \in [Actors -> Pins \cup {None}]
BY DEF Mutated

\* A coroutine only ever moves to a point of the program.
LEMMA GotoType ==
    ASSUME NEW a \in Actors, NEW there \in PCs, pc \in [Actors -> PCs], Goto(a, there)
    PROVE  pc' \in [Actors -> PCs]
BY DEF Goto

\* The initial state is well typed.
LEMMA InitType == Init => TypeOK
BY FirstTurnAssumption DEF Init, TypeOK, PCs

\* The non-history part of the type invariant.
StateOK ==
    /\ pc \in [Actors -> PCs]
    /\ left \in [Actors -> Nat]
    /\ holder \in Requests \cup {None} /\ ttl \in Nat
    /\ (holder = None) <=> (ttl = 0)
    /\ stored \in Pins \cup {None}
    /\ mine \in [Actors -> Pins \cup {None}]
    /\ expired \subseteq Actors

\* Every step of a request keeps the state well typed.
LEMMA RequestStepType ==
    ASSUME StateOK, NEW r \in Requests, RequestStep(r) \/ Fail(r)
    PROVE  StateOK'
<1> USE FirstTurnAssumption
<1>0. r \in Actors /\ r # None
  BY DEF Actors
<1>1. CASE LookupMiss(r)
  BY <1>0, <1>1 DEF LookupMiss, GetMisses, Goto, StateOK, PCs
<1>2. CASE LookupCapped(r)
  BY <1>0, <1>2 DEF LookupCapped, Goto, StateOK, PCs
<1>3. CASE LookupHit(r)
  <2>1. [stored EXCEPT !.turns = @ + 1] \in Pins
    BY <1>3 DEF LookupHit, Live, StateOK, Pins
  <2> QED
    BY <1>0, <1>3, <2>1, MutatedType DEF LookupHit, Goto, StateOK, PCs
<1>4. CASE LookupReclassify(r)
  BY <1>0, <1>4 DEF LookupReclassify, Goto, StateOK, PCs
<1>5. CASE Purge(r)
  BY <1>0, <1>5 DEF Purge, AfterPoll, Goto, StateOK, PCs
<1>6. CASE Drop(r)
  BY <1>0, <1>6 DEF Drop, DropReservation, Goto, StateOK, PCs
<1>7. CASE DropRes(r)
  BY <1>0, <1>7 DEF DropRes, DropReservation, Goto, StateOK, PCs
<1>8. CASE Reserve(r)
  BY <1>0, <1>8 DEF Reserve, Goto, StateOK, PCs
<1>9. CASE ReserveFails(r)
  BY <1>0, <1>9 DEF ReserveFails, Goto, StateOK, PCs
<1>10. CASE PollFindsPin(r)
  <2>1. [stored EXCEPT !.turns = @ + 1] \in Pins
    BY <1>10 DEF PollFindsPin, Live, StateOK, Pins
  <2> QED
    BY <1>0, <1>10, <2>1, MutatedType DEF PollFindsPin, Goto, StateOK, PCs
<1>11. CASE PollMisses(r)
  BY <1>0, <1>11 DEF PollMisses, GetMisses, AfterPoll, Goto, StateOK, PCs
<1>12. CASE GiveUp(r)
  BY <1>0, <1>12 DEF GiveUp, DropReservation, Goto, StateOK, PCs
<1>13. CASE ClassifyDone(r)
  BY <1>0, <1>13 DEF ClassifyDone, Goto, StateOK, PCs
<1>14. CASE Release(r)
  BY <1>0, <1>14 DEF Release, DropReservation, Goto, StateOK, PCs
<1>15. CASE PutNewPin(r)
  BY <1>0, <1>15 DEF PutNewPin, Goto, StateOK, PCs, Pins
<1>16. CASE SaveTurn(r)
  BY <1>0, <1>16 DEF SaveTurn, Goto, StateOK, PCs
<1>17. CASE FinishWithPut(r)
  BY <1>0, <1>17 DEF FinishWithPut, Goto, StateOK, PCs
<1>18. CASE FinishWithoutPut(r)
  BY <1>0, <1>18 DEF FinishWithoutPut, Goto, StateOK, PCs
<1>19. CASE Fail(r)
  BY <1>0, <1>19 DEF Fail, Goto, StateOK, PCs
<1> QED
  BY <1>1, <1>2, <1>3, <1>4, <1>5, <1>6, <1>7, <1>8, <1>9, <1>10, <1>11, <1>12,
     <1>13, <1>14, <1>15, <1>16, <1>17, <1>18, <1>19 DEF RequestStep

\* So do the calls from outside, the clock, expiry and eviction.
LEMMA OutsideStepType ==
    ASSUME StateOK,
           \/ \E d \in Deleters : Delete(d) \/ DeleteRes(d)
           \/ \E c \in Clearers : DeleteAll(c)
           \/ \E s \in Setters : SetterStep(s)
           \/ Tick \/ PinExpires \/ Evict
    PROVE  StateOK'
<1> USE FirstTurnAssumption
<1>1. ASSUME NEW d \in Deleters, Delete(d) \/ DeleteRes(d) PROVE StateOK'
  <2>1. d \in Actors
    BY DEF Actors
  <2> QED
    BY <1>1, <2>1 DEF Delete, DeleteRes, DropReservation, Goto, StateOK, PCs
<1>2. ASSUME NEW c \in Clearers, DeleteAll(c) PROVE StateOK'
  <2>1. c \in Actors
    BY DEF Actors
  <2> QED
    BY <1>2, <2>1 DEF DeleteAll, DropReservation, Goto, StateOK, PCs
<1>3. ASSUME NEW s \in Setters, SetterStep(s) PROVE StateOK'
  <2>0. s \in Actors
    BY DEF Actors
  <2>1. CASE SetFinds(s)
    <3>1. stored \in Pins
      BY <2>1 DEF SetFinds, Live, StateOK
    <3> QED
      BY <2>0, <2>1, <3>1, MutatedType DEF SetFinds, Goto, StateOK, PCs
  <2>2. CASE SetMisses(s)
    BY <2>0, <2>2 DEF SetMisses, GetMisses, Goto, StateOK, PCs
  <2>3. CASE Purge(s)
    BY <2>0, <2>3 DEF Purge, AfterPoll, Goto, StateOK, PCs
  <2>4. CASE SetNew(s)
    BY <2>0, <2>4 DEF SetNew, Goto, StateOK, PCs, Pins
  <2>5. CASE SetPut(s)
    BY <2>0, <2>5 DEF SetPut, Goto, StateOK, PCs
  <2> QED
    BY <1>3, <2>1, <2>2, <2>3, <2>4, <2>5 DEF SetterStep
<1>4. CASE Tick
  BY <1>4 DEF Tick, StateOK
<1>5. CASE PinExpires
  BY <1>5 DEF PinExpires, Live, StateOK, Pins
<1>6. CASE Evict
  BY <1>6 DEF Evict, StateOK
<1> QED
  BY <1>1, <1>2, <1>3, <1>4, <1>5, <1>6

\* The type invariant, for every instance.
THEOREM TypeCorrect == Spec => []TypeOK
<1>1. TypeOK /\ [Next]_vars => TypeOK'
  <2> SUFFICES ASSUME TypeOK, [Next]_vars PROVE TypeOK'
    OBVIOUS
  <2>1. CASE Next
    <3>1. StateOK
      BY DEF TypeOK, StateOK
    <3>2. StateOK'
      BY <2>1, <3>1, RequestStepType, OutsideStepType DEF Next, Step
    <3>3. robbed' \subseteq Requests /\ lost' \in Nat /\ calls' \subseteq Requests
      BY <2>1 DEF Next, History, TypeOK
    <3> QED
      BY <3>2, <3>3 DEF StateOK, TypeOK
  <2>2. CASE UNCHANGED vars
    BY <2>2 DEF vars, TypeOK
  <2> QED
    BY <2>1, <2>2
<1> QED
  BY <1>1, InitType, PTL DEF Spec

-----------------------------------------------------------------------------
\* The strengthening of ReservationExcludes: who works and was not robbed is
\* the holder.
HolderWorks ==
    \A r \in Requests : pc[r] \in Working /\ r \notin robbed => holder = r

\* No step hands a reservation that is held to somebody else, and none starts
\* work without the reservation.
LEMMA HandOver ==
    ASSUME TypeOK, Step, NEW r \in Requests
    PROVE  /\ holder = r => holder' \in {r, None}
           /\ pc'[r] \in Working => pc[r] \in Working \/ holder' = r
<1> USE FirstTurnAssumption DEF TypeOK, Goto, Working
<1>0. r \in Actors /\ r # None
  BY DEF Actors
<1>1. ASSUME NEW q \in Requests, RequestStep(q) \/ Fail(q)
      PROVE  /\ holder = r => holder' \in {r, None}
             /\ pc'[r] \in Working => pc[r] \in Working \/ holder' = r
  <2>0. q \in Actors
    BY DEF Actors
  <2>1. CASE LookupMiss(q) \/ LookupCapped(q) \/ LookupHit(q) \/ LookupReclassify(q)
             \/ Purge(q) \/ Drop(q) \/ DropRes(q)
    BY <1>0, <2>0, <2>1 DEF LookupMiss, GetMisses, LookupCapped, LookupHit,
       LookupReclassify, Purge, AfterPoll, Drop, DropRes, DropReservation
  <2>2. CASE Reserve(q)
    BY <1>0, <2>0, <2>2 DEF Reserve, CanReserve
  <2>3. CASE ReserveFails(q) \/ PollFindsPin(q) \/ PollMisses(q) \/ GiveUp(q)
    BY <1>0, <2>0, <2>3 DEF ReserveFails, PollFindsPin, PollMisses, GetMisses,
       AfterPoll, GiveUp, DropReservation
  <2>4. CASE ClassifyDone(q) \/ Release(q) \/ PutNewPin(q) \/ SaveTurn(q)
             \/ FinishWithPut(q) \/ FinishWithoutPut(q) \/ Fail(q)
    BY <1>0, <2>0, <2>4 DEF ClassifyDone, Release, DropReservation, PutNewPin,
       SaveTurn, FinishWithPut, FinishWithoutPut, Fail
  <2> QED
    BY <1>1, <2>1, <2>2, <2>3, <2>4 DEF RequestStep
<1>2. ASSUME NEW d \in Deleters, Delete(d) \/ DeleteRes(d)
      PROVE  /\ holder = r => holder' \in {r, None}
             /\ pc'[r] \in Working => pc[r] \in Working \/ holder' = r
  <2>0. d \in Actors
    BY DEF Actors
  <2> QED
    BY <1>0, <1>2, <2>0 DEF Delete, DeleteRes, DropReservation
<1>3. ASSUME NEW c \in Clearers, DeleteAll(c)
      PROVE  /\ holder = r => holder' \in {r, None}
             /\ pc'[r] \in Working => pc[r] \in Working \/ holder' = r
  <2>0. c \in Actors
    BY DEF Actors
  <2> QED
    BY <1>0, <1>3, <2>0 DEF DeleteAll, DropReservation
<1>4. ASSUME NEW s \in Setters, SetterStep(s)
      PROVE  /\ holder = r => holder' \in {r, None}
             /\ pc'[r] \in Working => pc[r] \in Working \/ holder' = r
  <2>0. s \in Actors
    BY DEF Actors
  <2> QED
    BY <1>0, <1>4, <2>0 DEF SetterStep, SetFinds, SetMisses, GetMisses, Purge,
       AfterPoll, SetNew, SetPut
<1>5. CASE Tick \/ PinExpires \/ Evict
  BY <1>0, <1>5 DEF Tick, PinExpires, Evict
<1> QED
  BY <1>1, <1>2, <1>3, <1>4, <1>5 DEF Step

LEMMA HolderNext == ASSUME TypeOK, HolderWorks, Next PROVE HolderWorks'
<1> SUFFICES ASSUME NEW r \in Requests, pc'[r] \in Working, r \notin robbed'
             PROVE  holder' = r
  BY DEF HolderWorks
<1>1. /\ holder = r => holder' \in {r, None}
      /\ pc'[r] \in Working => pc[r] \in Working \/ holder' = r
  BY HandOver DEF Next
<1>2. ~(holder = r /\ holder' = None) /\ r \notin robbed
  BY DEF Next, History
<1> QED
  BY <1>1, <1>2 DEF HolderWorks

\* Two requests only classify one session at once when one of them lost its
\* reservation on the way: for any number of requests, any timing, any
\* interference from outside, and both stores.
THEOREM Exclusion == Spec => []ReservationExcludes
<1>1. Init => HolderWorks
  BY DEF Init, HolderWorks, Working, Actors
<1>2. TypeOK /\ HolderWorks /\ [Next]_vars => HolderWorks'
  BY HolderNext DEF vars, HolderWorks
<1>3. HolderWorks => ReservationExcludes
  BY SMTT(30) DEF HolderWorks, ReservationExcludes
<1> QED
  BY <1>1, <1>2, <1>3, TypeCorrect, PTL DEF Spec

-----------------------------------------------------------------------------
(* The classifier calls of a session, with the in-memory store.            *)
(*                                                                         *)
(* Each call but the first is charged to what took the place of the pin it *)
(* should have led to.  Whoever may call next finds neither a live pin nor *)
(* a request that still works under its reservation (Credit).              *)

\* Before a coroutine has made a pin or joined one.
Early == {"idle", "purge", "pollpurge", "setpurge", "drop", "dropres", "reserve",
          "sleep", "giveup", "classify", "release", "put", "setnew"}

\* From the reservation to the pin, and from the reservation on.
Busy == {"classify", "release", "put"}
Past == Busy \cup {"forward", "done", "failed"}

\* A coroutine's move from one point to the next.
Moved(a, there) ==
    /\ pc' = [pc EXCEPT ![a] = there]
    /\ OnLoop(a) \/ pc[a] \notin Suspended
    /\ there \in Early => pc[a] \in Early
    /\ pc[a] \in Past => there \in Past
    /\ pc[a] # "failed"
    /\ there = "classify" => pc[a] = "reserve" /\ CanReserve /\ holder' = a
    /\ there \in Busy => pc[a] \in Busy \/ (pc[a] = "reserve" /\ CanReserve)
    /\ pc[a] \in Busy /\ there \notin Busy =>
          \/ there = "failed"
          \/ pc[a] = "put" /\ stored' = [by |-> a, turns |-> 1] /\ expired' = expired

\* Some pin of `r` has been seen.
Made(r) ==
    \/ r \in expired
    \/ stored # None /\ stored.by = r
    \/ \E a \in Actors : mine[a] # None /\ mine[a].by = r

PutsPin(a) == pc[a] = "put" /\ pc'[a] = "forward"

\* Pins are passed on, and made where a coroutine leaves its early points:
\* if it is a request, to store what it has classified.
Makes(a) ==
    \A r \in Actors :
        Made(r)' => \/ Made(r)
                    \/ r = a /\ pc'[a] \notin Early /\ (a \in Requests => PutsPin(a))

LEMMA RequestMoves ==
    ASSUME TypeOK, NEW q \in Requests, RequestStep(q) \/ Fail(q)
    PROVE  \E there \in PCs : Moved(q, there)
<1> USE FirstTurnAssumption DEF TypeOK, Goto, Moved, Early, Busy, Past, PCs, Suspended
<1>0. q \in Actors
  BY DEF Actors
<1>1. CASE LookupMiss(q) \/ LookupCapped(q) \/ LookupHit(q) \/ LookupReclassify(q)
  BY <1>0, <1>1 DEF LookupMiss, GetMisses, LookupCapped, LookupHit, LookupReclassify
<1>2. CASE Purge(q)
  <2>1. AfterPoll(q) \in {"sleep", "giveup"}
    BY DEF AfterPoll
  <2> QED
    BY <1>0, <1>2, <2>1 DEF Purge
<1>3. CASE Drop(q) \/ DropRes(q)
  BY <1>0, <1>3 DEF Drop, DropRes
<1>4. CASE Reserve(q)
  BY <1>0, <1>4 DEF Reserve
<1>5. CASE ReserveFails(q) \/ GiveUp(q)
  BY <1>0, <1>5 DEF ReserveFails, GiveUp
<1>6. CASE PollFindsPin(q) \/ PollMisses(q)
  <2>1. AfterPoll(q) \in {"sleep", "giveup"}
    BY DEF AfterPoll
  <2> QED
    BY <1>0, <1>6, <2>1 DEF PollFindsPin, PollMisses, GetMisses
<1>7. CASE ClassifyDone(q) \/ Release(q)
  BY <1>0, <1>7 DEF ClassifyDone, Release
<1>8. CASE PutNewPin(q)
  BY <1>0, <1>8 DEF PutNewPin
<1>9. CASE SaveTurn(q) \/ FinishWithPut(q) \/ FinishWithoutPut(q)
  BY <1>0, <1>9 DEF SaveTurn, FinishWithPut, FinishWithoutPut
<1>10. CASE Fail(q)
  BY <1>0, <1>10 DEF Fail
<1> QED
  BY <1>1, <1>2, <1>3, <1>4, <1>5, <1>6, <1>7, <1>8, <1>9, <1>10 DEF RequestStep

LEMMA CallMoves ==
    ASSUME TypeOK, NEW a \in Actors,
           \/ a \in Deleters /\ (Delete(a) \/ DeleteRes(a))
           \/ a \in Clearers /\ DeleteAll(a)
           \/ a \in Setters /\ SetterStep(a)
    PROVE  \E there \in PCs : Moved(a, there)
<1> USE FirstTurnAssumption DEF TypeOK, Goto, Moved, Early, Busy, Past, PCs, Suspended
<1>1. CASE Delete(a) \/ DeleteRes(a) \/ DeleteAll(a)
  BY <1>1 DEF Delete, DeleteRes, DeleteAll
<1>2. CASE SetFinds(a) \/ SetMisses(a) \/ SetNew(a) \/ SetPut(a)
  BY <1>2 DEF SetFinds, SetMisses, GetMisses, SetNew, SetPut
<1>3. CASE Purge(a)
  <2>1. AfterPoll(a) \in {"sleep", "giveup"}
    BY DEF AfterPoll
  <2> QED
    BY <1>3, <2>1 DEF Purge
<1> QED
  BY <1>1, <1>2, <1>3 DEF SetterStep

\* Who holds a pin after one of its holders changed it.
LEMMA MutatedMakes ==
    ASSUME TypeOK, NEW a \in Actors, NEW p \in Pins, stored # None, p.by = stored.by,
           mine' = Mutated(a, p), UNCHANGED <<stored, expired>>
    PROVE  \A r \in Actors : Made(r)' => Made(r)
<1>1. \A b \in Actors : mine'[b] # None => mine'[b] = mine[b] \/ mine'[b].by = stored.by
  BY DEF Mutated, TypeOK
<1> QED
  BY <1>1 DEF Made

LEMMA RequestMakes ==
    ASSUME TypeOK, NEW q \in Requests, RequestStep(q) \/ Fail(q)
    PROVE  Makes(q)
<1> USE FirstTurnAssumption DEF TypeOK, Goto
<1>0. q \in Actors
  BY DEF Actors
<1>1. CASE LookupMiss(q) \/ LookupCapped(q) \/ LookupReclassify(q) \/ Purge(q) \/ Drop(q)
           \/ DropRes(q) \/ Reserve(q) \/ ReserveFails(q) \/ PollMisses(q) \/ GiveUp(q)
           \/ ClassifyDone(q) \/ Release(q) \/ FinishWithoutPut(q) \/ Fail(q)
  <2>1. stored' \in {stored, None} /\ UNCHANGED <<mine, expired>>
    BY <1>1 DEF LookupMiss, GetMisses, LookupCapped, LookupReclassify, Purge, Drop, DropRes,
       Reserve, ReserveFails, PollMisses, GiveUp, ClassifyDone, Release, FinishWithoutPut, Fail
  <2> QED
    BY <2>1 DEF Makes, Made
<1>2. CASE LookupHit(q) \/ PollFindsPin(q)
  <2> DEFINE p == [stored EXCEPT !.turns = @ + 1]
  <2>1. p \in Pins /\ stored # None /\ p.by = stored.by
    BY <1>2 DEF LookupHit, PollFindsPin, Live, Pins
  <2>2. mine' = Mutated(q, p) /\ UNCHANGED <<stored, expired>>
    BY <1>2 DEF LookupHit, PollFindsPin
  <2> HIDE DEF p
  <2> QED
    BY <1>0, <2>1, <2>2, MutatedMakes DEF Makes
<1>3. CASE PutNewPin(q)
  <2>1. /\ stored' = [by |-> q, turns |-> 1]
        /\ mine' = [mine EXCEPT ![q] = [by |-> q, turns |-> 1]]
        /\ expired' = expired /\ pc[q] = "put" /\ pc'[q] = "forward"
    BY <1>0, <1>3 DEF PutNewPin
  <2>2. \A b \in Actors : mine'[b] = mine[b] \/ mine'[b].by = q
    BY <1>0, <2>1
  <2> QED
    BY <2>1, <2>2 DEF Makes, Made, Early, PutsPin
<1>4. CASE SaveTurn(q) \/ FinishWithPut(q)
  <2>1. stored' = mine[q] /\ UNCHANGED <<mine, expired>>
    BY <1>4 DEF SaveTurn, FinishWithPut
  <2> QED
    BY <1>0, <2>1 DEF Makes, Made
<1> QED
  BY <1>1, <1>2, <1>3, <1>4 DEF RequestStep

LEMMA CallMakes ==
    ASSUME TypeOK, NEW a \in Actors,
           \/ a \in Deleters /\ (Delete(a) \/ DeleteRes(a))
           \/ a \in Clearers /\ DeleteAll(a)
           \/ a \in Setters /\ SetterStep(a)
    PROVE  Makes(a)
<1> USE FirstTurnAssumption DEF TypeOK, Goto
<1>1. CASE Delete(a) \/ DeleteRes(a) \/ DeleteAll(a) \/ SetMisses(a) \/ Purge(a)
  <2>1. stored' \in {stored, None} /\ UNCHANGED <<mine, expired>>
    BY <1>1 DEF Delete, DeleteRes, DeleteAll, SetMisses, GetMisses, Purge
  <2> QED
    BY <2>1 DEF Makes, Made
<1>2. CASE SetFinds(a)
  <2>1. stored \in Pins /\ stored # None
    BY <1>2 DEF SetFinds, Live
  <2>2. mine' = Mutated(a, stored) /\ UNCHANGED <<stored, expired>>
    BY <1>2 DEF SetFinds
  <2> QED
    BY <2>1, <2>2, MutatedMakes DEF Makes
<1>3. CASE a \in Setters /\ SetNew(a)
  <2>1. /\ mine' = [mine EXCEPT ![a] = [by |-> a, turns |-> 0]]
        /\ UNCHANGED <<stored, expired>> /\ pc'[a] = "setput" /\ a \notin Requests
    BY <1>3 DEF SetNew
  <2>2. \A b \in Actors : mine'[b] = mine[b] \/ mine'[b].by = a
    BY <2>1
  <2> QED
    BY <2>1, <2>2 DEF Makes, Made, Early
<1>4. CASE SetPut(a)
  <2>1. stored' = mine[a] /\ UNCHANGED <<mine, expired>>
    BY <1>4 DEF SetPut
  <2> QED
    BY <2>1 DEF Makes, Made
<1> QED
  BY <1>1, <1>2, <1>3, <1>4 DEF SetterStep

\* A step is a coroutine's move, or the clock's, expiry's or eviction's doing.
LEMMA StepMoves ==
    ASSUME TypeOK, Step
    PROVE  \/ \E a \in Actors, there \in PCs : Moved(a, there) /\ Makes(a)
           \/ /\ UNCHANGED <<pc, mine>> /\ stored' \in {stored, None}
              /\ expired' \subseteq expired \cup (IF stored = None THEN {} ELSE {stored.by})
<1>1. CASE \E q \in Requests : RequestStep(q) \/ Fail(q)
  BY <1>1, RequestMoves, RequestMakes DEF Actors
<1>2. CASE \/ \E d \in Deleters : Delete(d) \/ DeleteRes(d)
           \/ \E c \in Clearers : DeleteAll(c)
           \/ \E s \in Setters : SetterStep(s)
  BY <1>2, CallMoves, CallMakes DEF Actors
<1>3. CASE Tick \/ PinExpires \/ Evict
  BY <1>3 DEF Tick, PinExpires, Evict, Live
<1> QED
  BY <1>1, <1>2, <1>3 DEF Step

\* One coroutine at a time keeps the event loop; who has not made a pin yet is
\* the maker of none; who lost a reservation had one.
Alone ==
    /\ \A a, b \in Actors : a # b => pc[a] \in Suspended \/ pc[b] \in Suspended
    /\ \A a \in Actors : pc[a] \in Early => ~Made(a)
    /\ \A r \in robbed : pc[r] \in Past

LEMMA AloneNext ==
    ASSUME Backend = "memory", TypeOK, Alone, Next PROVE Alone'
<1> USE FirstTurnAssumption
<1>1. \A r \in robbed' : r \in robbed \/ pc'[r] \in Working
  BY DEF Next, History
<1>2. robbed' \subseteq Actors /\ robbed \subseteq Actors /\ Working \subseteq Past
  BY DEF Next, History, TypeOK, Actors, Working, Past, Busy
<1>3. CASE \E a \in Actors, there \in PCs : Moved(a, there) /\ Makes(a)
  <2>1. PICK a \in Actors, there \in PCs : Moved(a, there) /\ Makes(a)
    BY <1>3
  <2>2. /\ pc'[a] = there
        /\ \A b \in Actors \ {a} : pc'[b] = pc[b]
    BY <2>1 DEF Moved, TypeOK
  <2>3. \A b \in Actors \ {a} : pc[b] \in Suspended
    BY <2>1 DEF Moved, OnLoop, Alone
  <2>4. \A b, c \in Actors : b # c => pc'[b] \in Suspended \/ pc'[c] \in Suspended
    BY <2>2, <2>3
  <2>5. \A b \in Actors : pc'[b] \in Early => ~Made(b)'
    BY <2>1, <2>2 DEF Moved, Makes, Alone
  <2>6. \A r \in robbed' : pc'[r] \in Past
    BY <1>1, <1>2, <2>1, <2>2 DEF Moved, Alone
  <2> QED
    BY <2>4, <2>5, <2>6 DEF Alone
<1>4. CASE /\ UNCHANGED <<pc, mine>> /\ stored' \in {stored, None}
           /\ expired' \subseteq expired \cup (IF stored = None THEN {} ELSE {stored.by})
  <2>1. \A r \in Actors : Made(r)' => Made(r)
    BY <1>4 DEF Made
  <2> QED
    BY <1>1, <1>2, <1>4, <2>1 DEF Alone
<1> QED
  BY <1>3, <1>4, StepMoves DEF Next

\* Who failed, and who works under a reservation nobody took.
FailedOnes == {r \in Requests : pc[r] = "failed"}
Pending == {r \in Requests : r \notin robbed /\ pc[r] \in Busy}

Credit == IF Live(stored) \/ Pending # {} THEN 1 ELSE 0

Charges == Cardinality(robbed) + lost + Cardinality(FailedOnes)

CallsCharged ==
    /\ IsFiniteSet(calls) /\ IsFiniteSet(robbed) /\ IsFiniteSet(FailedOnes)
    /\ \A r \in Requests : pc[r] = "classify" => r \in calls
    /\ Cardinality(calls) <= Charges + Credit

\* A set that at most one element joins.
LEMMA OneJoins ==
    ASSUME NEW S, NEW T, NEW x, IsFiniteSet(S), S \subseteq T, T \subseteq S \cup {x}
    PROVE  /\ IsFiniteSet(T) /\ Cardinality(S) \in Nat /\ Cardinality(T) \in Nat
           /\ Cardinality(T) <= Cardinality(S) + 1 /\ Cardinality(S) <= Cardinality(T)
           /\ S # T => Cardinality(T) = Cardinality(S) + 1
<1>1. Cardinality(S) \in Nat
  BY FS_CardinalityType
<1>2. T = S \/ T = S \cup {x}
  OBVIOUS
<1>3. IsFiniteSet(S \cup {x}) /\ Cardinality(S \cup {x}) =
          IF x \in S THEN Cardinality(S) ELSE Cardinality(S) + 1
  BY FS_AddElement
<1>4. x \in S => S \cup {x} = S
  OBVIOUS
<1>5. CASE T = S
  BY <1>1, <1>5
<1>6. CASE T = S \cup {x}
  BY <1>1, <1>3, <1>4, <1>6
<1> QED
  BY <1>2, <1>5, <1>6

\* What one step does to the sets that are counted.
LEMMA SetsGrow ==
    ASSUME TypeOK, Next, CallsCharged
    PROVE  /\ robbed \subseteq robbed' /\ robbed' \subseteq robbed \cup {holder}
           /\ lost' \in {lost, lost + 1} /\ (Live(stored) /\ ~Live(stored)' => lost' = lost + 1)
           /\ \E a : FailedOnes \subseteq FailedOnes' /\ FailedOnes' \subseteq FailedOnes \cup {a}
           /\ \E a : calls \subseteq calls' /\ calls' \subseteq calls \cup {a}
           /\ \A r \in Requests : pc'[r] = "classify" => r \in calls'
<1>1. /\ robbed \subseteq robbed' /\ robbed' \subseteq robbed \cup {holder}
      /\ lost' \in {lost, lost + 1} /\ (Live(stored) /\ ~Live(stored)' => lost' = lost + 1)
      /\ calls' = calls \cup {r \in Requests : pc'[r] = "classify"}
  BY DEF Next, History, TypeOK
<1>2. PICK a : \/ a \in Actors /\ \E there \in PCs : Moved(a, there)
               \/ UNCHANGED pc
  BY StepMoves DEF Next
<1>3. \A b \in Actors : b # a => pc'[b] = pc[b]
  BY <1>2 DEF Moved, TypeOK
<1>4. pc[a] = "failed" /\ a \in Actors => pc'[a] = "failed"
  BY <1>2 DEF Moved
<1>5. FailedOnes \subseteq FailedOnes' /\ FailedOnes' \subseteq FailedOnes \cup {a}
  BY <1>3, <1>4 DEF FailedOnes, Actors
<1>6. calls' \subseteq calls \cup {a}
  BY <1>1, <1>3 DEF CallsCharged, Actors
<1> QED
  BY <1>1, <1>5, <1>6

\* A step that calls the classifier finds no credit and leaves some.
LEMMA CallCredit ==
    ASSUME Backend = "memory", TypeOK, HolderWorks, Alone, CallsCharged, Next, calls' # calls
    PROVE  Credit = 0 /\ Credit' = 1
<1>1. PICK r \in Requests : pc'[r] = "classify" /\ r \notin calls
  BY DEF Next, History
<1>2. r \in Actors /\ pc[r] # "classify"
  BY <1>1 DEF Actors, CallsCharged
<1>3. Moved(r, "classify")
  <2>1. PICK a \in Actors, there \in PCs : Moved(a, there)
    BY <1>1, <1>2, StepMoves DEF Next
  <2>2. a = r /\ there = "classify"
    BY <1>1, <1>2, <2>1 DEF Moved, TypeOK
  <2> QED
    BY <2>1, <2>2
<1>4. pc[r] = "reserve" /\ holder = None /\ ~Live(stored) /\ holder' = r
  BY <1>3 DEF Moved, CanReserve
<1>5. Pending = {}
  <2> SUFFICES ASSUME NEW q \in Pending PROVE FALSE
    OBVIOUS
  <2>1. q \in Actors /\ q \notin robbed /\ pc[q] \in Busy /\ q \in Requests
    BY DEF Pending, Actors
  <2>2. pc[q] \notin Working
    BY <1>4, <2>1, FirstTurnAssumption DEF HolderWorks, Actors
  <2>3. pc[q] = "put" /\ q # r
    BY <1>4, <2>1, <2>2 DEF Busy, Working
  <2> QED
    BY <1>2, <1>4, <2>1, <2>3 DEF Alone, Suspended
<1>6. r \in Pending'
  <2>1. r \notin robbed
    BY <1>4 DEF Alone, Past, Busy
  <2>2. r \notin robbed'
    BY <1>2, <1>4, <2>1, FirstTurnAssumption DEF Next, History, TypeOK
  <2> QED
    BY <1>1, <2>2 DEF Pending, Busy
<1> QED
  BY <1>4, <1>5, <1>6 DEF Credit

\* What a request puts is live, for it has made no pin before.
LEMMA PutIsLive ==
    ASSUME Alone, NEW p \in Requests, pc[p] = "put",
           stored' = [by |-> p, turns |-> 1], expired' = expired
    PROVE  Live(stored)'
<1>1. p \in Actors
  BY DEF Actors
<1>2. p \notin expired
  BY <1>1 DEF Alone, Early, Made
<1>3. stored' # None
  <2>1. [by |-> p, turns |-> 1] \in [by : Actors, turns : Nat]
    BY <1>1
  <2> QED
    BY <2>1, FirstTurnAssumption
<1> QED
  BY <1>2, <1>3 DEF Live

\* A step that takes the credit away charges it to something.
LEMMA CreditCharged ==
    ASSUME TypeOK, Alone, CallsCharged, Next, Credit = 1, Credit' = 0
    PROVE  lost' = lost + 1 \/ robbed' # robbed \/ FailedOnes' # FailedOnes
<1>1. ~Live(stored)' /\ Pending' = {}
  BY DEF Credit
<1>2. CASE Live(stored)
  BY <1>1, <1>2, SetsGrow
<1>3. CASE ~Live(stored)
  <2>1. PICK p \in Requests : p \notin robbed /\ pc[p] \in Busy
    BY <1>3 DEF Credit, Pending
  <2>2. CASE p \in robbed'
    BY <2>1, <2>2
  <2>3. CASE p \notin robbed'
    <3>1. pc'[p] \notin Busy /\ p \in Actors
      BY <1>1, <2>1, <2>3 DEF Pending, Actors
    <3>2. PICK there \in PCs : Moved(p, there)
      <4>1. PICK a \in Actors, there \in PCs : Moved(a, there)
        BY <2>1, <3>1, StepMoves DEF Next
      <4>2. a = p
        BY <2>1, <3>1, <4>1 DEF Moved, TypeOK
      <4> QED
        BY <4>1, <4>2
    <3>3. there = pc'[p]
      BY <3>1, <3>2 DEF Moved, TypeOK
    <3>4. CASE there = "failed"
      BY <2>1, <3>3, <3>4 DEF FailedOnes, Busy
    <3>5. CASE there # "failed"
      <4>1. pc[p] = "put" /\ stored' = [by |-> p, turns |-> 1] /\ expired' = expired
        BY <2>1, <3>1, <3>2, <3>3, <3>5 DEF Moved
      <4>2. Live(stored)'
        BY <4>1, PutIsLive
      <4> QED
        BY <1>1, <4>2
    <3> QED
      BY <3>4, <3>5
  <2> QED
    BY <2>2, <2>3
<1> QED
  BY <1>2, <1>3

\* A bound that grows with what it bounds.
LEMMA Balance ==
    ASSUME NEW c \in Nat, NEW r \in Nat, NEW l \in Nat, NEW f \in Nat, NEW k \in {0, 1},
           NEW c2 \in Nat, NEW r2 \in Nat, NEW l2 \in Nat, NEW f2 \in Nat, NEW k2 \in {0, 1},
           c <= r + l + f + k, r <= r2, l <= l2, f <= f2,
           \/ c2 <= c + 1 /\ k = 0 /\ k2 = 1
           \/ c2 = c /\ (k = 1 /\ k2 = 0 => l2 = l + 1 \/ r2 = r + 1 \/ f2 = f + 1)
    PROVE  c2 <= r2 + l2 + f2 + k2
OBVIOUS

LEMMA ChargedNext ==
    ASSUME Backend = "memory", TypeOK, HolderWorks, Alone, CallsCharged, Next
    PROVE  CallsCharged'
<1> DEFINE C == Cardinality(calls)
           R == Cardinality(robbed)
           F == Cardinality(FailedOnes)
<1>1. C \in Nat /\ C' \in Nat /\ C' <= C + 1 /\ (calls' = calls => C' = C)
      /\ IsFiniteSet(calls')
  BY SetsGrow, OneJoins DEF CallsCharged
<1>2. R \in Nat /\ R' \in Nat /\ R <= R' /\ (robbed' # robbed => R' = R + 1)
      /\ IsFiniteSet(robbed')
  BY SetsGrow, OneJoins DEF CallsCharged
<1>3. F \in Nat /\ F' \in Nat /\ F <= F' /\ (FailedOnes' # FailedOnes => F' = F + 1)
      /\ IsFiniteSet(FailedOnes')
  BY SetsGrow, OneJoins DEF CallsCharged
<1>4. lost \in Nat /\ lost' \in {lost, lost + 1}
  BY SetsGrow DEF TypeOK
<1>5. Credit \in {0, 1} /\ Credit' \in {0, 1}
  BY DEF Credit
<1>6. C <= R + lost + F + Credit
  BY DEF CallsCharged, Charges
<1>7. calls' # calls => Credit = 0 /\ Credit' = 1
  BY CallCredit
<1>8. Credit = 1 /\ Credit' = 0 => lost' = lost + 1 \/ R' = R + 1 \/ F' = F + 1
  BY <1>2, <1>3, CreditCharged
<1>9. C' <= R' + lost' + F' + Credit'
  <2>1. CASE calls' # calls
    BY <1>1, <1>2, <1>3, <1>4, <1>6, <1>7, <2>1, Balance
  <2>2. CASE calls' = calls
    BY <1>1, <1>2, <1>3, <1>4, <1>5, <1>6, <1>8, <2>2, Balance
  <2> QED
    BY <2>1, <2>2
<1>10. \A r \in Requests : pc'[r] = "classify" => r \in calls'
  BY SetsGrow
<1> QED
  BY <1>1, <1>2, <1>3, <1>9, <1>10 DEF CallsCharged, Charges

LEMMA ChargedInit == Init => Alone /\ CallsCharged
<1> SUFFICES ASSUME Init PROVE Alone /\ CallsCharged
  OBVIOUS
<1>1. \A a \in Actors : pc[a] = "idle"
  BY DEF Init
<1>2. Alone
  BY <1>1 DEF Init, Alone, Suspended, Made
<1>3. calls = {} /\ robbed = {} /\ FailedOnes = {} /\ lost = 0
  BY <1>1 DEF Init, FailedOnes, Actors
<1>4. \A r \in Requests : pc[r] # "classify"
  BY <1>1 DEF Actors
<1>5. Credit \in {0, 1}
  BY DEF Credit
<1> QED
  BY <1>2, <1>3, <1>4, <1>5, FS_EmptySet DEF CallsCharged, Charges

\* With the in-memory store, for any number of requests, any timing and any
\* calls from outside: a session is classified once, and once more for each
\* reservation that was taken away, each live pin that went and each request
\* that failed.
THEOREM CallsAreAccounted == ASSUME Backend = "memory" PROVE Spec => []CallsAccounted
<1> DEFINE Inv == HolderWorks /\ Alone /\ CallsCharged
<1>1. Init => Inv
  BY ChargedInit DEF Init, HolderWorks, Working, Actors
<1>2. TypeOK /\ Inv /\ [Next]_vars => Inv'
  <2> SUFFICES ASSUME TypeOK, Inv, [Next]_vars PROVE Inv'
    OBVIOUS
  <2>1. CASE Next
    BY <2>1, HolderNext, AloneNext, ChargedNext
  <2>2. CASE UNCHANGED vars
    BY <2>2 DEF vars, HolderWorks, Alone, Made, CallsCharged, FailedOnes, Charges, Credit,
                Pending, Live
  <2> QED
    BY <2>1, <2>2
<1>3. TypeOK /\ Inv => CallsAccounted
  <2> SUFFICES ASSUME TypeOK, Inv PROVE CallsAccounted
    OBVIOUS
  <2>1. /\ Cardinality(calls) \in Nat /\ Cardinality(robbed) \in Nat
        /\ Cardinality(FailedOnes) \in Nat /\ lost \in Nat /\ Credit \in {0, 1}
    BY FS_CardinalityType DEF CallsCharged, TypeOK, Credit
  <2>2. Cardinality(calls) <= Charges + Credit
    BY DEF CallsCharged
  <2> QED
    BY <2>1, <2>2 DEF CallsAccounted, Charges, FailedOnes
<1> QED
  BY <1>1, <1>2, <1>3, TypeCorrect, PTL DEF Spec

-----------------------------------------------------------------------------
(* One pin, with the in-memory store.  Until a reservation is taken away   *)
(* or a live pin goes, one request at a time is on its way to a pin, none  *)
(* once a request has made one, and that pin stays the only request's.     *)

OneMaker ==
    robbed = {} /\ lost = 0 =>
        /\ \A r, q \in Requests : pc[r] \in Busy /\ pc[q] \in Busy => r = q
        /\ \A r, q \in Requests : Made(r) /\ Made(q) => r = q
        /\ \A r \in Requests : Made(r) => Live(stored) /\ \A q \in Requests : pc[q] \notin Busy

\* As long as nothing was taken away or lost, a live pin stays live.
LEMMA NothingLost ==
    ASSUME TypeOK, Next, robbed' = {}, lost' = 0
    PROVE  robbed = {} /\ lost = 0 /\ (Live(stored) => Live(stored)')
BY DEF TypeOK, Next, History

\* Who sets out for a pin finds nobody on the way and no live pin.
LEMMA SetsOutAlone ==
    ASSUME Backend = "memory", TypeOK, HolderWorks, Alone, robbed = {},
           NEW a \in Requests, pc[a] = "reserve", CanReserve, NEW q \in Requests
    PROVE  pc[q] \notin Busy /\ ~Live(stored)
<1>1. a \in Actors /\ q \in Actors /\ q # None
  BY FirstTurnAssumption DEF Actors
<1>2. holder = None /\ ~Live(stored)
  BY DEF CanReserve
<1>3. pc[q] \notin Working
  BY <1>1, <1>2 DEF HolderWorks
<1>4. pc[q] # "put"
  BY <1>1 DEF Alone, Suspended
<1> QED
  BY <1>2, <1>3, <1>4 DEF Busy, Working

LEMMA OneMakerNext ==
    ASSUME Backend = "memory", TypeOK, HolderWorks, Alone, OneMaker, Next
    PROVE  OneMaker'
<1> SUFFICES ASSUME robbed' = {}, lost' = 0
    PROVE  /\ \A r, q \in Requests : pc'[r] \in Busy /\ pc'[q] \in Busy => r = q
           /\ \A r, q \in Requests : Made(r)' /\ Made(q)' => r = q
           /\ \A r \in Requests : Made(r)' => Live(stored)' /\ \A q \in Requests : pc'[q] \notin Busy
  BY DEF OneMaker
<1>1. robbed = {} /\ lost = 0 /\ (Live(stored) => Live(stored)')
  BY NothingLost
<1>2. /\ \A r, q \in Requests : pc[r] \in Busy /\ pc[q] \in Busy => r = q
      /\ \A r, q \in Requests : Made(r) /\ Made(q) => r = q
      /\ \A r \in Requests : Made(r) => Live(stored) /\ \A q \in Requests : pc[q] \notin Busy
  BY <1>1 DEF OneMaker
<1>3. Requests \subseteq Actors
  BY DEF Actors
<1>4. CASE \E a \in Actors, there \in PCs : Moved(a, there) /\ Makes(a)
  <2>1. PICK a \in Actors, there \in PCs : Moved(a, there) /\ Makes(a)
    BY <1>4
  <2>2. pc'[a] = there /\ \A b \in Actors \ {a} : pc'[b] = pc[b]
    BY <2>1 DEF Moved, TypeOK
  <2>3. ASSUME NEW q \in Requests, pc'[q] \in Busy, pc[q] \notin Busy
        PROVE  q = a /\ ~Live(stored) /\ \A p \in Requests : pc[p] \notin Busy
    <3>1. q = a
      BY <1>3, <2>2, <2>3
    <3>2. pc[a] = "reserve" /\ CanReserve
      BY <2>1, <2>2, <2>3, <3>1 DEF Moved
    <3> QED
      BY <1>1, <2>3, <3>1, <3>2, SetsOutAlone
  <2>4. ASSUME NEW r \in Requests, Made(r)', ~Made(r)
        PROVE  r = a /\ pc[a] = "put" /\ pc'[a] \notin Busy
               /\ Live(stored)' /\ \A q \in Requests : ~Made(q)
    <3>1. r = a /\ pc'[a] \notin Early /\ pc[a] = "put" /\ pc'[a] = "forward"
      BY <1>3, <2>1, <2>4 DEF Makes, PutsPin
    <3>2. pc[a] \in Busy /\ pc'[a] \notin Busy
      BY <3>1 DEF Busy, Early
    <3>3. \A q \in Requests : ~Made(q)
      BY <1>2, <2>4, <3>1, <3>2
    <3>4. stored' = [by |-> a, turns |-> 1] /\ expired' = expired
      BY <2>1, <2>2, <3>1, <3>2 DEF Moved
    <3>5. Live(stored)'
      BY <2>4, <3>1, <3>4, PutIsLive
    <3> QED
      BY <3>1, <3>2, <3>3, <3>5
  <2>5. \A r, q \in Requests : pc'[r] \in Busy /\ pc'[q] \in Busy => r = q
    BY <1>2, <2>3
  <2>6. \A r, q \in Requests : Made(r)' /\ Made(q)' => r = q
    BY <1>2, <2>4
  <2>7. ASSUME NEW r \in Requests, Made(r)' PROVE Live(stored)'
    BY <1>1, <1>2, <2>4, <2>7
  <2>8. ASSUME NEW r \in Requests, Made(r)', NEW q \in Requests PROVE pc'[q] \notin Busy
    <3>1. CASE Made(r)
      BY <1>2, <2>3, <3>1
    <3>2. CASE ~Made(r)
      <4>1. r = a /\ pc[a] = "put" /\ pc'[a] \notin Busy
        BY <2>4, <2>8, <3>2
      <4>2. q # a => pc[q] \notin Busy
        BY <1>2, <4>1 DEF Busy
      <4> QED
        BY <1>3, <2>2, <4>1, <4>2
    <3> QED
      BY <3>1, <3>2
  <2> QED
    BY <2>5, <2>6, <2>7, <2>8
<1>5. CASE /\ UNCHANGED <<pc, mine>> /\ stored' \in {stored, None}
           /\ expired' \subseteq expired \cup (IF stored = None THEN {} ELSE {stored.by})
  <2>1. \A r \in Requests : Made(r)' => Made(r)
    BY <1>3, <1>5 DEF Made
  <2> QED
    BY <1>1, <1>2, <1>5, <2>1
<1> QED
  BY <1>4, <1>5, StepMoves DEF Next

\* With the in-memory store, whatever is deleted, set, expired, evicted or
\* failed: until a reservation was taken away or a live pin was lost, no
\* request's pin takes the place of the live pin of another.
THEOREM PinIsKept == ASSUME Backend = "memory" PROVE Spec => PinKept
<1> DEFINE Inv == HolderWorks /\ Alone /\ OneMaker
<1>1. Init => Inv
  <2> SUFFICES ASSUME Init PROVE Inv
    OBVIOUS
  <2>1. HolderWorks /\ Alone
    BY ChargedInit DEF Init, HolderWorks, Working, Actors
  <2>2. \A r \in Requests : ~Made(r) /\ pc[r] = "idle"
    BY DEF Init, Made, Actors
  <2> QED
    BY <2>1, <2>2 DEF OneMaker, Busy
<1>2. TypeOK /\ Inv /\ [Next]_vars => Inv'
  <2> SUFFICES ASSUME TypeOK, Inv, [Next]_vars PROVE Inv'
    OBVIOUS
  <2>1. CASE Next
    BY <2>1, HolderNext, AloneNext, OneMakerNext
  <2>2. CASE UNCHANGED vars
    BY <2>2 DEF vars, HolderWorks, Alone, Made, OneMaker, Live
  <2> QED
    BY <2>1, <2>2
<1>3. TypeOK /\ Inv /\ [Next]_vars =>
        [Live(stored) /\ Live(stored)' /\ stored'.by # stored.by
           /\ {stored.by, stored'.by} \subseteq Requests
         => robbed # {} \/ lost > 0]_vars
  <2> SUFFICES ASSUME TypeOK, Inv, Next, Live(stored), Live(stored)', robbed = {}, ~(lost > 0),
                      NEW r \in Requests, stored.by = r,
                      NEW q \in Requests, stored'.by = q, q # r
               PROVE  FALSE
    OBVIOUS
  <2>1. lost = 0
    BY DEF TypeOK
  <2>2. Made(r) /\ Made(q)'
    BY DEF Made, Live
  <2>3. ~Made(q) /\ pc[q] \notin Busy
    BY <2>1, <2>2 DEF OneMaker
  <2> HIDE DEF Inv
  <2>4. CASE \E a \in Actors, there \in PCs : Moved(a, there) /\ Makes(a)
    <3>1. pc[q] = "put"
      BY <2>2, <2>3, <2>4 DEF Makes, Actors, PutsPin
    <3> QED
      BY <2>3, <3>1 DEF Busy
  <2>5. CASE stored' \in {stored, None}
    BY <2>5 DEF Live
  <2> QED
    BY <2>4, <2>5, StepMoves DEF Next
<1> QED
  BY <1>1, <1>2, <1>3, TypeCorrect, PTL DEF Spec, PinKept

-----------------------------------------------------------------------------
(***************************************************************************)
(* When the documented promise of the first-turn protocol is kept: in      *)
(* memory, with a wait and a reservation longer than the classifier may    *)
(* take, and nothing that fails, expires or is called from outside, any    *)
(* number of requests call the classifier once at most, none falls back,   *)
(* and the protocol implements OnePin.                                     *)
(***************************************************************************)

Patient ==
    /\ Backend = "memory" /\ WorkTicks < WaitTicks /\ WorkTicks < TtlTicks
    /\ Deleters = {} /\ Clearers = {} /\ Setters = {}
    /\ ~MayFail /\ ~MayExpire /\ ~MayEvict
    /\ IsFiniteSet(Requests) /\ Cardinality(Requests) <= MaxTurns

\* Turns of the session have been counted for these.
Counted == {"save", "forward", "done"}
CountedOnes == {r \in Requests : pc[r] \in Counted}

\* Nobody is where only a timeout, a purge or a drop leads.
OnTheWay ==
    /\ \A r \in Requests : pc[r] \in {"idle", "reserve", "sleep"} \cup Busy \cup Counted
    /\ expired = {}

\* One winner, and the reservation is the winner's until it is released in time.
OneWinner ==
    /\ \A r, q \in Requests : pc[r] \in Busy /\ pc[q] \in Busy => r = q
    /\ \A r \in Requests : pc[r] \in Working => holder = r
    /\ holder # None => pc[holder] \in Working
    /\ \A r \in Requests : pc[r] = "classify" => left[r] <= WorkTicks /\ left[r] < ttl

\* Who waits has someone to wait for, and the time.
Awaited ==
    stored = None =>
        \A r \in Requests : pc[r] = "sleep" =>
            \E q \in Requests : pc[q] \in Busy /\ (pc[q] = "classify" => left[q] < left[r])

\* There is one pin: before it there is a winner at most, after it none.
PinShared ==
    /\ \A r \in Requests : mine[r] # None <=> pc[r] \in Counted
    /\ \A r \in Requests : mine[r] # None => stored # None /\ mine[r].by = stored.by
    /\ stored # None => \A r \in Requests : pc[r] \notin Busy

\* The classifier was called by the winner only.
CalledByWinner ==
    \A r \in calls : pc[r] \in Busy \/ (stored # None /\ stored.by = r)

TurnsCounted ==
    /\ stored # None => stored.turns <= Cardinality(CountedOnes)
    /\ \A r \in Requests : mine[r] # None => mine[r].turns <= Cardinality(CountedOnes)

PInv == OnTheWay /\ OneWinner /\ Awaited /\ PinShared /\ CalledByWinner /\ TurnsCounted

\* Nobody but the requests takes part.
LEMMA Participants == ASSUME Patient PROVE Actors = Requests
BY DEF Patient, Actors

LEMMA StoredLive == ASSUME PInv PROVE Live(stored) <=> stored # None
BY DEF PInv, OnTheWay, Live

\* A request that has not been counted leaves room for a turn.
LEMMA RoomForTurn ==
    ASSUME Patient, NEW r \in Requests, r \notin CountedOnes
    PROVE  /\ Cardinality(CountedOnes) \in Nat
           /\ MaxTurns \in Nat => Cardinality(CountedOnes) < MaxTurns
<1>1. IsFiniteSet(Requests) /\ IsFiniteSet(Requests \ {r})
      /\ Cardinality(Requests \ {r}) = Cardinality(Requests) - 1
  BY FS_RemoveElement DEF Patient
<1>2. CountedOnes \subseteq Requests \ {r}
  BY DEF CountedOnes
<1>3. Cardinality(CountedOnes) <= Cardinality(Requests \ {r}) /\ IsFiniteSet(CountedOnes)
  BY <1>1, <1>2, FS_Subset
<1>4. Cardinality(CountedOnes) \in Nat /\ Cardinality(Requests) \in Nat
  BY <1>1, <1>3, FS_CardinalityType
<1> QED
  BY <1>1, <1>3, <1>4 DEF Patient

\* What a request may do in such a session.
LEMMA PatientStep ==
    ASSUME Patient, TypeOK, Alone, PInv, NEW r \in Requests, RequestStep(r) \/ Fail(r)
    PROVE  \/ LookupMiss(r) /\ stored = None
           \/ LookupHit(r) \/ LookupReclassify(r) \/ Reserve(r) \/ ReserveFails(r)
           \/ PollFindsPin(r)
           \/ PollMisses(r) /\ stored = None /\ left[r] > 0
           \/ ClassifyDone(r) \/ Release(r) \/ PutNewPin(r) \/ SaveTurn(r)
           \/ FinishWithPut(r) \/ FinishWithoutPut(r)
<1> USE FirstTurnAssumption, Participants
<1>1. pc[r] \in {"idle", "reserve", "sleep"} \cup Busy \cup Counted
  BY DEF PInv, OnTheWay
<1>2. pc[r] \notin {"purge", "pollpurge", "setpurge", "drop", "dropres", "giveup"}
  BY <1>1 DEF Busy, Counted
<1>3. ~Fail(r)
  BY DEF Fail, Patient
<1>4. ~Purge(r) /\ ~Drop(r) /\ ~DropRes(r) /\ ~GiveUp(r)
  BY <1>2 DEF Purge, Drop, DropRes, GiveUp
<1>5. ~LookupCapped(r)
  <2> SUFFICES ASSUME LookupCapped(r) PROVE FALSE
    OBVIOUS
  <2>1. pc[r] = "idle" /\ stored # None /\ stored.turns >= MaxTurns
    BY StoredLive DEF LookupCapped
  <2>2. r \notin CountedOnes
    BY <2>1 DEF CountedOnes, Counted
  <2>3. stored.turns <= Cardinality(CountedOnes) /\ stored.turns \in Nat
    BY <2>1 DEF PInv, TurnsCounted, TypeOK, Pins
  <2> QED
    BY <2>1, <2>2, <2>3, RoomForTurn
<1>6. LookupMiss(r) => stored = None
  BY StoredLive DEF LookupMiss, GetMisses
<1>7. PollMisses(r) => stored = None /\ left[r] > 0
  <2> SUFFICES ASSUME PollMisses(r) PROVE stored = None /\ left[r] > 0
    OBVIOUS
  <2>1. pc[r] = "sleep" /\ OnLoop(r) /\ stored = None
    BY StoredLive DEF PollMisses, GetMisses
  <2>2. PICK q \in Requests : pc[q] \in Busy /\ (pc[q] = "classify" => left[q] < left[r])
    BY <2>1 DEF PInv, Awaited
  <2>3. pc[q] = "classify"
    BY <2>1, <2>2 DEF OnLoop, Patient, Busy, Suspended
  <2> QED
    BY <2>1, <2>2, <2>3 DEF TypeOK
<1> QED
  BY <1>3, <1>4, <1>5, <1>6, <1>7 DEF RequestStep

-----------------------------------------------------------------------------
\* What a step leaves alone if it neither counts a turn nor stores a pin.
LEMMA SamePins ==
    ASSUME PInv, UNCHANGED <<stored, mine, expired>>, CountedOnes' = CountedOnes,
           \A r \in Requests : pc'[r] \in Counted <=> pc[r] \in Counted,
           \A r \in Requests : pc'[r] \in Busy => pc[r] \in Busy \/ stored = None
    PROVE  PinShared' /\ TurnsCounted'
BY DEF PInv, PinShared, TurnsCounted

\* The next calls are the former ones and whoever classifies.
LEMMA CallsGrow ==
    ASSUME PInv, History, stored' = stored,
           \A r \in Requests : pc[r] \in Busy => pc'[r] \in Busy
    PROVE  TypeOK => CalledByWinner'
BY DEF PInv, CalledByWinner, History, Busy, TypeOK

\* Nobody's lookup or poll without a pin, and nobody's wait, changes the winner.
LEMMA WaitKeeps ==
    ASSUME Patient, TypeOK, Alone, PInv, History, NEW r \in Requests,
           \/ LookupMiss(r) /\ stored = None
           \/ LookupReclassify(r) \/ ReserveFails(r)
           \/ PollMisses(r) /\ stored = None /\ left[r] > 0
    PROVE  PInv'
<1> USE FirstTurnAssumption, Participants
<1>1. /\ pc[r] \in {"idle", "reserve", "sleep"} /\ pc'[r] \in {"reserve", "sleep"}
      /\ \A q \in Requests \ {r} : pc'[q] = pc[q]
      /\ UNCHANGED <<stored, mine, expired, holder, ttl>>
  BY DEF LookupMiss, GetMisses, LookupReclassify, ReserveFails, PollMisses, AfterPoll, Goto,
         TypeOK, Patient
<1>2. \A q \in Requests : pc'[q] \in Busy \cup Counted <=> pc[q] \in Busy \cup Counted
  BY <1>1 DEF Busy, Counted
<1>3. \A q \in Requests : pc[q] \in Busy \cup Counted \/ pc'[q] \in Busy \cup Counted
                            => pc'[q] = pc[q] /\ left'[q] = left[q]
  BY <1>1, <1>2 DEF LookupMiss, LookupReclassify, ReserveFails, PollMisses, TypeOK, Busy, Counted
<1>4. OnTheWay'
  BY <1>1 DEF PInv, OnTheWay
<1>5. OneWinner'
  BY <1>1, <1>3 DEF PInv, OneWinner, Busy, Working, TypeOK
<1>6. PinShared' /\ TurnsCounted'
  BY <1>1, <1>3, SamePins DEF CountedOnes, Busy, Counted
<1>7. CalledByWinner'
  BY <1>1, <1>3, CallsGrow
<1>8. Awaited'
  <2> SUFFICES ASSUME stored' = None, NEW w \in Requests, pc'[w] = "sleep"
               PROVE  \E q \in Requests :
                         pc'[q] \in Busy /\ (pc'[q] = "classify" => left'[q] < left'[w])
    BY DEF Awaited
  <2>1. CASE pc[w] = "sleep" /\ left'[w] = left[w]
    BY <1>1, <1>3, <2>1 DEF PInv, Awaited
  <2>2. CASE ReserveFails(r) /\ w = r
    <3>1. pc[r] = "reserve" /\ holder # None /\ left'[r] = WaitTicks
      BY <1>1, <2>2, StoredLive DEF ReserveFails, CanReserve, TypeOK
    <3>2. holder \in Requests /\ pc[holder] \in Working /\ holder # r
      BY <3>1 DEF TypeOK, PInv, OneWinner, Working
    <3>3. pc[holder] \in Suspended
      BY <3>1, <3>2 DEF Alone, Suspended
    <3>4. pc[holder] = "classify" /\ left[holder] <= WorkTicks
      BY <3>2, <3>3 DEF Working, Suspended, PInv, OneWinner
    <3>5. pc'[holder] = "classify" /\ left'[holder] < left'[r]
      BY <1>3, <3>1, <3>2, <3>4 DEF Patient, Busy, TypeOK
    <3> QED
      BY <2>2, <3>2, <3>5 DEF Busy
  <2>3. (ReserveFails(r) /\ w = r) \/ (pc[w] = "sleep" /\ left'[w] = left[w])
    <3>1. CASE w # r
      BY <1>1, <3>1 DEF LookupMiss, LookupReclassify, ReserveFails, PollMisses, TypeOK
    <3>2. CASE LookupMiss(r) \/ LookupReclassify(r)
      <4>1. pc'[r] = "reserve"
        BY <3>2 DEF LookupMiss, GetMisses, LookupReclassify, Goto, TypeOK, Patient
      <4> QED
        BY <3>1, <4>1
    <3>3. CASE PollMisses(r)
      BY <3>1, <3>3 DEF PollMisses
    <3>4. CASE ReserveFails(r)
      BY <3>1, <3>4
    <3> QED
      BY <3>2, <3>3, <3>4
  <2> QED
    BY <2>1, <2>2, <2>3
<1> QED
  BY <1>4, <1>5, <1>6, <1>7, <1>8 DEF PInv

\* Nobody is busy when the reservation is given out.
LEMMA ReserveKeeps ==
    ASSUME Patient, TypeOK, Alone, PInv, History, NEW r \in Requests, Reserve(r)
    PROVE  PInv'
<1> USE FirstTurnAssumption, Participants
<1>1. /\ pc[r] = "reserve" /\ pc'[r] \in Working /\ holder = None /\ holder' = r
      /\ \A q \in Requests \ {r} : pc'[q] = pc[q] /\ left'[q] = left[q]
      /\ left'[r] = WorkTicks /\ ttl' = TtlTicks
      /\ UNCHANGED <<stored, mine, expired>> /\ stored = None
  BY StoredLive DEF Reserve, CanReserve, Goto, TypeOK, Working, Patient
<1>2. \A q \in Requests : pc[q] \notin Busy
  <2> SUFFICES ASSUME NEW q \in Requests, pc[q] \in Busy PROVE FALSE
    OBVIOUS
  <2>1. pc[q] = "put" /\ q # r
    BY <1>1 DEF PInv, OneWinner, Busy, Working
  <2> QED
    BY <1>1, <2>1 DEF Alone, Suspended
<1>3. OnTheWay'
  BY <1>1 DEF PInv, OnTheWay, Busy, Working
<1>4. OneWinner'
  BY <1>1, <1>2 DEF OneWinner, Busy, Working, Patient
<1>5. PinShared' /\ TurnsCounted'
  BY <1>1, SamePins DEF CountedOnes, Busy, Counted, Working
<1>6. CalledByWinner'
  BY <1>1, <1>2, CallsGrow
<1>7. Awaited'
  BY <1>1, <1>2 DEF PInv, Awaited, Working
<1> QED
  BY <1>3, <1>4, <1>5, <1>6, <1>7 DEF PInv

\* The winner goes on: to the release, and with it to the put.
LEMMA WinnerKeeps ==
    ASSUME Patient, TypeOK, Alone, PInv, History, NEW r \in Requests,
           ClassifyDone(r) \/ Release(r)
    PROVE  PInv'
<1> USE FirstTurnAssumption, Participants
<1>1. /\ pc[r] \in Working /\ holder = r
      /\ \/ pc'[r] = "release" /\ UNCHANGED <<holder, ttl>>
         \/ pc'[r] = "put" /\ holder' = None
      /\ \A q \in Requests \ {r} : pc'[q] = pc[q]
      /\ UNCHANGED <<stored, mine, expired, left>>
  BY DEF ClassifyDone, Release, DropReservation, Goto, TypeOK, Working, PInv, OneWinner
<1>2. \A q \in Requests : pc'[q] \in Busy <=> pc[q] \in Busy
  BY <1>1 DEF Busy, Working
<1>3. \A q \in Requests \ {r} : pc[q] \notin Busy
  BY <1>1 DEF PInv, OneWinner, Busy, Working
<1>4. OnTheWay'
  BY <1>1 DEF PInv, OnTheWay, Busy
<1>5. OneWinner'
  BY <1>1, <1>2, <1>3 DEF PInv, OneWinner, Busy, Working
<1>6. PinShared' /\ TurnsCounted'
  BY <1>1, <1>2, SamePins DEF CountedOnes, Counted, Working
<1>7. CalledByWinner'
  BY <1>1, <1>2, CallsGrow
<1>8. Awaited'
  BY <1>1, <1>2, <1>3 DEF PInv, Awaited, Busy
<1> QED
  BY <1>4, <1>5, <1>6, <1>7, <1>8 DEF PInv

\* Who classifies has time left, so has the reservation, and waiters have more.
LEMMA TickKeeps ==
    ASSUME Patient, TypeOK, Alone, PInv, History, Tick
    PROVE  PInv'
<1> USE FirstTurnAssumption, Participants
<1>1. /\ UNCHANGED <<pc, stored, mine, expired>>
      /\ \A q \in Requests : pc[q] \in Busy => pc[q] = "classify" /\ left[q] > 0
      /\ \A q \in Requests : left'[q] = IF left[q] > 0 THEN left[q] - 1 ELSE 0
  BY DEF Tick, Patient, Busy, Suspended, Working
<1>2. left \in [Requests -> Nat] /\ ttl \in Nat /\ (holder = None <=> ttl = 0)
  BY DEF TypeOK
<1>3. holder' = holder
  <2>1. CASE holder = None
    BY <1>2, <2>1 DEF Tick
  <2>2. CASE holder # None
    <3>1. pc[holder] = "classify" /\ left[holder] > 0 /\ left[holder] < ttl /\ holder \in Requests
      BY <1>1, <2>2 DEF PInv, OneWinner, Working, Busy, TypeOK
    <3> QED
      BY <1>2, <3>1 DEF Tick
  <2> QED
    BY <2>1, <2>2
<1>4. OnTheWay'
  BY <1>1 DEF PInv, OnTheWay
<1>5. OneWinner'
  <2>1. \A q \in Requests : pc[q] = "classify" => left'[q] <= WorkTicks /\ left'[q] < ttl'
    BY <1>1, <1>2 DEF PInv, OneWinner, Tick, Busy
  <2> QED
    BY <1>1, <1>3, <2>1 DEF PInv, OneWinner
<1>6. PinShared' /\ TurnsCounted'
  BY <1>1, SamePins DEF CountedOnes
<1>7. CalledByWinner'
  BY <1>1, CallsGrow
<1>8. Awaited'
  BY <1>1, <1>2 DEF PInv, Awaited
<1> QED
  BY <1>4, <1>5, <1>6, <1>7, <1>8 DEF PInv

\* A turn is counted on the shared pin by a request that finds it.
LEMMA CountKeeps ==
    ASSUME Patient, TypeOK, Alone, PInv, History, NEW r \in Requests,
           LookupHit(r) \/ PollFindsPin(r)
    PROVE  PInv' /\ stored' = stored /\ \A q \in Requests \ {r} : pc'[q] = pc[q]
<1> USE FirstTurnAssumption, Participants
<1> DEFINE p == [stored EXCEPT !.turns = @ + 1]
<1>1. /\ pc[r] \in {"idle", "sleep"} /\ pc'[r] = "save" /\ stored # None /\ stored \in Pins
      /\ \A q \in Requests \ {r} : pc'[q] = pc[q]
      /\ mine' = Mutated(r, p)
      /\ UNCHANGED <<stored, expired, left, holder, ttl>>
  BY StoredLive DEF LookupHit, PollFindsPin, Goto, TypeOK
<1>2. p \in Pins /\ p # None /\ p.by = stored.by /\ p.turns = stored.turns + 1
  BY <1>1 DEF Pins
<1>3. \A q \in Requests : mine'[q] = IF q = r \/ mine[q] # None THEN p ELSE None
  <2> HIDE DEF p
  <2> QED
    BY <1>1, <1>2 DEF Mutated, Patient, PInv, PinShared
<1>4. \A q \in Requests : pc[q] \notin Busy
  BY <1>1 DEF PInv, PinShared
<1>5. OnTheWay'
  BY <1>1 DEF PInv, OnTheWay, Counted
<1>6. OneWinner'
  <2>1. holder = None
    BY <1>4 DEF PInv, OneWinner, Busy, Working, TypeOK
  <2>2. \A q \in Requests : pc'[q] \notin Busy
    BY <1>1, <1>4 DEF Busy
  <2> QED
    BY <1>1, <2>1, <2>2 DEF OneWinner, Busy, Working
<1>7. PinShared'
  BY <1>1, <1>2, <1>3, <1>4 DEF PInv, PinShared, Busy, Counted
<1>8. CalledByWinner'
  BY <1>1, <1>4, CallsGrow
<1>9. Awaited'
  BY <1>1 DEF Awaited
<1>10. TurnsCounted'
  <2>1. r \notin CountedOnes /\ CountedOnes' = CountedOnes \cup {r}
    BY <1>1 DEF CountedOnes, Counted
  <2>2. IsFiniteSet(CountedOnes)
    BY FS_Subset DEF CountedOnes, Patient
  <2>3. Cardinality(CountedOnes) \in Nat
        /\ Cardinality(CountedOnes') = Cardinality(CountedOnes) + 1
    BY <2>1, <2>2, FS_AddElement, FS_CardinalityType
  <2>4. stored.turns \in Nat /\ stored.turns <= Cardinality(CountedOnes)
    BY <1>1 DEF Pins, PInv, TurnsCounted
  <2>5. p.turns <= Cardinality(CountedOnes') /\ stored'.turns <= Cardinality(CountedOnes')
    BY <1>1, <1>2, <2>3, <2>4
  <2> HIDE DEF p
  <2> QED
    BY <1>3, <2>5 DEF TurnsCounted
<1> HIDE DEF p
<1> QED
  BY <1>1, <1>5, <1>6, <1>7, <1>8, <1>9, <1>10 DEF PInv

\* The winner stores the pin: the first and only one.
LEMMA NewPinKeeps ==
    ASSUME Patient, TypeOK, Alone, PInv, History, NEW r \in Requests, PutNewPin(r)
    PROVE  PInv' /\ stored = None /\ pc[r] = "put"
<1> USE FirstTurnAssumption, Participants
<1> DEFINE p == [by |-> r, turns |-> 1]
<1>1. /\ pc[r] = "put" /\ pc'[r] = "forward" /\ stored' = p
      /\ \A q \in Requests \ {r} : pc'[q] = pc[q] /\ mine'[q] = mine[q]
      /\ mine'[r] = p
      /\ UNCHANGED <<expired, left, holder, ttl>>
  BY DEF PutNewPin, Goto, TypeOK
<1>2. p # None /\ p.by = r /\ p.turns = 1
  <2>1. p \in [by : Actors, turns : Nat]
    OBVIOUS
  <2> QED
    BY <2>1
<1>3. stored = None /\ \A q \in Requests : mine[q] = None /\ pc[q] \notin Counted
  BY <1>1 DEF PInv, PinShared, Busy
<1>4. \A q \in Requests \ {r} : pc[q] \notin Busy
  BY <1>1 DEF PInv, OneWinner, Busy
<1> HIDE DEF p
<1>5. OnTheWay'
  BY <1>1 DEF PInv, OnTheWay, Counted
<1>6. OneWinner'
  <2>1. \A q \in Requests : pc'[q] \notin Busy
    BY <1>1, <1>4 DEF Busy
  <2>2. holder = None
    BY <1>1, <1>4 DEF PInv, OneWinner, Busy, Working, TypeOK
  <2> QED
    BY <1>1, <2>1, <2>2 DEF OneWinner, Busy, Working
<1>7. PinShared'
  BY <1>1, <1>2, <1>3, <1>4 DEF PinShared, Busy, Counted
<1>8. CalledByWinner'
  BY <1>1, <1>2, <1>3, <1>4 DEF PInv, CalledByWinner, History, Busy, TypeOK
<1>9. Awaited'
  BY <1>1, <1>2 DEF Awaited
<1>10. TurnsCounted'
  <2>1. CountedOnes' = {r}
    BY <1>1, <1>3 DEF CountedOnes, Counted
  <2>2. Cardinality(CountedOnes') = 1
    BY <2>1, FS_Singleton
  <2> QED
    BY <1>1, <1>2, <1>3, <2>2 DEF TurnsCounted
<1> QED
  BY <1>1, <1>3, <1>5, <1>6, <1>7, <1>8, <1>9, <1>10 DEF PInv

\* What is put back is the pin that is there.
LEMMA PutBackKeeps ==
    ASSUME Patient, TypeOK, Alone, PInv, History, NEW r \in Requests,
           SaveTurn(r) \/ FinishWithPut(r) \/ FinishWithoutPut(r)
    PROVE  PInv' /\ stored # None /\ stored' # None /\ stored'.by = stored.by
           /\ mine' = mine /\ mine[r] # None
<1> USE FirstTurnAssumption, Participants
<1>1. /\ pc[r] \in Counted /\ pc'[r] \in Counted
      /\ \A q \in Requests \ {r} : pc'[q] = pc[q]
      /\ stored' \in {stored, mine[r]}
      /\ UNCHANGED <<mine, expired, left, holder, ttl>>
  BY DEF SaveTurn, FinishWithPut, FinishWithoutPut, Goto, TypeOK, Counted
<1>2. mine[r] # None /\ stored # None /\ mine[r].by = stored.by
  BY <1>1 DEF PInv, PinShared
<1>3. stored' # None /\ stored'.by = stored.by
  BY <1>1, <1>2
<1>4. \A q \in Requests : pc[q] \notin Busy /\ pc'[q] \notin Busy
  BY <1>1, <1>2 DEF PInv, PinShared, Busy, Counted
<1>5. CountedOnes' = CountedOnes /\ \A q \in Requests : pc'[q] \in Counted <=> pc[q] \in Counted
  BY <1>1 DEF CountedOnes
<1>6. OnTheWay'
  BY <1>1 DEF PInv, OnTheWay
<1>7. OneWinner'
  <2>1. holder = None
    BY <1>4 DEF PInv, OneWinner, Busy, Working, TypeOK
  <2> QED
    BY <1>1, <1>4, <2>1 DEF OneWinner, Busy, Working
<1>8. PinShared'
  BY <1>1, <1>2, <1>3, <1>4, <1>5 DEF PInv, PinShared
<1>9. CalledByWinner'
  BY <1>2, <1>3, <1>4 DEF PInv, CalledByWinner, History, Busy, TypeOK
<1>10. Awaited'
  BY <1>3 DEF Awaited
<1>11. TurnsCounted'
  BY <1>1, <1>2, <1>5 DEF PInv, TurnsCounted
<1> QED
  BY <1>1, <1>2, <1>3, <1>6, <1>7, <1>8, <1>9, <1>10, <1>11 DEF PInv

-----------------------------------------------------------------------------
\* The steps there are, each with the lemma it falls under.
LEMMA StepCases ==
    ASSUME Patient, TypeOK, Alone, PInv, Next
    PROVE  \/ \E r \in Requests :
                \/ LookupMiss(r) /\ stored = None
                \/ LookupReclassify(r) \/ ReserveFails(r)
                \/ PollMisses(r) /\ stored = None /\ left[r] > 0
           \/ \E r \in Requests : Reserve(r)
           \/ \E r \in Requests : ClassifyDone(r) \/ Release(r)
           \/ \E r \in Requests : LookupHit(r) \/ PollFindsPin(r)
           \/ \E r \in Requests : PutNewPin(r)
           \/ \E r \in Requests : SaveTurn(r) \/ FinishWithPut(r) \/ FinishWithoutPut(r)
           \/ Tick
<1>1. \/ \E r \in Requests : RequestStep(r) \/ Fail(r)
      \/ Tick
  BY DEF Next, Step, Patient, PinExpires, Evict
<1>2. CASE \E r \in Requests : RequestStep(r) \/ Fail(r)
  <2>1. PICK r \in Requests : RequestStep(r) \/ Fail(r)
    BY <1>2
  <2> QED
    BY <2>1, PatientStep
<1> QED
  BY <1>1, <1>2

LEMMA PatientInit == ASSUME Patient PROVE Init => PInv
<1> SUFFICES ASSUME Init PROVE PInv
  OBVIOUS
<1>1. /\ \A r \in Requests : pc[r] = "idle" /\ mine[r] = None
      /\ stored = None /\ holder = None /\ expired = {} /\ calls = {}
  BY Participants DEF Init
<1> QED
  BY <1>1 DEF PInv, OnTheWay, OneWinner, Awaited, PinShared, CalledByWinner, TurnsCounted,
              Busy, Working, Counted

LEMMA PatientNext ==
    ASSUME Patient, TypeOK, Alone, PInv, [Next]_vars
    PROVE  PInv'
<1>1. CASE Next
  <2>1. History
    BY <1>1 DEF Next
  <2> QED
    BY <1>1, <2>1, StepCases, WaitKeeps, ReserveKeeps, WinnerKeeps, CountKeeps, NewPinKeeps,
       PutBackKeeps, TickKeeps
<1>2. CASE UNCHANGED vars
  BY <1>2 DEF vars, PInv, OnTheWay, OneWinner, Awaited, PinShared, CalledByWinner,
              TurnsCounted, CountedOnes
<1> QED
  BY <1>1, <1>2

\* All of the invariant, for the temporal proofs.
PatientInv == TypeOK /\ Alone /\ PInv

LEMMA PatientHolds == ASSUME Patient PROVE Spec => []PatientInv
<1>1. Init => PatientInv
  BY InitType, ChargedInit, PatientInit DEF PatientInv
<1>2. PatientInv /\ [Next]_vars /\ TypeOK' => PatientInv'
  <2> SUFFICES ASSUME PatientInv, [Next]_vars, TypeOK' PROVE PatientInv'
    OBVIOUS
  <2>1. PInv'
    BY PatientNext DEF PatientInv
  <2>2. CASE Next
    BY <2>1, <2>2, AloneNext DEF PatientInv, Patient
  <2>3. CASE UNCHANGED vars
    BY <2>1, <2>3 DEF PatientInv, Alone, Made, vars
  <2> QED
    BY <2>2, <2>3
<1> QED
  BY <1>1, <1>2, TypeCorrect, PTL DEF Spec

\* "At most one classifier call per session": with a wait and a reservation that
\* outlive the classifier, for any number of requests at once.
THEOREM OneCall == ASSUME Patient PROVE Spec => []OneClassifierCall
<1>1. PatientInv => OneClassifierCall
  <2> SUFFICES ASSUME PatientInv PROVE OneClassifierCall
    OBVIOUS
  <2>1. \A r, q \in calls : r = q
    BY DEF PatientInv, PInv, CalledByWinner, PinShared, OneWinner, TypeOK
  <2>2. calls = {} \/ \E r : calls = {r}
    BY <2>1
  <2>3. CASE calls = {}
    <3>1. Cardinality(calls) = 0
      BY <2>3, FS_EmptySet
    <3> QED
      BY <3>1 DEF OneClassifierCall
  <2>4. CASE \E r : calls = {r}
    <3>1. PICK r : calls = {r}
      BY <2>4
    <3>2. Cardinality({r}) = 1
      BY FS_Singleton
    <3> QED
      BY <3>1, <3>2 DEF OneClassifierCall
  <2> QED
    BY <2>2, <2>3, <2>4
<1> QED
  BY <1>1, PatientHolds, PTL

\* Nor does anybody run out of patience.
THEOREM AllArePatient == ASSUME Patient PROVE Spec => []NobodyGivesUp
<1>1. PatientInv => NobodyGivesUp
  BY DEF PatientInv, PInv, OnTheWay, NobodyGivesUp, Busy, Counted
<1> QED
  BY <1>1, PatientHolds, PTL

-----------------------------------------------------------------------------
\* Each step of the protocol creates the pin, joins it, or is nothing to OnePin.
LEMMA StepRefines ==
    ASSUME Patient, PatientInv, PatientInv', [Next]_vars
    PROVE  [Promise!Next]_(Promise!vars)
<1> DEFINE pin == IF stored = None THEN None ELSE stored.by
<1> DEFINE at(r) == IF pc[r] \in {"forward", "done"} THEN mine[r].by ELSE None
<1> USE FirstTurnAssumption, Participants DEF PatientInv
<1>0. servedBy = [r \in Requests |-> at(r)] /\ servedBy' = [r \in Requests |-> at(r)']
  BY DEF servedBy, PInv, PinShared, Counted
<1>1. SUFFICES ASSUME Next
               PROVE  Promise!Next \/ (pin' = pin /\ servedBy' = servedBy)
  BY DEF vars, Promise!vars, servedBy
<1>2. History
  BY <1>1 DEF Next
<1>3. CASE \E r \in Requests : PutNewPin(r)
  <2>1. PICK r \in Requests : PutNewPin(r)
    BY <1>3
  <2>2. stored = None /\ pc[r] = "put"
    BY <1>2, <2>1, NewPinKeeps
  <2>3. /\ pc'[r] = "forward" /\ stored' = mine'[r] /\ mine'[r] = [by |-> r, turns |-> 1]
        /\ \A q \in Requests \ {r} : pc'[q] = pc[q] /\ mine'[q] = mine[q]
    BY <2>1 DEF PutNewPin, Goto, TypeOK
  <2>4. stored' # None /\ stored'.by = r
    BY <2>2, <2>3 DEF PInv, PinShared, Counted
  <2>5. at(r) = None /\ at(r)' = r /\ \A q \in Requests \ {r} : at(q)' = at(q)
    BY <2>2, <2>3
  <2>6. servedBy[r] = None /\ servedBy' = [servedBy EXCEPT ![r] = r]
    BY <1>0, <2>5
  <2>7. pin = None /\ pin' = r
    BY <2>2, <2>4
  <2>8. Promise!Create(r)
    BY <2>6, <2>7 DEF Promise!Create
  <2> QED
    BY <2>8 DEF Promise!Next
<1>4. CASE \E r \in Requests : SaveTurn(r) \/ FinishWithPut(r) \/ FinishWithoutPut(r)
  <2>1. PICK r \in Requests : SaveTurn(r) \/ FinishWithPut(r) \/ FinishWithoutPut(r)
    BY <1>4
  <2>2. /\ stored # None /\ stored' # None /\ stored'.by = stored.by
        /\ mine' = mine /\ mine[r] # None
    BY <1>2, <2>1, PutBackKeeps
  <2>3. pin # None /\ pin' = pin /\ mine[r].by = pin
    <3>1. stored.by # None
      BY <2>2 DEF TypeOK, Pins
    <3> QED
      BY <2>2, <3>1 DEF PInv, PinShared
  <2>4. CASE SaveTurn(r)
    <3>1. pc[r] = "save" /\ pc'[r] = "forward" /\ \A q \in Requests \ {r} : pc'[q] = pc[q]
      BY <2>4 DEF SaveTurn, Goto, TypeOK
    <3>2. at(r) = None /\ at(r)' = mine[r].by /\ \A q \in Requests \ {r} : at(q)' = at(q)
      BY <2>2, <3>1
    <3>3. servedBy[r] = None /\ servedBy' = [servedBy EXCEPT ![r] = pin]
      BY <1>0, <2>3, <3>2
    <3>4. Promise!Join(r)
      BY <2>3, <3>3 DEF Promise!Join
    <3> QED
      BY <3>4 DEF Promise!Next
  <2>5. CASE FinishWithPut(r) \/ FinishWithoutPut(r)
    <3>1. pc[r] = "forward" /\ pc'[r] = "done" /\ \A q \in Requests \ {r} : pc'[q] = pc[q]
      BY <2>5 DEF FinishWithPut, FinishWithoutPut, Goto, TypeOK
    <3>2. \A q \in Requests : at(q)' = at(q)
      BY <2>2, <3>1
    <3> QED
      BY <1>0, <2>3, <3>2
  <2> QED
    BY <2>1, <2>4, <2>5
<1>5. CASE \E r \in Requests : LookupHit(r) \/ PollFindsPin(r)
  <2>1. PICK r \in Requests : LookupHit(r) \/ PollFindsPin(r)
    BY <1>5
  <2>2. stored' = stored /\ \A q \in Requests \ {r} : pc'[q] = pc[q]
    BY <1>2, <2>1, CountKeeps
  <2>3. pc[r] \in {"idle", "sleep"} /\ pc'[r] = "save"
    BY <2>1 DEF LookupHit, PollFindsPin, Goto, TypeOK
  <2>4. \A q \in Requests : pc[q] \in {"forward", "done"} => mine'[q].by = mine[q].by
    <3> SUFFICES ASSUME NEW q \in Requests, pc[q] \in {"forward", "done"}
                 PROVE  mine'[q].by = mine[q].by
      OBVIOUS
    <3>1. mine[q] # None /\ mine[q].by = stored.by
      BY DEF PInv, PinShared, Counted
    <3>2. mine'[q] # None /\ mine'[q].by = stored'.by
      BY <2>2, <2>3 DEF PInv, PinShared, Counted
    <3> QED
      BY <2>2, <3>1, <3>2
  <2>5. \A q \in Requests : at(q)' = at(q)
    BY <2>2, <2>3, <2>4
  <2> QED
    BY <1>0, <2>2, <2>5
<1>6. CASE \/ \E r \in Requests :
                \/ LookupMiss(r) /\ stored = None
                \/ LookupReclassify(r) \/ ReserveFails(r)
                \/ PollMisses(r) /\ stored = None /\ left[r] > 0
           \/ \E r \in Requests : Reserve(r) \/ ClassifyDone(r) \/ Release(r)
           \/ Tick
  <2>1. mine' = mine /\ stored' = stored
    BY <1>6, StoredLive DEF LookupMiss, LookupReclassify, ReserveFails, PollMisses, GetMisses,
       Reserve, ClassifyDone, Release, Tick
  <2>2. \A q \in Requests : pc'[q] = pc[q] \/ {pc'[q], pc[q]} \cap {"forward", "done"} = {}
    BY <1>6 DEF LookupMiss, LookupReclassify, ReserveFails, PollMisses, GetMisses, Goto,
       AfterPoll, Reserve, ClassifyDone, Release, Tick, TypeOK
  <2>3. \A q \in Requests : at(q)' = at(q)
    BY <2>1, <2>2
  <2> QED
    BY <1>0, <2>1, <2>3
<1> QED
  BY <1>1, <1>3, <1>4, <1>5, <1>6, StepCases

\* The protocol in a patient session implements the abstract promise: one pin,
\* created once, and every request is served by the one that is there.
THEOREM PromiseKept == ASSUME Patient PROVE Spec => KeepsPromise
<1>1. Init => Promise!Init
  <2> SUFFICES ASSUME Init PROVE Promise!Init
    OBVIOUS
  <2>1. stored = None /\ \A r \in Requests : mine[r] = None
    BY Participants DEF Init
  <2> QED
    BY <2>1 DEF Promise!Init, servedBy
<1>2. PatientInv /\ PatientInv' /\ [Next]_vars => [Promise!Next]_(Promise!vars)
  BY StepRefines
<1> QED
  BY <1>1, <1>2, PatientHolds, PTL DEF Spec, KeepsPromise, Promise!Spec
=============================================================================
