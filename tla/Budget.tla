------------------------------ MODULE Budget ------------------------------
(***************************************************************************)
(* The daily spend of the router (app/telemetry/budget.py) and the         *)
(* requests that reserve from it and reconcile with it (app/api/chat.py).  *)
(* Each request takes its settings when it arrives and suspends before the *)
(* check and before the reconciliation; both are one step of the event     *)
(* loop, the lock only orders them.                                        *)
(*                                                                         *)
(* Costs are in units.  What a request is estimated at and what it costs   *)
(* are any of Costs: the answer may be longer than the estimate assumes,   *)
(* and a fallback model or the tier it is downgraded to has its own price. *)
(***************************************************************************)
EXTENDS Integers, FiniteSets, FiniteSetsExt

CONSTANTS
    Requests,    \* chat completions
    Sessions,    \* sessions of the requests that have one
    Costs,       \* estimates and actual costs
    TierLimit,   \* max_cost_per_request_usd
    Limits,      \* per version of the settings: enabled, daily, reject
    Days,        \* days that may pass
    NoSession

ASSUME BudgetAssumption ==
    /\ IsFiniteSet(Requests) /\ Costs \subseteq Nat /\ NoSession \notin Sessions
    /\ TierLimit \in Nat /\ Days \in Nat \ {0}
    /\ \A v \in DOMAIN Limits :
         Limits[v].enabled \in BOOLEAN /\ Limits[v].reject \in BOOLEAN /\ Limits[v].daily \in Nat

VARIABLES
    day,         \* today
    spend,       \* _daily_spend
    reserved,    \* _reservations: amount and who made it, or nothing
    at,          \* where each request is
    using,       \* the version of the settings each arrived under
    session,     \* the session of each, or NoSession
    booked,      \* history: what each reserved, and when; [amount, day]
    paid,        \* history: what each was reconciled at, and when
    crossed,     \* history: a reservation was open at midnight
    tangled      \* history: a reservation was replaced or released by another request,
                 \* or made without a session, which nothing releases

budgetVars == <<day, spend, reserved, at, using, session, booked, paid, crossed, tangled>>

Nothing == [amount |-> 0, day |-> 0]
Free == [amount |-> 0, by |-> {}]

Ends == {"served", "left", "rejected"}

BudgetInit ==
    /\ day = 1
    /\ spend = [d \in 1..Days |-> 0]
    /\ reserved = [s \in Sessions |-> Free]
    /\ at = [r \in Requests |-> "idle"]
    /\ using = [r \in Requests |-> 0]
    /\ session = [r \in Requests |-> NoSession]
    /\ booked = [r \in Requests |-> Nothing]
    /\ paid = [r \in Requests |-> Nothing]
    /\ crossed = FALSE /\ tangled = FALSE

Arrive(r, version) ==
    /\ at[r] = "idle"
    /\ at' = [at EXCEPT ![r] = "check"]
    /\ using' = [using EXCEPT ![r] = version]
    /\ \E s \in Sessions \cup {NoSession} : session' = [session EXCEPT ![r] = s]
    /\ UNCHANGED <<day, spend, reserved, booked, paid, crossed, tangled>>

-----------------------------------------------------------------------------
(* check_and_reserve                                                       *)

\* The budget is off for these settings, or the model has no price: fail open.
PassUnchecked(r) ==
    /\ at[r] = "check"
    /\ at' = [at EXCEPT ![r] = "forward"]
    /\ UNCHANGED <<day, spend, reserved, using, session, booked, paid, crossed, tangled>>

Checked(r) == at[r] = "check" /\ Limits[using[r]].enabled

Exceeds(r, cost) == cost > TierLimit \/ spend[day] + cost > Limits[using[r]].daily

\* Rejected, or sent to a cheaper tier: which is not checked and reserves nothing.
Exceed(r) ==
    /\ Checked(r)
    /\ \E cost \in Costs : Exceeds(r, cost)
    /\ at' = [at EXCEPT ![r] = IF Limits[using[r]].reject THEN "rejected" ELSE "forward"]
    /\ UNCHANGED <<day, spend, reserved, using, session, booked, paid, crossed, tangled>>

\* One entry per session, whoever else of it is in flight.
Reserve(r) ==
    /\ Checked(r)
    /\ \E cost \in Costs :
         /\ ~Exceeds(r, cost)
         /\ spend' = [spend EXCEPT ![day] = @ + cost]
         /\ booked' = [booked EXCEPT ![r] = [amount |-> cost, day |-> day]]
         /\ IF session[r] = NoSession
            THEN tangled' = TRUE /\ UNCHANGED reserved
            ELSE /\ tangled' = (tangled \/ reserved[session[r]] # Free)
                 /\ reserved' = [reserved EXCEPT ![session[r]] = [amount |-> cost, by |-> {r}]]
    /\ at' = [at EXCEPT ![r] = "forward"]
    /\ UNCHANGED <<day, using, session, paid, crossed>>

-----------------------------------------------------------------------------
(* The answer                                                              *)

\* Mutant: the total is not kept from going below zero.
Mut_Larger(a, b) == b

Larger(a, b) == IF a > b THEN a ELSE b

\* Mutant: the reservation is looked up, not removed.
Mut_Released(r) == reserved

\* _reservations.pop
Released(r) ==
    IF session[r] = NoSession THEN reserved ELSE [reserved EXCEPT ![session[r]] = Free]

\* Mutant: the actual cost is added to the estimate.
Mut_Reservation(r) == Free

Reservation(r) == IF session[r] = NoSession THEN Free ELSE reserved[session[r]]

\* _post_process_response and reconcile: today's total, whatever day it was reserved.
Serve(r) ==
    /\ at[r] = "forward"
    /\ at' = [at EXCEPT ![r] = "served"]
    /\ \E cost \in Costs :
         /\ spend' = [spend EXCEPT ![day] = Larger(0, @ - Reservation(r).amount + cost)]
         /\ paid' = [paid EXCEPT ![r] = [amount |-> cost, day |-> day]]
    /\ reserved' = Released(r)
    /\ tangled' = (tangled \/ \E other \in Requests \ {r} : other \in Reservation(r).by)
    /\ UNCHANGED <<day, using, session, booked, crossed>>

\* Nothing is reconciled: a failure, a stream, or a model without a price.
Leave(r) ==
    /\ at[r] = "forward"
    /\ at' = [at EXCEPT ![r] = "left"]
    /\ UNCHANGED <<day, spend, reserved, using, session, booked, paid, crossed, tangled>>

Midnight ==
    /\ day < Days
    /\ day' = day + 1
    /\ crossed' = (crossed \/ \E s \in Sessions : reserved[s] # Free)
    /\ UNCHANGED <<spend, reserved, at, using, session, booked, paid, tangled>>

BudgetNext(version) ==
    \/ \E r \in Requests :
         Arrive(r, version) \/ PassUnchecked(r) \/ Exceed(r) \/ Reserve(r) \/ Serve(r) \/ Leave(r)
    \/ Midnight

-----------------------------------------------------------------------------
(* Properties                                                              *)

BudgetTypeOK ==
    /\ day \in 1..Days /\ spend \in [1..Days -> Nat]
    /\ reserved \in [Sessions -> [amount : Nat, by : SUBSET Requests]]
    /\ at \in [Requests -> {"idle", "check", "forward"} \cup Ends]
    /\ using \in [Requests -> Nat] /\ session \in [Requests -> Sessions \cup {NoSession}]
    /\ booked \in [Requests -> [amount : Nat, day : 0..Days]]
    /\ paid \in [Requests -> [amount : Nat, day : 0..Days]]
    /\ crossed \in BOOLEAN /\ tangled \in BOOLEAN

Total(entry, S) == MapThenSumSet(LAMBDA r : entry[r].amount, S)

PaidOn(d) == {r \in Requests : paid[r].day = d}
OpenOn(d) == {r \in Requests : booked[r].day = d /\ paid[r] = Nothing}

\* Today's total is never less than what today's answers are known to have cost:
\* overlapping requests of a session, failures and downgrades only ever add to it.
\* Unless a reservation was open at midnight: it is taken off the wrong day.
SpendCovers == ~crossed => spend[day] >= Total(paid, PaidOn(day))

\* Where no request met another's reservation of its session, the total is exactly
\* what was paid and what is still reserved: a request that failed or streamed
\* keeps its estimate for the rest of the day.
BooksBalance ==
    ~crossed /\ ~tangled =>
        spend[day] = Total(paid, PaidOn(day)) + Total(booked, OpenOn(day))
=============================================================================
