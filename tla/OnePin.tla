------------------------------ MODULE OnePin ------------------------------
(***************************************************************************)
(* What the first-turn protocol promises (spec section 4.10): a session    *)
(* has at most one pin at a time; the request that creates it is served by *)
(* it, every other request of the session by the pin it finds.  Nothing is *)
(* said of sessions that end: no call, cap or expiry drops the pin here.   *)
(***************************************************************************)
CONSTANTS Requests, None

VARIABLES
    pin,       \* the request whose classification is the session's pin, or None
    servedBy   \* for each request, whose pin it was forwarded under, or None

vars == <<pin, servedBy>>

TypeOK ==
    /\ pin \in Requests \cup {None}
    /\ servedBy \in [Requests -> Requests \cup {None}]

Init == pin = None /\ servedBy = [r \in Requests |-> None]

\* The session has no pin: the request makes one and is served by it.
Create(r) ==
    /\ pin = None /\ servedBy[r] = None
    /\ pin' = r
    /\ servedBy' = [servedBy EXCEPT ![r] = r]

\* The session has a pin: the request is served by that one.
Join(r) ==
    /\ pin # None /\ servedBy[r] = None
    /\ servedBy' = [servedBy EXCEPT ![r] = pin]
    /\ UNCHANGED pin

Next == \E r \in Requests : Create(r) \/ Join(r)

Spec == Init /\ [][Next]_vars
=============================================================================
