SPECIFICATION FairSpec
CONSTANTS
    r1 = r1
    r2 = r2
    r3 = r3
    d1 = d1
    c1 = c1
    s1 = s1
    None = None
    Requests = {r1, r2, r3}
    Reclassify = {}
    Quick = {}
    Deleters = {}
    Clearers = {}
    Setters = {}
    Backend = "memory"
    WaitTicks = 1
    WorkTicks = 2
    TtlTicks = 3
    MaxTurns = 9
    MayFail = TRUE
    MayExpire = FALSE
    MayEvict = TRUE
INVARIANTS
    TypeOK
    CallsAccounted
PROPERTIES
    PinKept
    EveryRequestEnds
    DeadWinnerLapses
\* Every request and call of the instance is served once.
CHECK_DEADLOCK FALSE
