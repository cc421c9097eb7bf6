SPECIFICATION Spec
CONSTANTS
    r1 = r1
    r2 = r2
    r3 = r3
    d1 = d1
    c1 = c1
    s1 = s1
    None = None
    Requests = {r1, r2}
    Reclassify = {}
    Quick = {}
    Deleters = {d1}
    Clearers = {c1}
    Setters = {s1}
    Backend = "redis"
    WaitTicks = 1
    WorkTicks = 2
    TtlTicks = 3
    MaxTurns = 2
    MayFail = TRUE
    MayExpire = TRUE
    MayEvict = FALSE
INVARIANTS
    ReservationExcludes
\* Every request and call of the instance is served once.
CHECK_DEADLOCK FALSE
