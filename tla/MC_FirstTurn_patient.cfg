SPECIFICATION Spec
CONSTANTS
    r1 = r1
    r2 = r2
    r3 = r3
    d1 = d1
    c1 = c1
    s1 = s1
    None = None
    Requests = {r1, r2, r3}
    Reclassify = {r2}
    Quick = {r3}
    Deleters = {}
    Clearers = {}
    Setters = {}
    Backend = "memory"
    WaitTicks = 3
    WorkTicks = 2
    TtlTicks = 3
    MaxTurns = 9
    MayFail = FALSE
    MayExpire = FALSE
    MayEvict = FALSE
INVARIANTS
    OneClassifierCall
    NobodyGivesUp
PROPERTIES
    KeepsPromise
\* Every request and call of the instance is served once.
CHECK_DEADLOCK FALSE
