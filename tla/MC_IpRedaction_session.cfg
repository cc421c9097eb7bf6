SPECIFICATION Spec
CONSTANTS
    r1 = r1
    r2 = r2
    r3 = r3
    ipA = ipA
    ipB = ipB
    None = None
    Requests = {r1, r2, r3}
    Ips = {ipA, ipB}
    Prompts <- SomePrompts
    MayPurge = TRUE
    MayCrash = TRUE
SYMMETRY RequestSymmetry
INVARIANTS
    TypeOK
    RoundTrip
    StableTokens
\* Every request of the instance is served once.
CHECK_DEADLOCK FALSE
