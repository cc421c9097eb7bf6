SPECIFICATION Spec
CONSTANTS
    r1 = r1
    r2 = r2
    r3 = r3
    ipA = ipA
    ipB = ipB
    None = None
    Requests = {r1, r2}
    Ips = {ipA, ipB}
    Prompts <- SomePrompts
    MayPurge = FALSE
    MayCrash = FALSE
SYMMETRY RequestSymmetry
INVARIANTS
    RaceSafe
\* Every request of the instance is served once.
CHECK_DEADLOCK FALSE
