SPECIFICATION FairSpec
CONSTANTS
    t1 = t1
    t2 = t2
    t3 = t3
    sig1 = sig1
    set1 = set1
    Turns = {t1, t2}
    Signals = {sig1}
    Setters = {}
    Backend = "redis"
    Options <- SignalOptions
    Evidence <- AnyEvidence
    SetLevels = {1, 4}
    StartLevels = {4}
    GlobalMax = 5
    Threshold = 3
    Decay = 1
    Cooldown = 1
    MaxEscalations = 1
    EscalateAfter = 3
    MaxRetries = 1
    RetryOnFailure = TRUE
    DowngradeTo = 0
    MayRefuse = TRUE
INVARIANTS
    PinsCapped
    TopTierOnEvidence
PROPERTIES
    EveryTurnEnds
\* Every turn and call of the instance is served once.
CHECK_DEADLOCK FALSE
