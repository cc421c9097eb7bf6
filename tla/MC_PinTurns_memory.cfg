SPECIFICATION Spec
CONSTANTS
    t1 = t1
    t2 = t2
    t3 = t3
    sig1 = sig1
    set1 = set1
    Turns = {t1, t2, t3}
    Signals = {sig1}
    Setters = {set1}
    Backend = "memory"
    Options <- OverrideOptions
    Evidence <- SomeEvidence
    SetLevels = {1}
    StartLevels = {2}
    GlobalMax = 3
    Threshold = 3
    Decay = 1
    Cooldown = 2
    MaxEscalations = 2
    EscalateAfter = 3
    MaxRetries = 1
    RetryOnFailure = TRUE
    DowngradeTo = 2
    MayRefuse = TRUE
SYMMETRY TurnSymmetry
INVARIANTS
    TypeOK
    BudgetsKept
    FailureRemembered
    CeilingKept
PROPERTIES
    CooldownKept
    DropsExplained
\* Every turn and call of the instance is served once.
CHECK_DEADLOCK FALSE
