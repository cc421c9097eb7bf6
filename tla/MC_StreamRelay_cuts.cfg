SPECIFICATION FairSpec
CONSTANTS
    Answers <- SomeAnswers
    Known = {1, 12}
    MinBody = 2
    Modes = {"mask", "off"}
    Tiers = 2
    MaxComments = 1
INVARIANTS
    TypeOK
    RelayedWhole
    OneTierAnswers
PROPERTIES
    EveryStreamEnds
\* The stream ends.
CHECK_DEADLOCK FALSE
