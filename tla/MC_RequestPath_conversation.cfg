SPECIFICATION Spec
CONSTANTS
    Scripts <- AllScripts
    MaxTurns = 3
    MaxMessages = 8
    MaxTextSize = 1000
INVARIANTS
    TypeOK
    DatesRight
    SessionStable
    LevelAllowed
    SentIsScreened
\* The client stops after MaxTurns requests.
CHECK_DEADLOCK FALSE
