SPECIFICATION Spec
CONSTANTS
    None = None
    Models = 3
    MaxRetries = 1
    Backoff = 1
    Timeout = 4
    Deadline = 9
    FirstToken = 3
    Margin = 1
    Second = 2
    Waits = 2
    Tiers = 3
INVARIANTS
    TypeOK
    ChainOrder
    NothingSkipped
    ChainBounded
    RequestBounded
\* The request ends.
CHECK_DEADLOCK FALSE
