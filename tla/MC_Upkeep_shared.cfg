SPECIFICATION FairSpec
CONSTANTS
    r1 = r1
    r2 = r2
    s1 = s1
    None = None
    NoSession = NoSession
    Requests = {r1, r2}
    Sessions = {s1}
    Costs = {1, 3}
    TierLimit = 3
    Limits <- SomeLimits
    Days = 2
    MaxWrites = 1
    MaxAdmin = 1
INVARIANTS
    TypeOK
    ReloadComplete
    SpendCovers
    BooksBalance
PROPERTIES
    CatchesUp
\* Every request is served once and the file is written a bounded number of times.
CHECK_DEADLOCK FALSE
