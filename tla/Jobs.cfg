SPECIFICATION FairSpec
CONSTANTS
    Job = {j1, j2}
    NoJob = NoJob
    Url = {u1, u2}
    NoUrl = NoUrl
    Task = {t1, t2, t3}
    NoTask = NoTask
    Concurrency = 1
    MaxAttempts = 1
    MaxEvents = 5
    StoreMayFail = TRUE
INVARIANTS ActiveOwned RunsBounded
PROPERTIES FinishedStays RunningEnds
CHECK_DEADLOCK FALSE
