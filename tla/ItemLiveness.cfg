\* Every fault, under the fairness of the event loop.
SPECIFICATION FairSpec
CONSTANTS
    Hash = {h1}
    Batch = {b1}
    Flow = {f1}
    Category = {c1}
    NoCategory = NoCategory
    Concurrency = 1
    MaxEvents = 3
    OrphanedWrites = TRUE
    StoreMayFail = TRUE
PROPERTIES AddingEnds TorrentShown
CHECK_DEADLOCK FALSE
