\* Every fault: store calls raise, writes outlive their task.
SPECIFICATION Spec
CONSTANTS
    Hash = {h1}
    Batch = {b1, b2}
    Flow = {f1, f2}
    Category = {c1}
    NoCategory = NoCategory
    Concurrency = 1
    MaxEvents = 3
    OrphanedWrites = TRUE
    StoreMayFail = TRUE
SYMMETRY Symmetry
INVARIANTS ShownOnlyIfHeld ClassifyingIsOwned AddingIsOwned
PROPERTY ImplementsContract
CHECK_DEADLOCK FALSE
