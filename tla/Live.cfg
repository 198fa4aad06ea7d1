SPECIFICATION Spec
CONSTANTS
    Row = {1, 2, 3}
    Stored = {2, 3}
    Writer = {w1, w2}
    PageSize = 1
    LoadCap = 3
    Ms <- TwoPerMs
    MaxEvents = 3
CONSTRAINT Followed
INVARIANT Converged
PROPERTY SnapshotComplete
CHECK_DEADLOCK FALSE
