SPECIFICATION FairSpec
CONSTANTS
    Captured = {a1}
    Posted = {p1}
    Magnet = {m1}
    Address = {u1}
    Bad = {x1}
    NoValue = NoValue
    Slot = {r1, r2}
    NoSlot = NoSlot
    Lock = {l1, l2, l3}
    NoLock = NoLock
    MaxLocks = 1
    MaxEvents = 3
    StoreMayFail = TRUE
INVARIANTS NothingLost AnswerTrue
PROPERTIES ImplementsLedger Delivered
CHECK_DEADLOCK FALSE
