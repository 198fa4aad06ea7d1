SPECIFICATION FairSpec
CONSTANTS
    Client = {k0, k1, k2}
    First = k0
    NoClient = NoClient
    Request = {r1, r2}
    NoRequest = NoRequest
    MaxEvents = 3
    DependentsMayFail = TRUE
INVARIANTS Aligned ServedByOpen NothingLeaks SettingsFollow
PROPERTY SwapEnds
CHECK_DEADLOCK FALSE
