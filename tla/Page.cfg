SPECIFICATION FetchSpec
CONSTANTS
    f1 = f1
    f2 = f2
    f3 = f3
    s1 = s1
    s2 = s2
    Fetch = {f1, f2, f3}
    Host = {s1, s2}
    HostOf <- MCHostOf
    Slots = 1
    MaxRetries = 1
    Allowed = {f1, f3}
    Fallback = TRUE
    HttpFirst = TRUE
    MaxCut = 1
    Nothing = Nothing
INVARIANTS
    OneOpen
PROPERTIES
    NeverWorse
    FetchEnds
