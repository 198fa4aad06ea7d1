SPECIFICATION JobSpec
CONSTANTS
    r = r
    d1 = d1
    d2 = d2
    d3 = d3
    d4 = d4
    h1 = h1
    h2 = h2
    n = n
    Page = {r, d1, d2, d3, d4}
    Root = r
    Links <- MCLinks
    Hash = {h1, h2}
    Magnets <- MCMagnets
    RootIsDetail = FALSE
    MaxLinks = 3
    Depth = 2
    QueueSize = 2
    NoReport = NoReport
    NoPage = NoPage
    Name = {n}
    NoName = NoName
    NameOf <- MCNameOf
    Subscribers = 1
    MaxEvents = 2
INVARIANTS
    WalkBounded
    NothingLost
    CountsTrue
    RowsClassified
    CacheTrue
PROPERTIES
    ImplementsStream
    JobEnds
CHECK_DEADLOCK FALSE
