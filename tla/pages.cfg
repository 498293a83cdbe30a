SPECIFICATION ReadSpec
CONSTANTS
    a = a
    b = b
    c = c
    People = {a, b, c}
    Repos = {"postgres", "memory"}
    Backends = {"postgres", "memory"}
    Ids = {1, 2, 3}
    MaxTime = 2
    Limits <- SmallLimits
    DefaultLimit = 100
    NoRow = NoRow
INVARIANTS
    TypeOK
    ForwardComplete
    BackwardMissesTies
    NextIsNew
    ViewTypeOK
    GoneStaysGone
    PresentIsListed
PROPERTIES
    PagingEnds
CHECK_DEADLOCK FALSE
