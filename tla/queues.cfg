SPECIFICATION FairSpec
CONSTANTS
    p1 = p1
    p2 = p2
    s1 = s1
    s2 = s2
    r1 = r1
    r2 = r2
    Senders = {p1, p2}
    Subs = {s1, s2}
    Rooms = {r1, r2}
    Settings <- AllSettings
    MaxSent = 2
    MaxLog = 4
    ChanSize = 1
    Hurried = {p2}
INVARIANTS
    TypeOK
    InOrder
    Conserved
    LateOnlyAfterGivingUp
PROPERTIES
    QueueIsTopic
    Delivered
    PublishReturns
CHECK_DEADLOCK FALSE
