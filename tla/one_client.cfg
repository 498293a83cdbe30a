SPECIFICATION FairSpec
CONSTANTS
    m1 = m1
    m2 = m2
    n1 = n1
    n2 = n2
    NoMember = NoMember
    Nodes = {n1}
    Members = {m1}
    Home <- Together
    MaxChats = 2
    Talkers = {m1}
    MaxLate = 1
    MaxCopies = 2
    Faults = {"repo", "setup"}
    Deadlines = {m1, n1}
    Stalled = {}
INVARIANTS
    PersistBeforePublish
    SenderOrder
    FailedNotServed
    SendersMeet
PROPERTIES
    DeliveryOrder
    LeftIsLast
    ServeReturns
    AbortSettles
    ChatAnswered
CHECK_DEADLOCK FALSE
