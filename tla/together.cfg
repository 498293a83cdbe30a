SPECIFICATION Spec
CONSTANTS
    m1 = m1
    m2 = m2
    n1 = n1
    n2 = n2
    NoMember = NoMember
    Nodes = {n1}
    Members = {m1, m2}
    Home <- Together
    MaxChats = 1
    Talkers = {m1}
    MaxLate = 0
    MaxCopies = 1
    Faults = {"repo", "crash"}
    Deadlines = {m1, m2}
    Stalled = {}
INVARIANTS
    TypeOK
    NothingAfterLeave
    NoGaps
    NoSendOnClosed
CHECK_DEADLOCK FALSE
