SPECIFICATION FairSpec
CONSTANTS
    m1 = m1
    m2 = m2
    n1 = n1
    n2 = n2
    NoMember = NoMember
    Nodes = {n1}
    Members = {m1, m2}
    Home <- Together
    MaxChats = 1
    Talkers = {}
    MaxLate = 0
    MaxCopies = 1
    Faults = {}
    Deadlines = {}
    Stalled = {}
PROPERTIES
    Forwarded
    LeaveSettles
CHECK_DEADLOCK FALSE
