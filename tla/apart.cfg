SPECIFICATION Spec
CONSTANTS
    m1 = m1
    m2 = m2
    n1 = n1
    n2 = n2
    NoMember = NoMember
    Nodes = {n1, n2}
    Members = {m1, m2}
    Home <- Apart
    MaxChats = 1
    Talkers = {}
    MaxLate = 1
    MaxCopies = 1
    Faults = {"loss", "queue"}
    Deadlines = {}
    Stalled = {}
PROPERTIES
    RoomIsFeed
SYMMETRY PlaceSymmetry
CHECK_DEADLOCK FALSE
