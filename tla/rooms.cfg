SPECIFICATION FairSpec
CONSTANTS
    c1 = c1
    c2 = c2
    c3 = c3
    NoRoom = NoRoom
    Calls = {c1, c2, c3}
    Creator = c1
    MaxMessages = 1
    Deadlines = {c2}
INVARIANTS
    TypeOK
    OneRoomWhereCreated
    CachedWorks
    NoSendOnClosedRoom
PROPERTIES
    HeardByMembers
    CallsReturn
CHECK_DEADLOCK FALSE
