SPECIFICATION FairSpec
CONSTANTS
    g1 = g1
    g2 = g2
    g3 = g3
    Nobody = Nobody
    Callers = {g1, g2, g3}
INVARIANTS
    TypeOK
    AloneIsTitled
PROPERTIES
    NamesArrive
CHECK_DEADLOCK FALSE
