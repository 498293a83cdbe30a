SPECIFICATION Spec
CONSTANTS
    g1 = g1
    g2 = g2
    g3 = g3
    Nobody = Nobody
    Callers = {g1, g2, g3}
INVARIANTS
    CaserNotShared
CHECK_DEADLOCK FALSE
