CONSTANTS
    Thread = {t1, t2, t3}
    Conn = {c1, c2, c3}
    PoolSize = 1
    MaxConnections = 1
    Limits = {2}
    MaxLimit = 2
    MaxHeld = 1
    Operations = {"held", "guard", "null"}
SPECIFICATION UseSpec
SYMMETRY Symmetry
INVARIANT CleanReturn
CHECK_DEADLOCK FALSE
