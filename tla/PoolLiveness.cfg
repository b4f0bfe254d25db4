CONSTANTS
    Thread = {t1, t2}
    Conn = {c1, c2, c3}
    PoolSize = 1
    MaxConnections = 1
    Limits = {1, 2}
    MaxLimit = 2
    MaxHeld = 1
SPECIFICATION FairSpec
PROPERTIES GetReturns ShutdownCompletes
CHECK_DEADLOCK FALSE
