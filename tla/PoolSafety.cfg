CONSTANTS
    Thread = {t1, t2, t3}
    Conn = {c1, c2, c3, c4}
    PoolSize = 2
    MaxConnections = 2
    Limits = {1, 3}
    MaxLimit = 3
    MaxHeld = 2
SPECIFICATION Spec
SYMMETRY Symmetry
INVARIANTS Consistent LimitRespected NoLostWakeup
PROPERTIES AdmissionClosed ShutdownOnce LeasesExclusive
CHECK_DEADLOCK FALSE
