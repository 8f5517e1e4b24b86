SPECIFICATION Spec
CONSTANTS
    t1 = t1
    t2 = t2
    x = x
    z = z
    y = y
    r = r
    Thread = {t1, t2}
    ErrorCheck = {x, y, z}
    Dynamic = {z}
    Misuse = FALSE
    Recursive = {r}
    Slots = 3
    LOCK_EDGES_MAX = 2
    MUTEX_DEPTH_MAX = 1
INVARIANT MutexInv
INVARIANT OneWayNesting
PROPERTY OnlyOwnerUnlocks
PROPERTY NoFalseAlarm
SYMMETRY Symmetry
\* threads that nest mutexes both ways for the first time may deadlock
CHECK_DEADLOCK FALSE
