SPECIFICATION Spec
CONSTANTS
    t1 = t1
    t2 = t2
    t3 = t3
    a1 = a1
    a2 = a2
    a3 = a3
    k1 = k1
    k2 = k2
    Thread = {t1, t2, t3}
    Addr = {a1, a2, a3}
    Kind = {k1, k2}
    Limit = {0, 1, 2}
    PerPage = 2
    MaxPages = 2
INVARIANT CacheInv
INVARIANT OneOwner
INVARIANT RightKind
PROPERTY EvictsOldest
SYMMETRY Symmetry
