SPECIFICATION FairSpec
CONSTANTS
    Thread = {t1, t2, t3}
    Initial = 1
    MaxValue = 2
INVARIANT SemInv
INVARIANT NoLostWakeup
PROPERTY ImplementsSemaphore
PROPERTY Progress
