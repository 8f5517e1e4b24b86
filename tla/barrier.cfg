SPECIFICATION FairSpec
CONSTANTS
    Thread = {t1, t2, t3}
    Count = 2
    BARRIER_MAX = 5
    Destroyer = {t1, t2, t3}
    EarlyDestroy = FALSE
INVARIANT BarrierInv
PROPERTY ImplementsBarrier
PROPERTY ReleasedReturn
PROPERTY OverLimitWakes
PROPERTY DestroyReturns
\* the barrier is destroyed
CHECK_DEADLOCK FALSE
