SPECIFICATION Spec
CONSTANTS
    Thread = {t1, t2, t3}
    Count = 2
    BARRIER_MAX = 5
    Destroyer = {t3}
    EarlyDestroy = TRUE
INVARIANT NoUseAfterDestroy
\* the barrier is destroyed
CHECK_DEADLOCK FALSE
