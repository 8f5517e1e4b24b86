SPECIFICATION FairSpec
CONSTANTS
    Thread = {t1, t2, t3}
    Flusher = {t2}
    Forker = {t1, t2}
    File = {f1, f2}
INVARIANT StdioInv
INVARIANT ForkQuiescent
INVARIANT ForkUnlocks
PROPERTY ForkReturns
PROPERTY ClosedFreed
\* A thread cancelled in fclose() may stop everyone else.
CHECK_DEADLOCK FALSE
