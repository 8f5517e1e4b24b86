SPECIFICATION FairSpec
CONSTANTS
    Producer = {p1, p2}
    Consumer = {c1, c2}
    Private = FALSE
    MaxItems = 3
INVARIANT CondInv
INVARIANT NoLostSignal
INVARIANT NoUseAfterDestroy
PROPERTY Progress
\* nobody uses the condition variable once it is destroyed
CHECK_DEADLOCK FALSE
