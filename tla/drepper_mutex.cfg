SPECIFICATION FairSpec
CONSTANTS
    Thread = {t1, t2, t3, t4}
    Mode = {"lock", "trylock", "clocklock"}
    Polyfill = {FALSE, TRUE}
INVARIANT TypeOK
INVARIANT MutualExclusion
INVARIANT NoLostWakeup
PROPERTY ImplementsMutex
PROPERTY Progress
