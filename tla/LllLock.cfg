CONSTANTS
    Tasks = {t1, t2, t3}
    COUNT = 2
SPECIFICATION FairSpec
INVARIANTS
    MutualExclusion
    NoLostWakeup
    SumExact
PROPERTIES
    RefinesAbstractMutex
    Terminates
