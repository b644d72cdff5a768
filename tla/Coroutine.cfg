CONSTANTS
    Program <- MCThree
    Delay <- MCDelay
    Nodes = {k1, k2, k3}
    Priorities <- MCTimes
    N = 1
    MaxAvail = 4
    Garbage = Garbage
    MaxClock = 5
    MaxSetBacks = 1
SPECIFICATION CoroutineSpec
INVARIANTS
    RegistersIntact
    OnePlace
    NoDanglingTask
PROPERTIES
    ResumedInOrder
    DelayEnds
