CONSTANTS
    Nodes = {n1, n2, n3, n4, n5, n6}
    Priorities = {1, 2, 3}
    N = 2
    MaxAvail = 9
    Garbage = Garbage
SPECIFICATION Spec
VIEW View
INVARIANTS
    TypeOK
    HeapOrder
    Positions
    NothingLost
    ValidIsExact
PROPERTIES
    RefinesAbstractPQ
