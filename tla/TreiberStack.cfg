CONSTANTS
    Threads = {t1, t2}
    Nodes = {n1, n2, n3}
    Null = Null
SPECIFICATION FairSpec
INVARIANTS
    NoABA
PROPERTIES
    RefinesStack
    LockFree
