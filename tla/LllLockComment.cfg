CONSTANTS
    Tasks = {t1, t2, t3}
    COUNT = 1
SPECIFICATION Spec
SYMMETRY Symmetry
INVARIANT OneMeansNoWaiters
