CONSTANTS
    Cpus = {cpu1, cpu2}
SPECIFICATION Spec
INVARIANTS
    AlwaysAccepted
