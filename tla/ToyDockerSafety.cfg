CONSTANTS
    Launches = {l1, l2}
    Names0 = {v00A, v00B}
    Names1 = {v01A, v01B}
    None = None
    NLMSG_GOOD_SIZE = 38
    Structs = {8, 12, 16}
    Lengths = {1, 4, 16}
SPECIFICATION MCSpec
SYMMETRY Symmetry
INVARIANTS
    ShellConfined
    OwnVeth
    WithinCap
    ParsesBack
