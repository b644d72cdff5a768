CONSTANTS
    Clients = {c1, c2}
    BUFFER_SIZE = 2
    MaxSize = 3
    Cpus = {cpu1, cpu2}
    BUF = 2048
    WORD = 65536
    Payloads = {0, 6, 1460, 2100}
    Pids = {p1, p2, p3}
    ETH_ALEN = 2
    Digits = {0, 3, 15}
    MaxText = 5
    Threads = {t1, t2}
    MainThread = main
    Rounds = 3
    Launches = {l1}
    Names0 = {v00A}
    Names1 = {v01A}
    None = None
SPECIFICATION Spec
INVARIANTS
    AnswerIntact
    NoStaleHook
    LineExact
    OnlyOursLimited
    OnceEach
    ConvertExact
    TotalsRight
PROPERTIES
    Answered
    Reaped
    LaunchEnds
CHECK_DEADLOCK FALSE
