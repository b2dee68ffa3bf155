SPECIFICATION Spec
CONSTANTS
    p1 = p1
    p2 = p2
    p3 = p3
    p4 = p4
    Procs = {p1, p2, p3, p4}
    NoProc = NoProc
    Devs = {0}
    Sectors = {1, 2}
    SECTORS_PER_BIO = 2
    MAX_CACHE_COUNT = 1
    PageOutcomes = {TRUE, FALSE}
    ExtraOps = {"write", "advance"}
    MaxErrors = 1
SYMMETRY Symmetry
CHECK_DEADLOCK FALSE
INVARIANTS
    TypeOK
    MutualExclusion
    SleepChains
    NoStall
    ReaderFirst
PROPERTIES
    PendingReadPinned
