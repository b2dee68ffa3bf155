SPECIFICATION Spec
CONSTANTS
    p1 = p1
    p2 = p2
    p3 = p3
    p4 = p4
    Procs = {p1, p2, p3}
    NoProc = NoProc
    Devs = {0}
    Sectors = {1, 2, 4}
    SECTORS_PER_BIO = 2
    MAX_CACHE_COUNT = 2
    PageOutcomes = {TRUE}
    ExtraOps = {}
    MaxErrors = 1
INVARIANTS
    HeldIsRequested
