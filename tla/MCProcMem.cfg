SPECIFICATION Spec
CONSTANTS
    Limit = 2
    MemoryPages = 23
    TakenPages = {0, 13, 14, 15, 16, 17, 18, 19, 20, 21}
    OtherPages = 6
    PROC_MAX_NUM = 4
    PAGE_SIZE = 4
    NUM_PTE = 2
    USER_PDES = 3
    STACK_GAP = 0
    Programs <- MCPrograms
INVARIANTS
    PagesExact
    SlabExact
    SpaceIsProgram
