SPECIFICATION Spec
CONSTANTS
    BUDDY_MAX_ORDER = 4
    PAGE_SIZE = 4
    Entries <- MCEntries
    INSERT_SORT_MAX = 2
    BootEnd = 1
    StackEnd = 1
    KernelStart = 1
    KernelEnd = 2
INVARIANTS
    MmapSorted
    NoOverlap
    MemoryConserved
    Coalesced
    CountsAgree
PROPERTIES
    ImplementsPageAlloc
