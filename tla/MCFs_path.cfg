SPECIFICATION Spec
CONSTANTS
    BLOCK_SIZE = 24
    POINTER_SIZE = 12
    ENTRY_SIZE = 5
    INODE_SIZE = 2
    DESC_SIZE = 1
    SECTOR_SIZE = 12
    DIRECT_BLOCK_COUNT = 2
    BLOCKS_PER_GROUP = 16
    InodesPerGroup = 4
    ImageSizes = {14}
    NameLen <- MCNameLen
    Copies <- DirCopies
    MaxCopies = 3
    p1 = p1
    p2 = p2
    Procs = {p1, p2}
    Init0 = p1
    PROC_MAX_FILE_NUM = 2
    FileCount = 2
    OpenPaths <- MCPaths
    ReadSizes = {15, 48}
    Failures <- MCFailures
    StaleInodes <- MCStale
INVARIANTS
    InodePerName
