SPECIFICATION FairSpec
CONSTANTS
    PROC_MAX_NUM = 4
    StructCount = 5
INVARIANTS
    PidsMatch
    ListIsLive
PROPERTIES
    CurrentNotReleased
    ForkReturnsPid
    NoStarvation
    DeadReleased
