SPECIFICATION FairSpec
CONSTANTS
    Keys <- MCKeys
    Lines = {0, 1}
    EchoLine = 1
    BootMessages <- MCBootMessages
    Strings <- MCStrings
    Reasons <- MCReasons
    Desc <- MCDesc
    MaxDown = 2
    MaxPending = 2
    MaxPrints = 2
    UINT_MOD = 256
    COLUMN = 3
    LINE = 2
    PRINTK_SIZE = 8
CHECK_DEADLOCK FALSE
INVARIANTS
    StatesMatch
    Formatted
PROPERTIES
    EchoIsTyped
    PressNoticed
    ScreenIsPaper
