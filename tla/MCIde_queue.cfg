SPECIFICATION FairSpec
CONSTANTS
    BusCount = 2
    Drives <- MCDrives
    Io <- MCIo
    SlotCount = 6
    SECTOR_SIZE = 512
    MaxErrors = 2
CONSTRAINT
    Followed
INVARIANTS
    LostOnlyBehindRemoved
    ErrorAfterRetry
    SuccessIsTransfer
    SyncReturnsOutcome
PROPERTIES
    OneCommandAtATime
    ImplementsQueue
    Completes
