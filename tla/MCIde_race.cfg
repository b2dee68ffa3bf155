SPECIFICATION Spec
CONSTANTS
    BusCount = 2
    Drives <- MCDrives
    Io <- RaceIo
    SlotCount = 7
    SECTOR_SIZE = 512
    MaxErrors = 3
INVARIANTS
    QueuedOnList
