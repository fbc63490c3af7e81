CONSTANTS
    Chunk = 3
    MinOff = 3
    LastSector = 8
    Slots = 2
    Ids = {2, 3}
    NULL = NULL
    MaxCalls = 2
    Entry <- MCEntry
    Value <- MCValue
    Disk0 <- MCDisk0
    Buf0 <- MCBuf0
    Images <- MCImages
SPECIFICATION Spec
INVARIANTS BootUntouched FlashConfined FlashExact DumpExact
