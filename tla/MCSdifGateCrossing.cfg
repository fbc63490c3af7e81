CONSTANTS
    Threads = {T1, T2}
    BootEnd = 2
    SecondLo = 2
    SecondHi = 4
    LastSector = 4
    Counts = {0, 1, 2}
SPECIFICATION Spec
SYMMETRY Symmetry
INVARIANT BootSectorsNeedAsking
CHECK_DEADLOCK TRUE
