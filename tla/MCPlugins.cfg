SPECIFICATION PSpec
SYMMETRY Symmetry
CONSTANTS
    T1 = T1
    T2 = T2
    Threads <- MCThreads
    BootEnd = 2
    SecondLo = 2
    SecondHi = 4
    LastSector = 3
    Counts = {0, 1, 2}
    c1 = c1
    c2 = c2
    Core <- MCCore
    MaxLines = 14
    t0 = t0
    t1 = t1
    t2 = t2
    Thread <- MCUserThread
    Tester = t0
    Index = {0, 1}
    Tested = 0
    MaxUid = 2
    dialog = dialog
    other = other
    Proc <- MCProc
    Dialog = dialog
    Hooks = {0, 1, 2, 3, 4, 5, 6}
    MaxCores = 2
    Target = {0, 3}
    Refused = {1, 3}
INVARIANTS ReadExact PosHeals NoStaleEntry TableExact HooksPaired LoadedOnce
PROPERTY SecondRegionReachedFromGap
CHECK_DEADLOCK FALSE
