SPECIFICATION Spec
CONSTANTS
    c1 = c1
    c2 = c2
    Shell = "3.73"
    Copies <- MCCopies
    Names <- MCNames
    Wants <- MCWants
    Archives <- MCArchives
    MaxEntries = 3
    InSize = 2
    OutSize = 3
    Block = 5
    MaxBack = 14
    Layouts <- MCLayouts
INVARIANT SuccessIsWhole
SYMMETRY Symm
CHECK_DEADLOCK FALSE
