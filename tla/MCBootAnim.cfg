CONSTANTS
    Base = 2
    Files <- MCFiles
SPECIFICATION Spec
INVARIANTS BlocksHeld TurnsToWhole PlaysThrough EndsWithLogo
PROPERTIES FramesInOrder EndsWhenTold
CHECK_DEADLOCK FALSE
