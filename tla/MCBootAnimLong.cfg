CONSTANTS
    Base = 2
    Files <- MCLong
SPECIFICATION Spec
INVARIANT LoopsUntilBoot
CHECK_DEADLOCK FALSE
