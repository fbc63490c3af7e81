SPECIFICATION ASpec
CONSTANTS
    MaxFrames = 3
    MaxRuns = 2
    Sizes = {1, 2}
    Hooks = {0, 1, 2, 3, 4, 5}
    MaxCores = 1
    Refused = {}
    Anims = {1, 2}
    Default = 1
    Own = 2
    MaxSessions = 2
    MaxFaults = 2
INVARIANT OwnFrames
INVARIANT Walkable
INVARIANT LinesKept
INVARIANT DoneIsInstalled
INVARIANT SettingsTrue
CHECK_DEADLOCK FALSE
