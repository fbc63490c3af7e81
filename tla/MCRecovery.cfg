CONSTANT CustomPaths <- MCCustomPaths
SPECIFICATION Spec
INVARIANTS SessionMatches BootWriteArmed DriverRestored
PROPERTIES SyncBeforeStop CommandReturns MediumExclusive
CHECK_DEADLOCK FALSE
