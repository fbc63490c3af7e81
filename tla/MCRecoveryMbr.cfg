CONSTANT CustomPaths <- MCCustomPaths
SPECIFICATION Spec
INVARIANT MbrDumpIsMbr
CHECK_DEADLOCK FALSE
