CONSTANT CustomPaths <- MCCustomPaths
SPECIFICATION Spec
INVARIANT MountedPathCurrent
CHECK_DEADLOCK FALSE
