SPECIFICATION Spec
CONSTANT NumNodes = 4
INVARIANT CleanupExact
CHECK_DEADLOCK FALSE
