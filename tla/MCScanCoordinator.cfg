CONSTANTS
    Names <- MCNames
    Paths <- MCPaths
    ScanRoots <- MCScanRoots
    MaxEvents = 3
    MaxRepairs = 1
    MaxFailures = 1
SPECIFICATION Spec
CHECK_DEADLOCK FALSE
INVARIANTS QueueSound ChangesHeld
PROPERTY RequestsEnd
