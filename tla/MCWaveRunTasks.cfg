\* Two nodes without an edge, for two tasks of which one depends on the other.
SPECIFICATION Spec
CONSTANTS
    Paths <- MCPaths
    Contents <- MCContents
    Plans <- TaskPlans
    Workers = {1, 2}
    MaxLapses = 0
INVARIANTS
    TaskOrderKept
CHECK_DEADLOCK FALSE
