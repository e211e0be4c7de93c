\* Every graph of three nodes, and the plans that share, copy and trap; two leases that
\* run out, or workers that die.
SPECIFICATION FairSpec
CONSTANTS
    Paths <- MCPaths
    Contents <- MCContents
    Plans <- MCPlans
    Workers = {1, 2}
    MaxLapses = 2
INVARIANTS
    PlanCarriedOut
    LateIsFenced
    SameAsSerial
PROPERTIES
    RunEnds
CHECK_DEADLOCK FALSE
