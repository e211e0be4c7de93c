\* Two threads, two tuples and two calls; leases and deadlines of one tick.
SPECIFICATION FairSpec
CONSTANTS
    Workers = {w1, w2}
    Tuples <- MCTuples
    Patterns <- MCPatterns
    Forever = Forever
    Lease = 1
    Timeouts = {0, 1, Forever}
    MaxCalls = 2
INVARIANTS
    TuplesAreKept
    WaitersAreServed
PROPERTIES
    OldestFirst
    ImplementsBoards
    CallsReturn
