\* Two tuples, two waiting takes, one renewal of a lease: a tuple goes through
\* several generations, timers go stale, waiters of both patterns compete.
SPECIFICATION Spec
CONSTANTS
    Tuples <- MCTuples
    Patterns <- MCPatterns
    AllowedKinds <- MCKinds
    MaxTuples = 2
    MaxGen = 1
    MaxWaits = 2
    MaxRenews = 1
INVARIANTS
    TuplesAreKept
    AckIsNewestClaim
    WaitersAreServed
PROPERTIES
    RightsAreKept
    ImplementsBoard
CHECK_DEADLOCK FALSE
