\* One tuple, two generations beyond the first, two waiting takes and a renewal, with the
\* runtime's fairness only: what happens to a claim or a waiter whose process does nothing.
SPECIFICATION FairSpec
CONSTANTS
    Tuples <- MCTuples
    Patterns <- MCPatterns
    AllowedKinds <- MCKinds
    MaxTuples = 1
    MaxGen = 2
    MaxWaits = 2
    MaxRenews = 1
PROPERTIES
    ClaimsAndWaitersEnd
CHECK_DEADLOCK FALSE
