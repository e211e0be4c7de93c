\* One planner of the Python harness and one of the BEAM host share a session, beside one
\* with a key; two grants, one fault, one write of the grok CLI.
SPECIFICATION PlannerSpec
CONSTANTS
    Python = {p1}
    Beam = {b1}
    Keyed = {k1}
    Empty = Empty
    Torn = Torn
    None = None
    Replies <- MCReplies
    MaxGrants = 2
    MaxFaults = 1
    MaxWrites = 1
INVARIANTS
    SessionIsKept
    OthersAreKept
    HarnessParses
CHECK_DEADLOCK FALSE
