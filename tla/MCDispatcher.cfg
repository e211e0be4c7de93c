\* Two faults among two dispatchers: late leases, crashed tasks and dispatchers. The
\* fairness is that of the runtime: nobody restarts a dispatcher.
SPECIFICATION FairSpec
CONSTANTS
    j1 = j1
    j2 = j2
    d1 = d1
    d2 = d2
    Jobs <- MCJobs
    Refused <- MCRefused
    Dispatchers <- MCDispatchers
    MaxFaults = 2
INVARIANTS
    ClaimsAreTracked
    OneWorkerOneOutcome
PROPERTIES
    ToldWhenIdle
    ClaimsEnd
CHECK_DEADLOCK FALSE
