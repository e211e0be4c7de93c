\* Two turns, two lines on stderr, two instants, one interrupt.
SPECIFICATION FairRequest
CONSTANTS
    never = never
    Never = never
    Requests <- MCRequests
    Required = TRUE
    MaxCalls = 2
    MaxClock = 1
    MaxLines = 2
    Interrupts = TRUE
INVARIANT ReaderAgrees
PROPERTY RequestEnds
CHECK_DEADLOCK FALSE
