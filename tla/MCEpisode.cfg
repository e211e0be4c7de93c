\* Every way to be judged, three turns, two jobs in one run directory, the second after one
\* that ended in its first turn, and one kill.
SPECIFICATION FairSpec
CONSTANTS
    NoFile = NoFile
    NoWord = NoWord
    Same = Same
    Plans <- MCPlans
    Blank <- Owned
    Given <- Hidden
    Modes <- MCModes
    MaxTurns = 3
    MaxJobs = 2
    MaxBefore = 0
    MaxKills = 1
INVARIANTS
    SuccessIsReal
    
    LedgerIsOneJobs
PROPERTIES
    JudgeIsSettled
    BlockedAreRepeats
    JobEnds
CHECK_DEADLOCK FALSE
