\* Two kills anywhere, or one and a start-up timeout; the run is resumed and completes.
SPECIFICATION FairSpec
CONSTANTS
    Names <- MCNames
    Canned <- MCCanned
    Prefix <- MCPrefix
    Parent <- MCParent
    Fork <- MCFork
    CheckpointIndex = 1
    Replays = 1
    MaxFaults = 2
    Providers = {1, 2, 3}
INVARIANTS
    JournalIsSound
    OnceUnlessOverlapped
    Reproducible
    VerdictIsExact
PROPERTIES
    CheckpointIsSettled
    ImplementsProtocol
    RunCompletes
CHECK_DEADLOCK FALSE
