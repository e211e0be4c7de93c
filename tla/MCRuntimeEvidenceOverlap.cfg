\* Two start-ups of the provider at once, with a single fault.
SPECIFICATION Spec
CONSTANTS
    Names <- MCNames
    Canned <- MCCanned
    Prefix <- MCPrefix
    Parent <- MCParent
    Fork <- MCFork
    CheckpointIndex = 1
    Replays = 1
    MaxFaults = 1
    Providers = {1, 2}
INVARIANTS
    ProviderLogVerifies
CHECK_DEADLOCK FALSE
