\* Every straight program of up to three tokens, and small ones with words and branches.
SPECIFICATION Spec
CONSTANTS
    Programs <- MCPrograms
    Grants <- MCGrants
    Artifacts <- MCArtifacts
    Before <- MCBefore
    CriticPath <- MCCriticPath
    HostPath <- MCHostPath
    Policies <- MCPolicies
    Skipped <- MCSkipped
    Manifests <- MCManifests
    Discharge <- MCDischarge
    Receipts <- MCReceipts
    Record <- MCRecord
    MaxFrames = 4
INVARIANT CriticIsExact
 
INVARIANT CallsAreInlined
CHECK_DEADLOCK FALSE
