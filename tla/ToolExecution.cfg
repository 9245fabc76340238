CONSTANTS
    PathKey <- MCPathKey
    Runs <- AllRuns
    MaxCalls = 3
    Batches <- MCBatches
    WorkspaceOf <- TwoWorkspaces
    Rewrites <- PatchToWrite
SPECIFICATION FairSpec
INVARIANTS BatchOrder LeasesExclude NoLostWakeup WorkersExclude
PROPERTIES BatchCompletes
CHECK_DEADLOCK FALSE
