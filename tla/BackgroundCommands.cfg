CONSTANTS
    Commands = {"c1", "c2"}
    Workspaces = {"w"}
    WorkspaceOf <- OneWorkspace
    MaxActive = 1
    Workloads <- RaceAndLife
SPECIFICATION FairSpec
INVARIANTS PendingExact SlotLimit DrainedWhenDone StatusExplained
PROPERTIES WorkspaceStopEnds
