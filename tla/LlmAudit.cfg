SPECIFICATION Spec
CONSTANTS
    Requests = {"a", "b"}
    Maintenance = "cleanup"
    Length <- CellsOf
    Rotate = 4
    MaxSegments = 3
    Workloads <- MCWorkloads
INVARIANTS LossExplained RefusedOnlyByTornCreation LegacyKept RollupMatches
PROPERTIES FirstCaptureWins
CHECK_DEADLOCK FALSE
