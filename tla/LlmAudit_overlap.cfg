SPECIFICATION Spec
CONSTANTS
    Requests = {"a", "b"}
    Maintenance = "cleanup"
    Length <- CellsOf
    Rotate = 4
    MaxSegments = 2
    Workloads <- Undisturbed
INVARIANTS LocatorsReadable
CHECK_DEADLOCK FALSE
