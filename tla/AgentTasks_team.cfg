CONSTANTS
    NoTask = "no task"
    Tasks = {"parent", "child", "leaf", "second"}
    Instances = {"boss", "worker", "helper"}
    OwnerOf <- MCOwner
    ParentOf <- MCParent
    Incarnations = {1, 2}
    Workloads <- TeamWork
SPECIFICATION Spec
CHECK_DEADLOCK FALSE
INVARIANTS AttemptsMatch TeamCapacity
PROPERTIES FencedRuns RenewedNotInterrupted SubtreeSealed
