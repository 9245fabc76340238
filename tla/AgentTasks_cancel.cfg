CONSTANTS
    NoTask = "no task"
    Tasks = {"parent", "child", "other"}
    Instances = {"boss", "worker"}
    OwnerOf <- MCOwner
    ParentOf <- MCParent
    Incarnations = {1}
    Workloads <- FamilyOnly
SPECIFICATION Spec
CHECK_DEADLOCK FALSE
INVARIANTS SubtreeCancellable
