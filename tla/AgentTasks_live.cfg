CONSTANTS
    NoTask = "no task"
    Tasks = {"parent", "child"}
    Instances = {"boss", "worker"}
    OwnerOf <- MCOwner
    ParentOf <- MCParent
    Incarnations = {1, 2}
    Workloads <- DrainingOnly
SPECIFICATION FairSpec
CHECK_DEADLOCK FALSE
PROPERTIES SatisfiedWaitEnds
