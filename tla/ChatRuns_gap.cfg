CONSTANTS
    Clients = {"client"}
    Messages = {}
    Children = {"child"}
    Capacity = 2
    BatchLimit = 2
    Workloads <- TeamOnly
SPECIFICATION Spec
INVARIANTS PersistedRowsReplayed
CHECK_DEADLOCK FALSE
