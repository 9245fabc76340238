CONSTANTS
    Clients = {"client"}
    Messages = {"m1", "m2"}
    Children = {"child"}
    Capacity = 1
    BatchLimit = 2
    Workloads <- AllWork
SPECIFICATION FairSpec
INVARIANTS LossOnlyByOvertaking ConsumedOnce NoneStranded ConsumedIsTold
PROPERTIES StreamEnds
CHECK_DEADLOCK FALSE
