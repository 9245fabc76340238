CONSTANTS
    Tasks = {t1}
    SkipTasks = {t1}
    Callers = {c1}
    Scheduler = scheduler
    Schedules <- Anchored
    Failing = {"touch", "link", "mark_failed", "sync_write", "mark_cancelled"}
    AgentMoves <- RunsThrough
    Unit = 2
    Instants = {0, 1}
    MaxTime = 3
    MaxRuns = 4
    MaxAgents = 3
    MaxCalls = 1
    MaxFaults = 1
    ScanLimit = 1
    Retention = 0
SPECIFICATION FairSpec
INVARIANTS OccurrenceOnce DispatchBound NoOverlap CancelledStops NextRunExact
PROPERTIES CatchesUp
