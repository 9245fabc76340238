--------------------------- MODULE ScheduledTasks ---------------------------
(***************************************************************************)
(* Scheduled tasks of one workspace: the scheduler loop of                 *)
(* app/scheduled_tasks/scheduler.rs, the HTTP handlers that create, edit,  *)
(* run, cancel and read tasks and runs, and the tables they share.         *)
(*                                                                         *)
(* Every database statement or transaction is one action; between two of   *)
(* them the other actors move, since the workspace gate admits two         *)
(* ordinary handles at a time.  A handler keeps the rows it read in loc    *)
(* and writes them back whole, as update_scheduled_task and                *)
(* update_scheduled_task_run do.                                           *)
(***************************************************************************)
EXTENDS Integers, FiniteSets

CONSTANTS Tasks,          \* ids of scheduled tasks
          SkipTasks,      \* the tasks whose policy is SkipIfRunning
          Callers,        \* concurrent HTTP requests and Agent-side syncs
          Scheduler,      \* the scheduler loop, of which there is one
          Schedules,      \* the ScheduleSpecs in use
          Failing,        \* the statements of pc at which a call may fail
          AgentMoves,     \* <<from, to>>: transitions of Agent tasks in play
          Unit,           \* ticks of the clock per second
          Instants,       \* the times at which something happens
          MaxTime,        \* the last of them
          MaxRuns,        \* bound on scheduled_task_runs rows
          MaxAgents,      \* bound on Agent tasks
          MaxCalls,       \* bound on requests and changes of settings
          MaxFaults,      \* bound on restarts, failing calls, deleted tasks
          ScanLimit,      \* SCHEDULED_TASK_SCAN_LIMIT
          Retention       \* SCHEDULED_TASK_RUN_RETENTION_DAYS

ASSUME BoundsAssumption ==
    /\ {Unit, ScanLimit} \subseteq Nat \ {0} /\ Retention \in Nat
    /\ Instants \subseteq 0 .. MaxTime
    /\ {MaxTime, MaxRuns, MaxAgents, MaxCalls, MaxFaults} \subseteq Nat
    /\ Scheduler \notin Callers
    /\ SkipTasks \subseteq Tasks

None == -1                     \* a column that is NULL
ASSUME TasksAssumption == None \notin Tasks

\* An interval has at least a second; the clock starts before every start_at.
ASSUME SchedulesAssumption ==
    \A s \in Schedules :
        /\ s.kind \in {"interval", "once"} /\ s.every \in Nat /\ s.at \in Nat \cup {None}
        /\ s.kind = "interval" => s.every > 0
Times == 0 .. MaxTime
RunIds == 1 .. MaxRuns
AgentIds == 1 .. MaxAgents
Actors == Callers \cup {Scheduler}

Terminal == {"succeeded", "failed", "cancelled", "skipped"}
ActiveStatuses == {"pending", "queued", "running"}
AgentTerminal == {"completed", "failed", "cancelled", "interrupted"}
AgentLive == {"queued", "running", "waiting"}
ASSUME MovesAssumption ==
    AgentMoves \subseteq (AgentLive \cup AgentTerminal) \X (AgentLive \cup AgentTerminal)

(***************************************************************************)
(* next_run_after and interval_next_run.  Clock ticks are fractions of a   *)
(* second; num_seconds truncates the elapsed time to whole seconds.        *)
(***************************************************************************)
IntervalNextRunRoundingUp(every, at, n) ==
    LET anchor  == IF at = None THEN n + every * Unit ELSE at
        elapsed == (n - anchor) \div Unit
        periods == (elapsed + every - 1) \div every
    IN  IF anchor > n THEN anchor ELSE anchor + periods * every * Unit

IntervalNextRun(every, at, n) ==
    LET anchor  == IF at = None THEN n + every * Unit ELSE at
        elapsed == (n - anchor) \div Unit
        periods == elapsed \div every + 1
    IN  IF anchor > n THEN anchor ELSE anchor + periods * every * Unit

NextRunAfter(s, n) ==
    IF s.kind = "interval" THEN IntervalNextRun(s.every, s.at, n)
    ELSE IF s.at > n THEN s.at ELSE None

(* task_next_run_at: only an enabled task has a next run. *)
TaskNextRunAt(s, status, n) ==
    IF status = "enabled" THEN NextRunAfter(s, n) ELSE None

VARIABLES
    now,      \* Utc::now()
    tasks,    \* table scheduled_tasks: [status, next, sched]
    broken,   \* tasks for which scheduled_queue_input fails
    runs,     \* table scheduled_task_runs
    agents,   \* the Agent tasks that queued messages created: [run, status,
              \* end]; run is the run it was queued for, None once it is lost
    pc,       \* pc[a]: the next statement of actor a
    loc,      \* loc[a]: the rows and ids a holds
    sched,    \* the locals of dispatch_due_scheduled_tasks
    calls,    \* requests and changes of settings so far
    faults,   \* restarts, failing calls and deleted tasks so far
    rewound,  \* <<t, at>>: claimed, then written back as t's next run
    torn,     \* runs whose cancellation overlapped their dispatch
    revived   \* Agent tasks that were retried or recovered after they had ended

history == <<rewound, torn, revived>>
vars == <<now, tasks, broken, runs, agents, pc, loc, sched, calls, faults, history>>

NoSchedule == [kind |-> "none", every |-> 0, at |-> None]
NoTask == [status |-> "absent", next |-> None, sched |-> NoSchedule]
NoRun == [task |-> None, trigger |-> "none", status |-> "absent", at |-> None,
          agent |-> None, done |-> None]
NoAgent == [run |-> None, status |-> "absent", end |-> None]
Idle == [op |-> "none", task |-> None, row |-> NoTask, run |-> None,
         snap |-> NoRun, agent |-> None]
NoScan == [phase |-> "idle", todo |-> <<>>, at |-> None, left |-> 0]

Init ==
    /\ now = 0
    /\ tasks = [t \in Tasks |-> NoTask]
    /\ broken = {}
    /\ runs = [r \in RunIds |-> NoRun]
    /\ agents = [x \in AgentIds |-> NoAgent]
    /\ pc = [a \in Actors |-> "idle"]
    /\ loc = [a \in Actors |-> Idle]
    /\ sched = NoScan
    /\ calls = 0 /\ faults = 0
    /\ rewound = {} /\ torn = {} /\ revived = {}

TaskExists(t) == tasks[t].status \notin {"absent", "deleted"}
RunExists(r) == runs[r].status \notin {"absent", "deleted"}
AgentExists(x) == agents[x].status \notin {"absent", "gone"}
AgentsOf(r) == {x \in AgentIds : agents[x].run = r}
ActiveRuns == {r \in RunIds : runs[r].status \in ActiveStatuses}
FreeRuns == {r \in RunIds : runs[r].status = "absent"}
FreeAgents == {x \in AgentIds : agents[x].status = "absent"}
NewRun == CHOOSE r \in FreeRuns : \A q \in FreeRuns : r <= q
NewAgent == CHOOSE x \in FreeAgents : \A y \in FreeAgents : x <= y

(* The occurrences of t that a claim has turned into a run. *)
Claimed(t) ==
    {runs[r].at : r \in {q \in RunIds : /\ runs[q].task = t
                                        /\ runs[q].trigger = "scheduled"}}

(***************************************************************************)
(* Where an actor goes when a helper returns, and when it returns Err.     *)
(***************************************************************************)
Back(a) ==
    IF a = Scheduler THEN sched.phase ELSE IF loc[a].op = "cancel" THEN "cancel" ELSE "idle"

Goto(a, label, l) ==
    /\ pc' = [pc EXCEPT ![a] = label]
    /\ loc' = [loc EXCEPT ![a] = IF label \in {"idle", "reconcile", "due"} THEN Idle ELSE l]

Abort(a) ==
    /\ Goto(a, "idle", Idle)
    /\ sched' = IF a = Scheduler THEN NoScan ELSE sched

(* update_scheduled_task_run: overwrites the whole row; fails when the row *)
(* is gone or the Agent task it names is (foreign key).                    *)
CanWrite(r, row) == RunExists(r) /\ (row.agent # None => AgentExists(row.agent))

UpdateRun(a, row) ==
    LET r == loc[a].run
        l == [loc[a] EXCEPT !.snap = row]
    IN  \/ /\ CanWrite(r, row)
           /\ runs' = [runs EXCEPT ![r] = row]
           /\ Goto(a, Back(a), l)
           /\ UNCHANGED sched
        \/ /\ ~CanWrite(r, row)
           /\ Abort(a)
           /\ UNCHANGED runs

(* update_scheduled_task: overwrites the whole row; fails when it is gone. *)
UpdateTask(a, row, label) ==
    LET t == loc[a].task
    IN  \/ /\ TaskExists(t)
           /\ tasks' = [tasks EXCEPT ![t] = row]
           /\ rewound' = IF row.next \in Claimed(t)
                         THEN rewound \cup {<<t, row.next>>} ELSE rewound
           /\ Goto(a, label, loc[a])
           /\ UNCHANGED sched
        \/ /\ ~TaskExists(t)
           /\ Abort(a)
           /\ UNCHANGED <<tasks, rewound>>

-----------------------------------------------------------------------------
(***************************************************************************)
(* A call fails: the gated open of the workspace database times out, or    *)
(* the statement does.  Nothing is written, and ? returns the error.       *)
(***************************************************************************)
(* An Agent task is lost when what queued it ends before it links the run  *)
(* to it: nothing else knows both.                                         *)
Lost(actors) ==
    [x \in AgentIds |->
        IF \E a \in actors : pc[a] = "link" /\ loc[a].agent = x
        THEN [agents[x] EXCEPT !.run = None] ELSE agents[x]]

CallFails(a) ==
    /\ pc[a] \in Failing \ {"idle"} /\ faults < MaxFaults
    /\ faults' = faults + 1
    /\ agents' = Lost({a})
    /\ Abort(a)
    /\ UNCHANGED <<now, tasks, broken, runs, calls, history>>

-----------------------------------------------------------------------------
(***************************************************************************)
(* dispatch_scheduled_task_run: build the input, queue the message, write  *)
(* the run back with the link to its Agent task.                           *)
(***************************************************************************)
(* scheduled_queue_input(...)? : the run stays pending. *)
QueueInputFails(a) ==
    /\ pc[a] = "dispatch" /\ loc[a].task \in broken
    /\ Abort(a)
    /\ UNCHANGED <<now, tasks, broken, runs, agents, calls, faults, history>>

QueueMessage(a) ==
    /\ pc[a] = "dispatch" /\ loc[a].task \notin broken
    /\ FreeAgents # {}
    /\ agents' = [agents EXCEPT ![NewAgent] =
                    [run |-> loc[a].run, status |-> "queued", end |-> None]]
    /\ Goto(a, "link", [loc[a] EXCEPT !.agent = NewAgent])
    /\ UNCHANGED <<now, tasks, broken, runs, sched, calls, faults, history>>

QueueFails(a) ==
    /\ pc[a] = "dispatch" /\ loc[a].task \notin broken
    /\ Goto(a, "mark_failed", loc[a])
    /\ UNCHANGED <<now, tasks, broken, runs, agents, sched, calls, faults, history>>

LinkRun(a) ==
    /\ pc[a] = "link"
    /\ UpdateRun(a, [loc[a].snap EXCEPT !.status = "queued", !.done = None,
                                        !.agent = loc[a].agent])
    /\ UNCHANGED <<now, tasks, broken, agents, calls, faults, history>>

(* mark_scheduled_run_failed_in_database *)
MarkFailed(a) ==
    /\ pc[a] = "mark_failed"
    /\ UpdateRun(a, [loc[a].snap EXCEPT !.status = "failed", !.done = now])
    /\ UNCHANGED <<now, tasks, broken, agents, calls, faults, history>>

-----------------------------------------------------------------------------
(***************************************************************************)
(* sync_scheduled_task_run: read the linked Agent task, then write the run *)
(* if that changes it.  A new attempt of a started Agent task changes a    *)
(* column the model leaves out, so the write may also repeat the status.   *)
(***************************************************************************)
StatusForAgentTask(status) ==
    CASE status = "queued"                    -> "queued"
      [] status \in {"running", "waiting"}    -> "running"
      [] status = "completed"                 -> "succeeded"
      [] status \in {"failed", "interrupted"} -> "failed"
      [] status = "cancelled"                 -> "cancelled"

SyncRead(a) ==
    /\ pc[a] = "sync"
    /\ LET s == loc[a].snap
           x == agents[s.agent]
           new == [s EXCEPT !.status = StatusForAgentTask(x.status), !.done = x.end]
       IN  \/ /\ s.agent = None
              /\ Goto(a, Back(a), loc[a])
           \/ /\ s.agent # None /\ ~AgentExists(s.agent)
              /\ Goto(a, IF s.status \in Terminal THEN Back(a) ELSE "mark_failed", loc[a])
           \/ /\ s.agent # None /\ AgentExists(s.agent)
              /\ new = s
              /\ Goto(a, Back(a), loc[a])
           \/ /\ s.agent # None /\ AgentExists(s.agent)
              /\ new # s \/ x.status \in {"running", "waiting"}
              /\ Goto(a, "sync_write", [loc[a] EXCEPT !.snap = new])
    /\ UNCHANGED <<now, tasks, broken, runs, agents, sched, calls, faults, history>>

SyncWrite(a) ==
    /\ pc[a] = "sync_write"
    /\ UpdateRun(a, loc[a].snap)
    /\ UNCHANGED <<now, tasks, broken, agents, calls, faults, history>>

-----------------------------------------------------------------------------
(***************************************************************************)
(* The scheduler loop.  A scan is started by the timer, at most five       *)
(* minutes away, or by a wake; it reconciles, prunes and claims.           *)
(***************************************************************************)
ScanStart ==
    /\ pc[Scheduler] = "idle"
    /\ pc' = [pc EXCEPT ![Scheduler] = "reconcile"]
    /\ sched' = [NoScan EXCEPT !.phase = "reconcile",
                               !.todo = [r \in ActiveRuns |-> runs[r]]]
    /\ UNCHANGED <<now, tasks, broken, runs, agents, loc, calls, faults, history>>

(* active_scheduled_task_runs orders by scheduled_at, then creation. *)
Before(r, q, todo) ==
    \/ todo[r].at < todo[q].at
    \/ todo[r].at = todo[q].at /\ r <= q

FirstRun(todo) ==
    CHOOSE r \in DOMAIN todo : \A q \in DOMAIN todo : Before(r, q, todo)

ReconcileRunRetryingQueued ==
    /\ pc[Scheduler] = "reconcile" /\ DOMAIN sched.todo # {}
    /\ LET r == FirstRun(sched.todo)
           s == sched.todo[r]
           label == IF s.status # "running" /\ TaskExists(s.task) THEN "dispatch" ELSE "sync"
       IN  /\ sched' = [sched EXCEPT !.todo =
                          [q \in DOMAIN sched.todo \ {r} |-> sched.todo[q]]]
           /\ Goto(Scheduler, label, [Idle EXCEPT !.task = s.task, !.run = r, !.snap = s])
    /\ UNCHANGED <<now, tasks, broken, runs, agents, calls, faults, history>>

ReconcileRunSyncOnly ==
    /\ pc[Scheduler] = "reconcile" /\ DOMAIN sched.todo # {}
    /\ LET r == FirstRun(sched.todo)
           s == sched.todo[r]
       IN  /\ sched' = [sched EXCEPT !.todo =
                          [q \in DOMAIN sched.todo \ {r} |-> sched.todo[q]]]
           /\ Goto(Scheduler, "sync", [Idle EXCEPT !.task = s.task, !.run = r, !.snap = s])
    /\ UNCHANGED <<now, tasks, broken, runs, agents, calls, faults, history>>

ReconcileRun ==
    /\ pc[Scheduler] = "reconcile" /\ DOMAIN sched.todo # {}
    /\ LET r == FirstRun(sched.todo)
           s == sched.todo[r]
           label == IF s.agent # None THEN "sync"
                    ELSE IF s.status = "pending" /\ TaskExists(s.task) THEN "dispatch"
                    ELSE "mark_failed"
       IN  /\ sched' = [sched EXCEPT !.todo =
                          [q \in DOMAIN sched.todo \ {r} |-> sched.todo[q]]]
           /\ Goto(Scheduler, label, [Idle EXCEPT !.task = s.task, !.run = r, !.snap = s])
    /\ UNCHANGED <<now, tasks, broken, runs, agents, calls, faults, history>>

(* prune_old_scheduled_task_runs, then the time the claims are made at. *)
Expired(r) ==
    /\ runs[r].status \in Terminal
    /\ runs[r].done # None
    /\ runs[r].done < now - Retention

ReconcileDone ==
    /\ pc[Scheduler] = "reconcile" /\ DOMAIN sched.todo = {}
    /\ runs' = [r \in RunIds |->
                  IF Expired(r) THEN [runs[r] EXCEPT !.status = "deleted"] ELSE runs[r]]
    /\ sched' = [NoScan EXCEPT !.phase = "due", !.at = now, !.left = ScanLimit]
    /\ pc' = [pc EXCEPT ![Scheduler] = "due"]
    /\ UNCHANGED <<now, tasks, broken, agents, loc, calls, faults, history>>

Due(t, n) ==
    /\ tasks[t].status = "enabled"
    /\ tasks[t].next # None
    /\ tasks[t].next <= n

(* next_due_task finds one of the due tasks. *)
DueRead(t) ==
    /\ pc[Scheduler] = "due" /\ sched.left > 0
    /\ Due(t, sched.at)
    /\ Goto(Scheduler, "count", [Idle EXCEPT !.task = t, !.row = tasks[t]])
    /\ sched' = [sched EXCEPT !.left = @ - 1]
    /\ UNCHANGED <<now, tasks, broken, runs, agents, calls, faults, history>>

ScanDone ==
    /\ pc[Scheduler] = "due"
    /\ sched.left = 0 \/ ~\E t \in Tasks : Due(t, sched.at)
    /\ Abort(Scheduler)
    /\ UNCHANGED <<now, tasks, broken, runs, agents, calls, faults, history>>

(* active_scheduled_task_run_count decides between a run and a skip. *)
CountActiveUnstarted ==
    /\ pc[Scheduler] = "count"
    /\ LET t == loc[Scheduler].task
           skip == /\ t \in SkipTasks
                   /\ \E r \in ActiveRuns : runs[r].task = t /\ runs[r].status # "running"
       IN  Goto(Scheduler, "claim",
                [loc[Scheduler] EXCEPT !.op = IF skip THEN "skipped" ELSE "pending"])
    /\ UNCHANGED <<now, tasks, broken, runs, agents, sched, calls, faults, history>>

CountActive ==
    /\ pc[Scheduler] = "count"
    /\ LET t == loc[Scheduler].task
           skip == /\ t \in SkipTasks
                   /\ \E r \in ActiveRuns : runs[r].task = t
       IN  Goto(Scheduler, "claim",
                [loc[Scheduler] EXCEPT !.op = IF skip THEN "skipped" ELSE "pending"])
    /\ UNCHANGED <<now, tasks, broken, runs, agents, sched, calls, faults, history>>

(* claim_due_scheduled_task_run: compare status and next_run_at, advance   *)
(* the task and insert the run, in one transaction.                        *)
ClaimMatches(t, row) ==
    /\ tasks[t].status = "enabled"
    /\ tasks[t].next = row.next

ClaimLeavingSkippedDue ==
    /\ pc[Scheduler] = "claim"
    /\ LET l    == loc[Scheduler]
           next == IF l.op = "skipped" THEN l.row.next ELSE NextRunAfter(l.row.sched, sched.at)
           run  == [task |-> l.task, trigger |-> "scheduled", status |-> l.op,
                    at |-> l.row.next, agent |-> None,
                    done |-> IF l.op = "skipped" THEN sched.at ELSE None]
       IN  \/ /\ ClaimMatches(l.task, l.row)
              /\ FreeRuns # {}
              /\ tasks' = [tasks EXCEPT ![l.task].next = next,
                             ![l.task].status = IF next = None THEN "completed" ELSE "enabled"]
              /\ runs' = [runs EXCEPT ![NewRun] = run]
              /\ Goto(Scheduler, IF l.op = "pending" THEN "dispatch" ELSE "due",
                      [Idle EXCEPT !.task = l.task, !.run = NewRun, !.snap = run])
           \/ /\ ~ClaimMatches(l.task, l.row)
              /\ Goto(Scheduler, "due", Idle)
              /\ UNCHANGED <<tasks, runs>>
    /\ UNCHANGED <<now, broken, agents, sched, calls, faults, history>>

Claim ==
    /\ pc[Scheduler] = "claim"
    /\ LET l    == loc[Scheduler]
           next == NextRunAfter(l.row.sched, sched.at)
           run  == [task |-> l.task, trigger |-> "scheduled", status |-> l.op,
                    at |-> l.row.next, agent |-> None,
                    done |-> IF l.op = "skipped" THEN sched.at ELSE None]
       IN  \/ /\ ClaimMatches(l.task, l.row)
              /\ FreeRuns # {}
              /\ tasks' = [tasks EXCEPT ![l.task].next = next,
                             ![l.task].status = IF next = None THEN "completed" ELSE "enabled"]
              /\ runs' = [runs EXCEPT ![NewRun] = run]
              /\ Goto(Scheduler, IF l.op = "pending" THEN "dispatch" ELSE "due",
                      [Idle EXCEPT !.task = l.task, !.run = NewRun, !.snap = run])
           \/ /\ ~ClaimMatches(l.task, l.row)
              /\ Goto(Scheduler, "due", Idle)
              /\ UNCHANGED <<tasks, runs>>
    /\ UNCHANGED <<now, broken, agents, sched, calls, faults, history>>

-----------------------------------------------------------------------------
(***************************************************************************)
(* HTTP handlers.                                                          *)
(***************************************************************************)
Called(c) == /\ pc[c] = "idle"
             /\ calls < MaxCalls
             /\ calls' = calls + 1

(* create_scheduled_task; duplicate_scheduled_task inserts a paused copy. *)
CreateTask(t, s, status) ==
    /\ tasks[t].status = "absent"
    /\ tasks' = [tasks EXCEPT ![t] = [status |-> status, sched |-> s,
                                      next |-> TaskNextRunAt(s, status, now)]]
    /\ UNCHANGED <<now, broken, runs, agents, pc, loc, sched, calls, faults, history>>

(* delete_scheduled_task: the runs go with the task (ON DELETE CASCADE). *)
DeleteTask(t) ==
    /\ TaskExists(t) /\ faults < MaxFaults
    /\ tasks' = [tasks EXCEPT ![t] = [NoTask EXCEPT !.status = "deleted"]]
    /\ runs' = [r \in RunIds |->
                  IF runs[r].task = t THEN [runs[r] EXCEPT !.status = "deleted"] ELSE runs[r]]
    /\ faults' = faults + 1
    /\ UNCHANGED <<now, broken, agents, pc, loc, sched, calls, history>>

(* set_scheduled_task_status (pause, resume, archive) and                  *)
(* update_scheduled_task read the row, compute, and write it back.         *)
SetStatus(row, status) ==
    [row EXCEPT !.status = status, !.next = TaskNextRunAt(row.sched, status, now)]

Revise(row, s) ==
    [row EXCEPT !.sched = s,
                !.next = IF row.status # "enabled" THEN None
                         ELSE IF s # row.sched THEN TaskNextRunAt(s, row.status, now)
                         ELSE row.next]

EditRead(c, t) ==
    /\ Called(c) /\ TaskExists(t)
    /\ \/ \E status \in {"enabled", "paused", "archived"} :
            Goto(c, "edit", [Idle EXCEPT !.task = t, !.row = SetStatus(tasks[t], status)])
       \/ \E s \in Schedules :
            Goto(c, "edit", [Idle EXCEPT !.task = t, !.row = Revise(tasks[t], s)])
    /\ UNCHANGED <<now, tasks, broken, runs, agents, sched, faults, history>>

EditWrite(c) ==
    /\ pc[c] = "edit"
    /\ UpdateTask(c, loc[c].row, "idle")
    /\ UNCHANGED <<now, broken, runs, agents, calls, faults, torn, revived>>

(* run_scheduled_task_now: read the task, insert a manual run, write the   *)
(* task back with a new last_run_at, dispatch.                             *)
RunNowRead(c, t) ==
    /\ Called(c) /\ TaskExists(t) /\ tasks[t].status # "archived"
    /\ Goto(c, "insert", [Idle EXCEPT !.task = t, !.row = tasks[t]])
    /\ UNCHANGED <<now, tasks, broken, runs, agents, sched, faults, history>>

RunNowInsert(c) ==
    /\ pc[c] = "insert"
    /\ LET run == [task |-> loc[c].task, trigger |-> "manual", status |-> "pending",
                   at |-> now, agent |-> None, done |-> None]
       IN  \/ /\ TaskExists(loc[c].task)
              /\ FreeRuns # {}
              /\ runs' = [runs EXCEPT ![NewRun] = run]
              /\ Goto(c, "touch", [loc[c] EXCEPT !.run = NewRun, !.snap = run])
           \/ /\ ~TaskExists(loc[c].task)
              /\ Goto(c, "idle", Idle)
              /\ UNCHANGED runs
    /\ UNCHANGED <<now, tasks, broken, agents, sched, calls, faults, history>>

RunNowTouch(c) ==
    /\ pc[c] = "touch"
    /\ UpdateTask(c, loc[c].row, "dispatch")
    /\ UNCHANGED <<now, broken, runs, agents, calls, faults, torn, revived>>

(* A read of a run, or the Agent scheduler after a transition: one sync. *)
SyncCall(c, r) ==
    /\ Called(c) /\ RunExists(r) /\ runs[r].agent # None
    /\ Goto(c, "sync", [Idle EXCEPT !.op = "sync", !.run = r, !.snap = runs[r]])
    /\ UNCHANGED <<now, tasks, broken, runs, agents, sched, faults, history>>

(* cancel_scheduled_task_run: sync first, then act on what that returned. *)
CancelCall(c, r) ==
    /\ Called(c) /\ RunExists(r)
    /\ Goto(c, "sync", [Idle EXCEPT !.op = "cancel", !.run = r, !.snap = runs[r]])
    /\ UNCHANGED <<now, tasks, broken, runs, agents, sched, faults, history>>

CancelDecideRunOnly(c) ==
    /\ pc[c] = "cancel"
    /\ IF loc[c].snap.status \in Terminal
       THEN Goto(c, "idle", Idle)
       ELSE Goto(c, "mark_cancelled", [loc[c] EXCEPT !.op = "sync"])
    /\ UNCHANGED <<now, tasks, broken, runs, agents, sched, calls, faults, history>>

CancelDecide(c) ==
    /\ pc[c] = "cancel"
    /\ LET s == loc[c].snap
           l == [loc[c] EXCEPT !.op = "sync"]
       IN  \/ /\ \/ s.status \in Terminal
                 \/ s.agent # None /\ agents[s.agent].status \in {"gone", "waiting"}
              /\ Goto(c, "idle", Idle)
              /\ UNCHANGED agents
           \/ /\ s.status \notin Terminal /\ s.agent = None
              /\ Goto(c, "mark_cancelled", l)
              /\ UNCHANGED agents
           \/ /\ s.status \notin Terminal /\ s.agent # None
              /\ agents[s.agent].status \notin {"gone", "waiting"}
              /\ agents' = IF agents[s.agent].status = "queued"
                           THEN [agents EXCEPT ![s.agent].status = "cancelled",
                                               ![s.agent].end = now]
                           ELSE agents
              /\ Goto(c, "sync", l)
    /\ UNCHANGED <<now, tasks, broken, runs, sched, calls, faults, history>>

(* Some actor is about to dispatch r, or has read it as dispatchable. *)
Dispatching(r) ==
    \/ \E a \in Actors : /\ pc[a] \in {"touch", "dispatch", "link", "mark_failed"}
                         /\ loc[a].run = r
    \/ r \in DOMAIN sched.todo

(* mark_scheduled_run_cancelled *)
MarkCancelled(c) ==
    /\ pc[c] = "mark_cancelled"
    /\ LET r == loc[c].run IN
       torn' = IF Dispatching(r) \/ runs[r] # loc[c].snap THEN torn \cup {r} ELSE torn
    /\ UpdateRun(c, [loc[c].snap EXCEPT !.status = "cancelled", !.done = now])
    /\ UNCHANGED <<now, tasks, broken, agents, calls, faults, rewound, revived>>

-----------------------------------------------------------------------------
(***************************************************************************)
(* The rest of the system.                                                 *)
(***************************************************************************)
(* The Agent scheduler; a task that has ended moves when a user retries it, *)
(* or when an interrupted wait is recovered.  What a lost one does nothing  *)
(* here reads.                                                             *)
AgentMove(x) ==
    /\ agents[x].run # None
    /\ \E m \in AgentMoves :
         /\ agents[x].status = m[1]
         /\ agents' = [agents EXCEPT ![x].status = m[2],
                          ![x].end = IF m[2] \in AgentTerminal THEN now ELSE None]
    /\ IF agents[x].status \in AgentTerminal
         THEN calls < MaxCalls /\ calls' = calls + 1 /\ revived' = revived \cup {x}
         ELSE UNCHANGED <<calls, revived>>
    /\ UNCHANGED <<now, tasks, broken, runs, pc, loc, sched, faults, rewound, torn>>

(* The chat of an Agent task is deleted: agent_task_id is set to NULL. *)
DeleteChat(x) ==
    /\ AgentExists(x) /\ calls < MaxCalls
    /\ agents' = [agents EXCEPT ![x].status = "gone"]
    /\ runs' = [r \in RunIds |->
                  IF runs[r].agent = x THEN [runs[r] EXCEPT !.agent = None] ELSE runs[r]]
    /\ calls' = calls + 1
    /\ UNCHANGED <<now, tasks, broken, pc, loc, sched, faults, history>>

(* The AgentDefinition the action of t names is removed from the settings. *)
RemoveDefinition(t) ==
    /\ t \notin broken /\ TaskExists(t) /\ calls < MaxCalls
    /\ broken' = broken \cup {t}
    /\ calls' = calls + 1
    /\ UNCHANGED <<now, tasks, runs, agents, pc, loc, sched, faults, history>>

Tick ==
    /\ \E n \in Instants : n > now /\ now' = n
    /\ UNCHANGED <<tasks, broken, runs, agents, pc, loc, sched, calls, faults, history>>

Crash ==
    /\ faults < MaxFaults
    /\ faults' = faults + 1
    /\ pc' = [a \in Actors |-> "idle"]
    /\ loc' = [a \in Actors |-> Idle]
    /\ sched' = NoScan
    /\ agents' = Lost(Actors)
    /\ UNCHANGED <<now, tasks, broken, runs, calls, history>>

Step(a) ==
    \/ QueueInputFails(a) \/ QueueMessage(a) \/ QueueFails(a) \/ LinkRun(a)
    \/ MarkFailed(a) \/ SyncRead(a) \/ SyncWrite(a)

SchedulerStep ==
    \/ Step(Scheduler)
    \/ ScanStart \/ ReconcileRun \/ ReconcileDone \/ CountActive \/ Claim \/ ScanDone
    \/ \E t \in Tasks : DueRead(t)

CallerStep(c) ==
    \/ Step(c)
    \/ EditWrite(c) \/ RunNowInsert(c) \/ RunNowTouch(c)
    \/ CancelDecide(c) \/ MarkCancelled(c)

Call(c) ==
    \/ \E t \in Tasks : EditRead(c, t) \/ RunNowRead(c, t)
    \/ \E r \in RunIds : SyncCall(c, r) \/ CancelCall(c, r)

Environment ==
    \/ \E t \in Tasks : DeleteTask(t) \/ RemoveDefinition(t)
    \/ \E t \in Tasks, s \in Schedules, st \in {"enabled", "paused"} : CreateTask(t, s, st)
    \/ \E x \in AgentIds : AgentMove(x) \/ DeleteChat(x)
    \/ \E a \in Actors : CallFails(a)
    \/ Tick \/ Crash

Next == SchedulerStep \/ Environment \/ \E c \in Callers : CallerStep(c) \/ Call(c)

Spec == Init /\ [][Next]_vars

(* The runtime keeps polling the scheduler loop; a request may be dropped  *)
(* at any await, so nothing is assumed of it.                              *)
FairSpec == Spec /\ WF_vars(SchedulerStep)
-----------------------------------------------------------------------------
(***************************************************************************)
(* Properties.                                                             *)
(***************************************************************************)
TaskRows == [status: {"absent", "enabled", "paused", "completed", "archived", "deleted"},
             next: Nat \cup {None}, sched: Schedules \cup {NoSchedule}]
RunRows == [task: Tasks \cup {None}, trigger: {"none", "scheduled", "manual"},
            status: Terminal \cup ActiveStatuses \cup {"absent", "deleted"},
            at: Times \cup {None}, agent: AgentIds \cup {None},
            done: Times \cup {None}]
AgentRows == [run: RunIds \cup {None},
              status: AgentLive \cup AgentTerminal \cup {"absent", "gone"},
              end: Times \cup {None}]
Writers == {"touch", "dispatch", "link", "mark_failed", "sync", "sync_write", "cancel",
            "mark_cancelled"}
Labels == Writers \cup {"idle", "reconcile", "due", "count", "claim", "edit", "insert"}
Locals == [op: {"none", "sync", "cancel", "pending", "skipped"}, task: Tasks \cup {None},
           row: TaskRows, run: RunIds \cup {None}, snap: RunRows,
           agent: AgentIds \cup {None}]

(* Every row is well formed, and an actor that is about to write a run     *)
(* holds the id of one that exists or existed.                             *)
TypeOK ==
    /\ now \in Times
    /\ tasks \in [Tasks -> TaskRows]
    /\ \A t \in Tasks : tasks[t].next # None => tasks[t].status = "enabled"
    /\ runs \in [RunIds -> RunRows]
    /\ agents \in [AgentIds -> AgentRows]
    /\ pc \in [Actors -> Labels] /\ loc \in [Actors -> Locals]
    /\ \A a \in Actors :
         pc[a] \in Writers => loc[a].run \in RunIds /\ runs[loc[a].run].status # "absent"
    /\ sched.phase \in {"idle", "reconcile", "due"}
    /\ sched.at \in Times \cup {None} /\ sched.left \in Nat
    /\ DOMAIN sched.todo \subseteq RunIds /\ sched.todo \in [DOMAIN sched.todo -> RunRows]
    /\ broken \subseteq Tasks
    /\ torn \subseteq RunIds /\ revived \subseteq AgentIds

(* An occurrence of a schedule becomes one run.  The claim compares        *)
(* next_run_at, so only a request that read the task before the claim and  *)
(* wrote it back after (run now, update) can make it due again.            *)
OccurrenceOnce ==
    \A r, q \in RunIds :
        /\ runs[r].trigger = "scheduled" /\ runs[q].trigger = "scheduled"
        /\ runs[r].task = runs[q].task /\ runs[r].at = runs[q].at
        /\ r # q
        => <<runs[r].task, runs[r].at>> \in rewound

(* Rows are well formed, and a claimed run is handed to the Agent queue    *)
(* once, the Agent tasks that are lost aside (and those deleted with their *)
(* chats): the run of a lost one stays pending, and the next scan hands it *)
(* over again.  A manual run is handed over at most twice: reconciliation  *)
(* takes a pending run for a stale one even while the request that         *)
(* inserted it is dispatching it.                                          *)
DispatchBound ==
    /\ TypeOK
    /\ \A r \in RunIds \ torn :
          Cardinality({x \in AgentsOf(r) : AgentExists(x)}) <= IF runs[r].trigger = "manual" THEN 2 ELSE 1

(* Under skip_if_running two scheduled runs of one task never have linked  *)
(* Agent tasks in progress at the same time, whatever requests, syncs and  *)
(* restarts happened meanwhile.  There are two ways to lose this: a run    *)
(* whose cancellation overlapped its dispatch loses its link, which a late *)
(* sync puts back, and the Agent task of an ended run is retried.          *)
NoOverlap ==
    \A r, q \in RunIds \ torn :
        /\ runs[r].trigger = "scheduled" /\ runs[q].trigger = "scheduled"
        /\ runs[r].task = runs[q].task /\ runs[r].task \in SkipTasks
        /\ \A p \in {r, q} : /\ runs[p].agent \notin {None} \cup revived
                             /\ agents[runs[p].agent].status \in AgentLive
        => r = q

(* A cancelled run has no Agent task in progress, unless its dispatch      *)
(* overlapped the cancellation, two dispatchers queued it, or the Agent    *)
(* task was retried or is a lost one, which no cancellation can find.      *)
CancelledStops ==
    \A r \in RunIds \ torn :
        /\ runs[r].status = "cancelled"
        /\ \A x, y \in AgentsOf(r) : x = y
        => \A x \in AgentsOf(r) \ revived : agents[x].status \notin AgentLive

(* interval_next_run returns the least occurrence after now, whatever      *)
(* fraction of a second has elapsed since the anchor.                      *)
NextRunExact ==
    \A s \in {u \in Schedules : u.kind = "interval" /\ u.at # None} :
        LET grid == {s.at + k * s.every * Unit : k \in 0 .. MaxTime + 1}
            next == NextRunAfter(s, now)
        IN  /\ next \in grid /\ next > now
            /\ \A g \in grid : g > now => next <= g

(* A pending run whose input cannot be built: every scan stops at it. *)
Poisoned == \E r \in RunIds : runs[r].status = "pending" /\ runs[r].task \in broken

(* Nothing is left for a scan to do: no run is pending, no task is due and *)
(* no run is active whose Agent task has ended.                            *)
CaughtUp ==
    /\ \A r \in ActiveRuns :
         /\ runs[r].status # "pending"
         /\ runs[r].agent # None
         /\ agents[runs[r].agent].status \in AgentLive
    /\ \A t \in Tasks : ~Due(t, now)

(* Requests, failing calls and restarts being finite, the scheduler        *)
(* catches up again and again: a pending run is dispatched or closed also  *)
(* when the request that inserted it is gone, a due task is claimed, and a *)
(* run ends after its Agent task did, although a stale sync may first put  *)
(* an older status back.  The one exception is a poisoned run, which stops *)
(* every scan.                                                             *)
CatchesUp == []<>(CaughtUp \/ Poisoned)
=============================================================================
