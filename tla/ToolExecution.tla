---------------------------- MODULE ToolExecution ---------------------------
(***************************************************************************)
(* Execution of tool batches: the groups of a plan one after the other     *)
(* (app/runtime/tool_execution.rs), and the registry of resource locks     *)
(* that all runs of the process share (app/runtime/tool_locks.rs).         *)
(*                                                                         *)
(* A call acquires all its locks in one critical section of the registry   *)
(* or none, and otherwise waits on a tokio Notify.  Its Notified future is *)
(* created inside that critical section; a dropped lease removes its locks *)
(* in one and calls notify_waiters after it.  Workers are blocking threads *)
(* that a timed-out or cancelled call leaves behind.                       *)
(***************************************************************************)
EXTENDS ToolPlan

CONSTANTS Runs,            \* agent runs that execute one batch each
          MaxCalls,        \* bound on the calls of a batch
          Batches,         \* what the runs are asked: functions from Runs to batches
          WorkspaceOf(_),  \* the workspace_id of a run
          Rewrites(_)      \* calls a PreToolUse hook may turn a call into

ASSUME MaxCallsAssumption == MaxCalls \in Nat
ASSUME BatchesAssumption == \A b \in Batches : \A r \in Runs : Len(b[r]) \in 0 .. MaxCalls

Calls == Runs \X (1..MaxCalls)

VARIABLES
    batch,      \* batch[r]: the tool calls of run r
    plan,       \* plan[r]: the groups run r has not finished, in order
    pc,         \* pc[c]: progress of execute_tool_call
    call,       \* call[c]: the call, after its hooks
    active,     \* ToolResourceLockRegistryInner.active: <<call, lock>> pairs
    signalled,  \* signalled[c]: notify_waiters reached c's current Notified
    worker,     \* worker[c]: the blocking worker of c
    cancelled   \* cancelled[r]: the run's cancellation token

vars == <<batch, plan, pc, call, active, signalled, worker, cancelled>>

PCs == {"unstarted", "trying", "waiting", "running", "notifying", "done"}
Workers == {"none", "working", "detached"}

InGroup(c) == plan[c[1]] # <<>> /\ c[2] \in Head(plan[c[1]])

Init ==
    /\ batch \in Batches
    /\ plan = [r \in Runs |-> plan_tool_execution(batch[r])]
    /\ pc = [c \in Calls |-> "unstarted"]
    /\ call = [c \in Calls |-> IF c[2] <= Len(batch[c[1]])
                               THEN batch[c[1]][c[2]] ELSE [tool |-> "sleep", args |-> {}]]
    /\ active = {}
    /\ signalled = [c \in Calls |-> FALSE]
    /\ worker = [c \in Calls |-> "none"]
    /\ cancelled = [r \in Runs |-> FALSE]

-----------------------------------------------------------------------------
\* normalize_tool_resource_locks keeps the strongest access per resource.
Strongest(locks, r) ==
    LET as == {l.access : l \in {k \in locks : k.resource = r}}
    IN  IF "Exclusive" \in as THEN "Exclusive" ELSE IF "Write" \in as THEN "Write" ELSE "Read"

Locks(c) ==
    LET req == tool_resource_locks(call[c])
    IN  {Lock(r, Strongest(req, r)) : r \in {l.resource : l \in req}}

tool_locks_share_scope(c, l, a) ==
    \/ l.resource.type = "Memory" /\ a[2].resource.type = "Memory"
    \/ WorkspaceOf(c[1]) = WorkspaceOf(a[1][1])

Clash(c, l, a) == tool_locks_share_scope(c, l, a) /\ tool_resource_locks_conflict(l, a[2])

ConflictInOwnWorkspace(c) ==
    \E l \in Locks(c), a \in active :
        WorkspaceOf(c[1]) = WorkspaceOf(a[1][1]) /\ tool_resource_locks_conflict(l, a[2])

tool_locks_conflict_with_active(c) == \E l \in Locks(c), a \in active : Clash(c, l, a)

-----------------------------------------------------------------------------
(* execute_tool_call: the hooks may rewrite or block the call, a missing    *)
(* argument is an error, and the cancellation token is looked at first.     *)
Begin(c, new) ==
    /\ pc[c] = "unstarted"
    /\ InGroup(c)
    /\ ~cancelled[c[1]]
    /\ call' = [call EXCEPT ![c] = new]
    /\ pc' = [pc EXCEPT ![c] = IF MissingArgument(new) THEN "done" ELSE "trying"]
    /\ UNCHANGED <<batch, plan, active, signalled, worker, cancelled>>

Skip(c) ==
    /\ pc[c] = "unstarted"
    /\ InGroup(c)
    /\ pc' = [pc EXCEPT ![c] = "done"]
    /\ UNCHANGED <<batch, plan, call, active, signalled, worker, cancelled>>

\* A turn of acquire_with_owner that gets the locks.  A run cancelled
\* meanwhile starts no worker; the lease is dropped in the next step.
AcquireWithoutCheck(c) ==
    /\ pc[c] = "trying"
    /\ active' = active \cup {<<c, l>> : l \in Locks(c)}
    /\ pc' = [pc EXCEPT ![c] = "running"]
    /\ worker' = [worker EXCEPT ![c] = IF cancelled[c[1]] THEN @ ELSE "working"]
    /\ UNCHANGED <<batch, plan, call, signalled, cancelled>>

AcquireDroppingLease(c) ==
    /\ pc[c] = "trying"
    /\ ~tool_locks_conflict_with_active(c)
    /\ pc' = [pc EXCEPT ![c] = "running"]
    /\ worker' = [worker EXCEPT ![c] = IF cancelled[c[1]] THEN @ ELSE "working"]
    /\ UNCHANGED <<batch, plan, call, active, signalled, cancelled>>

Acquire(c) ==
    /\ pc[c] = "trying"
    /\ ~tool_locks_conflict_with_active(c)
    /\ active' = active \cup {<<c, l>> : l \in Locks(c)}
    /\ pc' = [pc EXCEPT ![c] = "running"]
    /\ worker' = [worker EXCEPT ![c] = IF cancelled[c[1]] THEN @ ELSE "working"]
    /\ UNCHANGED <<batch, plan, call, signalled, cancelled>>

\* ... and one that has to wait: notified() is created under the mutex.
Block(c) ==
    /\ pc[c] = "trying"
    /\ tool_locks_conflict_with_active(c)
    /\ pc' = [pc EXCEPT ![c] = "waiting"]
    /\ UNCHANGED <<batch, plan, call, active, signalled, worker, cancelled>>

Retry(c) ==
    /\ pc[c] = "waiting"
    /\ signalled[c]
    /\ pc' = [pc EXCEPT ![c] = "trying"]
    /\ signalled' = [signalled EXCEPT ![c] = FALSE]
    /\ UNCHANGED <<batch, plan, call, active, worker, cancelled>>

\* wait_for_tool_resource_lock: the deadline has passed or the run is cancelled;
\* the acquire future is dropped between two of its critical sections.
StopWaiting(c) ==
    /\ pc[c] \in {"trying", "waiting"}
    /\ pc' = [pc EXCEPT ![c] = "done"]
    /\ signalled' = [signalled EXCEPT ![c] = FALSE]
    /\ UNCHANGED <<batch, plan, call, active, worker, cancelled>>

-----------------------------------------------------------------------------
(* ToolResourceLease::drop, first half: the locks go under the mutex.       *)
Drop(c) ==
    /\ active' = {a \in active : a[1] # c}
    /\ pc' = [pc EXCEPT ![c] = IF active' = active THEN "done" ELSE "notifying"]

\* The worker ends and the call returns.
Finish(c) ==
    /\ pc[c] = "running"
    /\ worker' = [worker EXCEPT ![c] = "none"]
    /\ Drop(c)
    /\ UNCHANGED <<batch, plan, call, signalled, cancelled>>

\* The tool deadline passes or the run is cancelled while the worker works:
\* the call returns, its lease goes, the blocking worker stays.
Detach(c) ==
    /\ pc[c] = "running"
    /\ worker[c] = "working"
    /\ worker' = [worker EXCEPT ![c] = "detached"]
    /\ Drop(c)
    /\ UNCHANGED <<batch, plan, call, signalled, cancelled>>

DetachedEnds(c) ==
    /\ worker[c] = "detached"
    /\ worker' = [worker EXCEPT ![c] = "none"]
    /\ UNCHANGED <<batch, plan, pc, call, active, signalled, cancelled>>

\* ToolResourceLease::drop, second half: notify_waiters reaches every
\* Notified that exists now.
NotifyOne(c) ==
    /\ pc[c] = "notifying"
    /\ pc' = [pc EXCEPT ![c] = "done"]
    /\ LET w == {d \in Calls : pc[d] = "waiting" /\ ~signalled[d]}
       IN  \/ w = {} /\ UNCHANGED signalled
           \/ \E d \in w : signalled' = [signalled EXCEPT ![d] = TRUE]
    /\ UNCHANGED <<batch, plan, call, active, worker, cancelled>>

Notify(c) ==
    /\ pc[c] = "notifying"
    /\ pc' = [pc EXCEPT ![c] = "done"]
    /\ signalled' = [d \in Calls |-> signalled[d] \/ pc[d] = "waiting"]
    /\ UNCHANGED <<batch, plan, call, active, worker, cancelled>>

-----------------------------------------------------------------------------
\* join_all: the next group starts when every call of this one returned.
GroupReturned(r) == \A i \in Head(plan[r]) : pc[<<r, i>>] = "done"

NextGroup(r) ==
    /\ plan[r] # <<>>
    /\ GroupReturned(r)
    /\ plan' = [plan EXCEPT ![r] = Tail(@)]
    /\ UNCHANGED <<batch, pc, call, active, signalled, worker, cancelled>>

Cancel(r) ==
    /\ ~cancelled[r] /\ plan[r] # <<>>
    /\ cancelled' = [cancelled EXCEPT ![r] = TRUE]
    /\ UNCHANGED <<batch, plan, pc, call, active, signalled, worker>>

CallStep(c) ==
    \/ \E new \in {call[c]} \cup Rewrites(call[c]) : Begin(c, new)
    \/ Skip(c) \/ Acquire(c) \/ Block(c) \/ Retry(c) \/ StopWaiting(c)
    \/ Finish(c) \/ Detach(c) \/ DetachedEnds(c) \/ Notify(c)

Next == (\E c \in Calls : CallStep(c)) \/ (\E r \in Runs : NextGroup(r) \/ Cancel(r))

Spec == Init /\ [][Next]_vars

(* The executor polls ready futures, hooks end, workers end or are cut off  *)
(* by their deadline.  Nobody has to cancel or time out a wait.             *)
Polled(c) ==
    \/ Begin(c, call[c]) \/ Skip(c)
    \/ Acquire(c) \/ Block(c) \/ Retry(c)
    \/ Finish(c) \/ Detach(c) \/ Notify(c)

Fairness ==
    /\ \A c \in Calls : WF_vars(Polled(c))
    /\ \A r \in Runs : WF_vars(NextGroup(r))

FairSpec == Spec /\ Fairness
-----------------------------------------------------------------------------
TypeOK ==
    /\ batch \in Batches
    /\ plan \in [Runs -> Seq((SUBSET (1..MaxCalls)) \ {{}})]
    /\ pc \in [Calls -> PCs]
    /\ active \subseteq {<<c, l>> : c \in Calls, l \in UNION {Locks(d) : d \in Calls}}
    /\ signalled \in [Calls -> BOOLEAN]
    /\ worker \in [Calls -> Workers]
    /\ cancelled \in [Runs -> BOOLEAN]

(* The registry never holds two locks of different leases that clash in     *)
(* scope and access, whatever the hooks made of the planned calls.          *)
LeasesExclude ==
    \A a, b \in active : a[1] # b[1] => ~Clash(a[1], a[2], b)

(* A call holds all the locks it asked for, or none: no call waits while    *)
(* holding, so calls cannot wait for each other in a cycle.                 *)
AllOrNothing ==
    \A c \in Calls : {a[2] : a \in {b \in active : b[1] = c}}
                        = IF pc[c] = "running" THEN Locks(c) ELSE {}

(* No lost wakeup: a call that waits although nothing blocks it has been    *)
(* signalled, or a lease that was just dropped is about to signal it.       *)
NoLostWakeup ==
    \A c \in Calls :
        pc[c] = "waiting" /\ ~tool_locks_conflict_with_active(c)
            => signalled[c] \/ \E d \in Calls : pc[d] = "notifying"

(* Two workers with clashing locks work at the same time only if one of     *)
(* them was left behind by a timeout or a cancellation.                     *)
WorkersExclude ==
    \A c, d \in Calls :
        c # d /\ worker[c] = "working" /\ worker[d] = "working"
            => \A l \in Locks(c), m \in Locks(d) : ~Clash(c, l, <<d, m>>)

FileLocks(c) == {l \in PlannedLocks(c) : IsWorkspaceFile(l)}

(* States are well formed, and conflicting calls of one batch start in the  *)
(* order the model issued them: when a call has begun, every earlier call   *)
(* of the batch it conflicts with has returned.                             *)
BatchOrder ==
    /\ TypeOK
    /\ \A r \in Runs : \A i, j \in 1..Len(batch[r]) :
           /\ i < j
           /\ pc[<<r, j>>] # "unstarted"
           /\ \E l \in FileLocks(batch[r][i]), m \in FileLocks(batch[r][j]) :
                 tool_resource_locks_conflict(l, m)
           => pc[<<r, i>>] = "done"

(* Every call of an accepted batch is placed in a group and returns, with   *)
(* finitely many contenders and without the timeout of the wait; none is    *)
(* left out and no call waits for a lock for ever.                          *)
BatchCompletes ==
    <>(\A r \in Runs :
          /\ plan[r] = <<>>
          /\ ~Rejected(batch[r]) =>
                \A i \in 1..Len(batch[r]) : pc[<<r, i>>] = "done")
=============================================================================
