----------------------------- MODULE AgentTasks -----------------------------
(***************************************************************************)
(* The durable task queue of one agent team (the agent tables of           *)
(* store/workspace.rs) together with the scheduler that claims tasks,      *)
(* renews the leases of their attempts and recovers abandoned ones         *)
(* (app/runtime/agent_scheduler.rs) and the operator's requests            *)
(* (app/http/agents.rs).                                                   *)
(*                                                                         *)
(* Every store operation is an Immediate transaction and therefore one     *)
(* action; a handler that uses several transactions takes several steps.   *)
(* An incarnation is one life of the server process; two may overlap       *)
(* around a restart.  Payloads, events and timestamps are left out: a      *)
(* lease is fresh or expired, a deadline has passed or has not.            *)
(***************************************************************************)
EXTENDS Integers, Sequences, FiniteSets

CONSTANTS Tasks, Instances,
          NoTask,          \* the parent of a root task
          OwnerOf(_),      \* instance a task is enqueued for
          ParentOf(_),     \* task that delegates it, or NoTask
          Incarnations,    \* lives of the server process
          Workloads        \* what a team is set up for and asked to do

ASSUME TasksAssumption ==
    /\ IsFiniteSet(Tasks) /\ NoTask \notin Tasks /\ "team" \notin Instances
    /\ \A t \in Tasks : OwnerOf(t) \in Instances /\ ParentOf(t) \in Tasks \cup {NoTask}
ASSUME WorkloadsAssumption ==
    \A w \in Workloads :
        /\ w.tasks \subseteq Tasks             \* tasks that are enqueued
        /\ w.coordinators \subseteq Instances  \* instances with a visible chat run
        /\ w.runs \in Nat \ {0}               \* agent_teams.max_concurrent_runs
        /\ w.lives \subseteq Incarnations      \* processes that serve the workspace
        /\ w.attempts \in [Tasks -> Nat]       \* bound on the attempts of a task
        /\ w.timed \subseteq Tasks             \* tasks whose waits carry a deadline
        /\ w.transfers \subseteq Tasks         \* tasks transferred, at most once
        /\ w.controls \subseteq ({"team"} \cup Instances) \X STRING \* operators' requests

VARIABLES
    load,      \* the workload: the team's setup and what it is asked to do
    team,      \* agent_teams.status
    inst,      \* agent_instances.status
    next,      \* agent_instances.next_task_sequence
    status,    \* agent_tasks.status, or "none" before the task exists
    owner,     \* agent_tasks.owner_instance_id
    seq,       \* agent_tasks.sequence
    attempts,  \* agent_attempts of a task: status and owner incarnation
    lease,     \* lease[t]: lease of its running attempt, "fresh" or "expired"
    deps,      \* agent_task_dependencies of a waiting task
    due,       \* tasks whose wait has passed its deadline
    sealed,    \* agent_task_subtree_cancellations
    runners,   \* live coordinator runs <<task, attempt>>
    asked,     \* runs whose wait tool has told them to suspend
    waking,    \* retries that still have to wake their paused instance
    rec,       \* rec[p]: the attempt that p is recovering
    up         \* incarnations that are alive

rowVars == <<team, inst, next, owner, seq>>
taskVars == <<status, attempts, deps, due>>
procVars == <<lease, runners, asked, waking, rec, up>>
vars == <<load, rowVars, taskVars, sealed, procVars>>

Holding == {"queued", "running", "waiting"}
Terminal == {"completed", "failed", "cancelled", "interrupted"}
IdleRec == [step |-> "idle"]

\* "orphaned" stands for 'interrupted' with a reason other than the restart.
Attempt == [status : {"running", "suspended", "completed", "failed", "cancelled",
                      "interrupted", "orphaned"},
            owner : Incarnations]
Runs == Tasks \X Nat

TypeOK ==
    /\ load \in Workloads
    /\ team \in {"active", "paused", "draining", "stopped"}
    /\ inst \in [Instances -> {"idle", "running", "waiting", "paused", "draining", "stopped"}]
    /\ next \in [Instances -> Nat]
    /\ status \in [Tasks -> Holding \cup Terminal \cup {"none"}]
    /\ owner \in [Tasks -> Instances]
    /\ seq \in [Tasks -> Nat]
    /\ attempts \in [Tasks -> Seq(Attempt)]
    /\ lease \in [Tasks -> {"fresh", "expired"}]
    /\ deps \in [Tasks -> SUBSET Tasks]
    /\ due \subseteq Tasks /\ sealed \subseteq Tasks /\ waking \subseteq Tasks
    /\ asked \subseteq runners /\ runners \subseteq Runs
    /\ rec \in [Incarnations -> {IdleRec} \cup
                   [step : {"suspending", "closing", "pausing"}, task : Tasks,
                    attempt : Nat, renewed : BOOLEAN]]
    /\ up \subseteq Incarnations

Init ==
    /\ load \in Workloads
    /\ team = "active"
    /\ inst = [i \in Instances |-> "idle"]
    /\ next = [i \in Instances |-> 0]
    /\ status = [t \in Tasks |-> "none"]
    /\ owner = [t \in Tasks |-> OwnerOf(t)]
    /\ seq = [t \in Tasks |-> 0]
    /\ attempts = [t \in Tasks |-> <<>>]
    /\ lease = [t \in Tasks |-> "fresh"]
    /\ deps = [t \in Tasks |-> {}]
    /\ due = {} /\ sealed = {} /\ runners = {} /\ asked = {} /\ waking = {}
    /\ rec = [p \in Incarnations |-> IdleRec]
    /\ up = load.lives

-----------------------------------------------------------------------------
(* Rows and how statements change them                                      *)

OnInstance(i, statuses) == {t \in Tasks : owner[t] = i /\ status[t] \in statuses}
Last(t) == Len(attempts[t])
InState(t, s) == {k \in DOMAIN attempts[t] : attempts[t][k].status = s}
Done(t) == status[t] \in Terminal

\* UPDATE agent_attempts SET status = s WHERE the attempt is one of ks.
Marked(t, ks, s) ==
    [k \in DOMAIN attempts[t] |->
        IF k \in ks THEN [attempts[t][k] EXCEPT !.status = s] ELSE attempts[t][k]]

\* CASE WHEN status = 'draining' THEN 'draining' ELSE s END
Undrained(i, s) == IF inst[i] = "draining" THEN "draining" ELSE s

\* The wait is over: its deadline has passed, or every dependency is terminal.
Satisfied(t) == deps[t] # {} /\ (t \in due \/ \A d \in deps[t] : Done(d))

\* ancestors(id) of an enqueue, subtree(id) of a cancellation: what a recursive
\* query that follows parent_task_id finds.
ClosedUpwards(S) == \A u \in S : ParentOf(u) \in S \cup {NoTask}

Ancestors ==
    [t \in Tasks |-> {u \in Tasks :
        \A S \in SUBSET Tasks :
            ParentOf(t) \in S \cup {NoTask} /\ ClosedUpwards(S) => u \in S}]

Subtree(t) == {u \in Tasks : status[u] # "none" /\ (u = t \/ t \in Ancestors[u])}

\* agent_tasks_one_active_per_instance_idx would be violated by activating t.
IndexRefuses(t) == OnInstance(owner[t], {"running", "waiting"}) \ {t} # {}

(* update_agent_task_state_inner for a running or waiting task: the attempt *)
(* k, or the only active one when k = 0.  Unless it is found, the call      *)
(* returns false or an error and changes nothing.                           *)
ActiveState(t) == IF status[t] = "waiting" THEN "suspended" ELSE "running"
Addressed(t, k) == {j \in InState(t, ActiveState(t)) : k = 0 \/ j = k}
CanClose(t, k) == Cardinality(Addressed(t, k)) = 1

CloseActive(t, k, target, attemptTarget) ==
    /\ status[t] \in {"running", "waiting"}
    /\ CanClose(t, k)
    /\ status' = [status EXCEPT ![t] = target]
    /\ attempts' = [attempts EXCEPT ![t] = Marked(t, Addressed(t, k), attemptTarget)]
    /\ inst' = [inst EXCEPT ![owner[t]] =
                   IF target = "waiting" THEN "waiting" ELSE Undrained(owner[t], "idle")]
    /\ deps' = [deps EXCEPT ![t] = IF target = "cancelled" THEN {} ELSE @]
    /\ due' = IF target = "cancelled" THEN due \ {t} ELSE due

-----------------------------------------------------------------------------
(* The queue                                                                *)

ParentSealed(t) == ParentOf(t) \in sealed

\* The parent is within a cancelled subtree.
AncestorSealed(t) == Ancestors[t] \cap sealed # {}

\* enqueue_agent_task_with_limits, the queue limits aside.
Enqueue(t) ==
    LET i == OwnerOf(t) IN
    /\ t \in load.tasks /\ status[t] = "none"
    /\ ParentOf(t) # NoTask => /\ status[ParentOf(t)] \in Holding
                               /\ ~AncestorSealed(t)
    /\ team = "active"
    /\ inst[i] \in {"idle", "running"}
    /\ status' = [status EXCEPT ![t] = "queued"]
    /\ seq' = [seq EXCEPT ![t] = next[i]]
    /\ next' = [next EXCEPT ![i] = @ + 1]
    /\ UNCHANGED <<team, inst, owner, attempts, deps, due, sealed, procVars>>

\* transfer_queued_agent_task_with_limits
Transfer(t, i) ==
    /\ status[t] = "queued"
    /\ owner[t] = OwnerOf(t)
    /\ i # owner[t]
    /\ team \in {"active", "draining"}
    /\ inst[i] \in {"idle", "running"}
    /\ owner' = [owner EXCEPT ![t] = i]
    /\ seq' = [seq EXCEPT ![t] = next[i]]
    /\ next' = [next EXCEPT ![i] = @ + 1]
    /\ UNCHANGED <<team, inst, taskVars, sealed, procVars>>

\* cancel_queued_agent_task keeps the dependencies of a resumed task.
CancelQueued(t) ==
    /\ status[t] = "queued"
    /\ status' = [status EXCEPT ![t] = "cancelled"]
    /\ UNCHANGED <<rowVars, attempts, deps, due, sealed, procVars>>

(* cancel_agent_task_subtree: every queued and waiting task of the subtree, *)
(* or nothing at all when a waiting one has not exactly one suspended       *)
(* attempt.                                                                 *)
CanCancelSubtree(r) ==
    \A t \in Subtree(r) : status[t] = "waiting" => Cardinality(InState(t, "suspended")) = 1

CancelSubtree(r) ==
    LET ts == {t \in Subtree(r) : status[t] \in {"queued", "waiting"}}
        ws == {t \in ts : status[t] = "waiting"} IN
    /\ status[r] # "none"
    /\ CanCancelSubtree(r)
    /\ sealed' = sealed \cup {r}
    /\ status' = [t \in Tasks |-> IF t \in ts THEN "cancelled" ELSE status[t]]
    /\ attempts' = [t \in Tasks |-> IF t \in ws
                                    THEN Marked(t, InState(t, "suspended"), "cancelled")
                                    ELSE attempts[t]]
    /\ inst' = [i \in Instances |-> IF inst[i] = "waiting" /\ \E t \in ws : owner[t] = i
                                    THEN "idle" ELSE inst[i]]
    /\ deps' = [t \in Tasks |-> IF t \in ts THEN {} ELSE deps[t]]
    /\ due' = due \ ts
    /\ UNCHANGED <<team, next, owner, seq, procVars>>

-----------------------------------------------------------------------------
(* The scheduler of an incarnation                                          *)

HasCapacityOffByOne == Cardinality({t \in Tasks : status[t] = "running"}) <= load.runs

HasCapacity == Cardinality({t \in Tasks : status[t] = "running"}) < load.runs

\* RUNNABLE_AGENT_TASKS_SQL, which the claim repeats.
Runnable(t) ==
    /\ status[t] = "queued"
    /\ inst[owner[t]] \in {"idle", "draining"}
    /\ team \in {"active", "draining"}
    /\ HasCapacity
    /\ ~ \E u \in OnInstance(owner[t], Holding) : seq[u] < seq[t]
    /\ deps[t] = {} \/ Satisfied(t)

\* claim_runnable_agent_task_with_owner, and the coordinator run it starts.
Claim(t, p) ==
    /\ Runnable(t)
    /\ ~IndexRefuses(t)
    /\ Last(t) < load.attempts[t]
    /\ status' = [status EXCEPT ![t] = "running"]
    /\ attempts' = [attempts EXCEPT ![t] = Append(@, [status |-> "running", owner |-> p])]
    /\ lease' = [lease EXCEPT ![t] = "fresh"]
    /\ inst' = [inst EXCEPT ![owner[t]] = Undrained(owner[t], "running")]
    /\ runners' = runners \cup {<<t, Last(t) + 1>>}
    /\ UNCHANGED <<team, next, owner, seq, deps, due, sealed, asked, waking, rec, up>>

\* resume_satisfied_agent_tasks: all of them, in one transaction.
ResumableUndrained(t) ==
    /\ status[t] = "waiting" /\ Satisfied(t)
    /\ inst[owner[t]] = "waiting"
    /\ team \in {"active", "draining"}

Resumable(t) ==
    /\ status[t] = "waiting" /\ Satisfied(t)
    /\ inst[owner[t]] \in {"waiting", "draining"}
    /\ team \in {"active", "draining"}

ResumeSatisfied ==
    LET ts == {t \in Tasks : Resumable(t)} IN
    /\ ts # {}
    /\ status' = [t \in Tasks |-> IF t \in ts THEN "queued" ELSE status[t]]
    /\ inst' = [i \in Instances |-> IF \E t \in ts : owner[t] = i
                                    THEN Undrained(i, "idle") ELSE inst[i]]
    /\ UNCHANGED <<team, next, owner, seq, attempts, deps, due, sealed, procVars>>

\* recover_interrupted_agent_wait_tasks
InterruptedWait(t) ==
    status[t] = "interrupted" /\ InState(t, "interrupted") # {} /\ deps[t] # {}

RecoverableWait(t) ==
    /\ InterruptedWait(t)
    /\ inst[owner[t]] \in {"paused", "idle", "waiting", "draining"}
    /\ team \in {"active", "draining"}
    /\ ~IndexRefuses(t)
    /\ ~ \E u \in Tasks : owner[u] = owner[t] /\ InterruptedWait(u) /\ seq[u] < seq[t]

RecoverInterruptedWaits ==
    LET ts == {t \in Tasks : RecoverableWait(t)} IN
    /\ ts # {}
    /\ status' = [t \in Tasks |-> IF t \in ts THEN "waiting" ELSE status[t]]
    /\ attempts' = [t \in Tasks |-> IF t \in ts
                                    THEN Marked(t, InState(t, "interrupted"), "suspended")
                                    ELSE attempts[t]]
    /\ inst' = [i \in Instances |-> IF \E t \in ts : owner[t] = i
                                    THEN Undrained(i, "waiting") ELSE inst[i]]
    /\ UNCHANGED <<team, next, owner, seq, deps, due, sealed, procVars>>

-----------------------------------------------------------------------------
(* A coordinator run                                                        *)

\* renew_agent_attempt_lease.  (A run that no longer owns its attempt ends
\* with an error instead, which is Finish.)
Renew(t, k) ==
    /\ <<t, k>> \in runners
    /\ attempts[t][k].status \in {"running", "suspended"}
    /\ lease' = [lease EXCEPT ![t] = IF k = Last(t) THEN "fresh" ELSE @]
    /\ rec' = [p \in Incarnations |->
                 IF rec[p] # IdleRec /\ rec[p].task = t /\ rec[p].attempt = k
                 THEN [rec[p] EXCEPT !.renewed = TRUE] ELSE rec[p]]
    /\ UNCHANGED <<rowVars, taskVars, sealed, runners, asked, waking, up>>

LeaseExpires(t) ==
    /\ status[t] = "running"
    /\ lease[t] = "fresh"
    /\ lease' = [lease EXCEPT ![t] = "expired"]
    /\ UNCHANGED <<rowVars, taskVars, sealed, runners, asked, waking, rec, up>>

\* The checks of agent_wait_tasks and of the implicit wait.
WaitsOn(t) ==
    LET W[n \in 0..Cardinality(Tasks)] ==
            IF n = 0 THEN deps[t] ELSE W[n - 1] \cup UNION {deps[u] : u \in W[n - 1]}
    IN  W[Cardinality(Tasks)]

QueueDeadlock(t, d) == owner[d] = owner[t] /\ seq[d] > seq[t] /\ status[d] \in Holding

\* register_agent_task_wait_dependencies with a new tool call: the first round,
\* or a replacement of a round whose dependencies are all terminal.
RegisterWait(t, k, ds) ==
    /\ <<t, k>> \in runners \ asked
    /\ ds # {}
    /\ \A d \in ds : /\ d # t /\ status[d] # "none"
                     /\ ~QueueDeadlock(t, d)
                     /\ t \notin WaitsOn(d)
    /\ \A d \in deps[t] : Done(d)
    /\ deps' = [deps EXCEPT ![t] = ds]
    /\ due' = due \ {t}
    /\ asked' = IF \A d \in ds : Done(d) THEN asked ELSE asked \cup {<<t, k>>}
    /\ UNCHANGED <<rowVars, status, attempts, sealed, lease, runners, waking, rec, up>>

DeadlinePasses(t) ==
    /\ t \in load.timed /\ deps[t] # {} /\ t \notin due
    /\ due' = due \cup {t}
    /\ UNCHANGED <<rowVars, status, attempts, deps, sealed, procVars>>

Outcomes(t, k) ==
    {"failed", "cancelled"} \cup (IF <<t, k>> \in asked THEN {"waiting"} ELSE {"completed"})

\* finish_claimed_task: update_agent_task_state_for_attempt from 'running',
\* without effect for a run that has lost its attempt.
FinishAnyAttempt(t, k, target) ==
    /\ <<t, k>> \in runners /\ target \in Outcomes(t, k)
    /\ runners' = runners \ {<<t, k>>}
    /\ asked' = asked \ {<<t, k>>}
    /\ IF status[t] = "running" /\ CanClose(t, 0)
         THEN CloseActive(t, 0, target, IF target = "waiting" THEN "suspended" ELSE target)
         ELSE UNCHANGED <<inst, taskVars>>
    /\ UNCHANGED <<team, next, owner, seq, sealed, lease, waking, rec, up>>

Finish(t, k, target) ==
    /\ <<t, k>> \in runners /\ target \in Outcomes(t, k)
    /\ runners' = runners \ {<<t, k>>}
    /\ asked' = asked \ {<<t, k>>}
    /\ IF status[t] = "running" /\ CanClose(t, k)
         THEN CloseActive(t, k, target, IF target = "waiting" THEN "suspended" ELSE target)
         ELSE UNCHANGED <<inst, taskVars>>
    /\ UNCHANGED <<team, next, owner, seq, sealed, lease, waking, rec, up>>

\* The run ends and its outcome cannot be written.
LoseOutcome(t, k) ==
    /\ <<t, k>> \in runners
    /\ runners' = runners \ {<<t, k>>}
    /\ asked' = asked \ {<<t, k>>}
    /\ UNCHANGED <<rowVars, taskVars, sealed, lease, waking, rec, up>>

-----------------------------------------------------------------------------
(* reconcile_agent_attempt_leases: an expired lease whose run does not live *)
(* in this incarnation.  The attempt is read first and closed later.        *)

OwnRun(p, t) == <<t, Last(t)>> \in runners /\ attempts[t][Last(t)].owner = p

FindAbandoned(p, t) ==
    /\ p \in up /\ rec[p] = IdleRec
    /\ status[t] = "running" /\ Last(t) \in InState(t, "running")
    /\ lease[t] = "expired" /\ ~OwnRun(p, t)
    /\ rec' = [rec EXCEPT ![p] = [step |-> "suspending", task |-> t, attempt |-> Last(t),
                                  renewed |-> FALSE]]
    /\ UNCHANGED <<rowVars, taskVars, sealed, lease, runners, asked, waking, up>>

\* suspend_running_agent_task_with_wait_dependencies: an open wait goes on.
OpenWait(t) == status[t] = "running" /\ deps[t] # {} /\ ~Satisfied(t)

SuspendTaskOnly(t) ==
    /\ status' = [status EXCEPT ![t] = "waiting"]
    /\ UNCHANGED attempts
    /\ inst' = [inst EXCEPT ![owner[t]] = IF @ = "running" THEN "waiting" ELSE @]

SuspendRunning(t) ==
    /\ status' = [status EXCEPT ![t] = "waiting"]
    /\ attempts' = [attempts EXCEPT ![t] = Marked(t, InState(t, "running"), "suspended")]
    /\ inst' = [inst EXCEPT ![owner[t]] = IF @ = "running" THEN "waiting" ELSE @]

RecoverSuspend(p) ==
    LET t == rec[p].task IN
    /\ rec[p].step = "suspending"
    /\ IF OpenWait(t)
         THEN SuspendRunning(t) /\ rec' = [rec EXCEPT ![p] = IdleRec]
         ELSE rec' = [rec EXCEPT ![p].step = "closing"] /\ UNCHANGED <<status, attempts, inst>>
    /\ UNCHANGED <<team, next, owner, seq, deps, due, sealed, lease, runners, asked, waking, up>>

\* The attempt, its owner and its lease are still what p has read.
SameAttempt(p) ==
    status[rec[p].task] = "running" /\ rec[p].attempt \in InState(rec[p].task, "running")

StillAbandoned(p) == SameAttempt(p) /\ ~rec[p].renewed

\* The interruption reason tells a restart from a run this incarnation lost.
Interruption(p) ==
    IF attempts[rec[p].task][rec[p].attempt].owner = p THEN "orphaned" ELSE "interrupted"

\* close_interrupted_coordinator_chat_run: the instance is paused with it.
RecoverChatRun(p) ==
    LET t == rec[p].task IN
    /\ rec[p].step = "closing" /\ owner[t] \in load.coordinators
    /\ rec' = [rec EXCEPT ![p] = IdleRec]
    /\ IF StillAbandoned(p)
         THEN /\ status' = [status EXCEPT ![t] = "interrupted"]
              /\ attempts' = [attempts EXCEPT ![t] =
                                 Marked(t, {rec[p].attempt}, Interruption(p))]
              /\ inst' = [inst EXCEPT ![owner[t]] = Undrained(owner[t], "paused")]
         ELSE UNCHANGED <<status, attempts, inst>>
    /\ UNCHANGED <<team, next, owner, seq, deps, due, sealed, lease, runners, asked, waking, up>>

\* update_agent_task_state_for_attempt_lease, and the pause in a transaction
\* of its own, which fails when the instance has become busy or drains.
RecoverInterrupt(p) ==
    LET t == rec[p].task IN
    /\ rec[p].step = "closing" /\ owner[t] \notin load.coordinators
    /\ IF StillAbandoned(p)
         THEN /\ CloseActive(t, rec[p].attempt, "interrupted", Interruption(p))
              /\ rec' = [rec EXCEPT ![p].step = "pausing"]
         ELSE rec' = [rec EXCEPT ![p] = IdleRec] /\ UNCHANGED <<taskVars, inst>>
    /\ UNCHANGED <<team, next, owner, seq, sealed, lease, runners, asked, waking, up>>

Busy(i) == OnInstance(i, {"running", "waiting"}) # {}

RecoverPause(p) ==
    LET i == owner[rec[p].task] IN
    /\ rec[p].step = "pausing"
    /\ rec' = [rec EXCEPT ![p] = IdleRec]
    /\ inst' = [inst EXCEPT ![i] = IF @ \in {"idle", "running", "waiting"} /\ ~Busy(i)
                                   THEN "paused" ELSE @]
    /\ UNCHANGED <<team, next, owner, seq, taskVars, sealed, lease, runners, asked, waking, up>>

Crash(p) ==
    /\ p \in up
    /\ up' = up \ {p}
    /\ runners' = {r \in runners : attempts[r[1]][r[2]].owner # p}
    /\ asked' = asked \cap runners'
    /\ rec' = [rec EXCEPT ![p] = IdleRec]
    /\ UNCHANGED <<rowVars, taskVars, sealed, lease, waking>>

-----------------------------------------------------------------------------
(* Operators                                                                *)

\* Cancel: a queued task, a waiting one, or a running one whose run the
\* serving incarnation does not have.  (It signals a run it has: Finish.)
CancelTask(p, t) ==
    /\ p \in up
    /\ \/ /\ status[t] = "queued"
          /\ status' = [status EXCEPT ![t] = "cancelled"]
          /\ deps' = [deps EXCEPT ![t] = {}] /\ due' = due \ {t}
          /\ UNCHANGED <<attempts, inst>>
       \/ status[t] = "running" /\ ~OwnRun(p, t) /\ CloseActive(t, 0, "cancelled", "cancelled")
       \/ status[t] = "waiting" /\ CloseActive(t, 0, "cancelled", "cancelled")
    /\ UNCHANGED <<team, next, owner, seq, sealed, procVars>>

\* Retry, which then wakes the instance if it was paused.
Retry(t) ==
    /\ status[t] \in {"failed", "cancelled", "interrupted"}
    /\ Last(t) < load.attempts[t]
    /\ status' = [status EXCEPT ![t] = "queued"]
    /\ deps' = [deps EXCEPT ![t] = {}] /\ due' = due \ {t}
    /\ sealed' = sealed \ {t}
    /\ waking' = IF inst[owner[t]] = "paused" THEN waking \cup {t} ELSE waking
    /\ UNCHANGED <<rowVars, attempts, lease, runners, asked, rec, up>>

WakeInstance(t) ==
    /\ t \in waking
    /\ waking' = waking \ {t}
    /\ inst' = [inst EXCEPT ![owner[t]] = IF @ \in {"paused", "running"} THEN "idle" ELSE @]
    /\ UNCHANGED <<team, next, owner, seq, taskVars, sealed, lease, runners, asked, rec, up>>

\* transition_agent_team_status, with AgentTeamStatus::transition_to.
TeamMoves == [active |-> {"paused", "draining", "stopped"},
              paused |-> {"active", "draining", "stopped"},
              draining |-> {"stopped"}, stopped |-> {}]

ControlTeam(target) ==
    /\ target \in TeamMoves[team]
    /\ target = "stopped" => \A t \in Tasks : status[t] \notin Holding
    /\ team' = target
    /\ inst' = [i \in Instances |->
          IF target = "active" /\ inst[i] = "paused" THEN "idle"
          ELSE IF target = "paused" /\ inst[i] = "idle" THEN "paused"
          ELSE IF target = "draining" /\ inst[i] \in {"idle", "paused"} THEN "draining"
          ELSE IF target = "stopped" THEN "stopped"
          ELSE inst[i]]
    /\ UNCHANGED <<next, owner, seq, taskVars, sealed, procVars>>

\* transition_agent_instance_status, with AgentInstanceStatus::transition_to.
InstanceMoves == [idle |-> {"paused", "draining", "stopped"},
                  running |-> {"idle", "paused", "draining", "stopped"},
                  waiting |-> {"paused", "draining", "stopped"},
                  paused |-> {"idle", "draining", "stopped"},
                  draining |-> {"stopped"}, stopped |-> {}]

ControlInstance(i, target) ==
    /\ target \in InstanceMoves[inst[i]]
    /\ target \in {"paused", "draining"} => ~Busy(i)
    /\ target = "stopped" => OnInstance(i, Holding) = {}
    /\ inst' = [inst EXCEPT ![i] = target]
    /\ UNCHANGED <<team, next, owner, seq, taskVars, sealed, procVars>>

-----------------------------------------------------------------------------
QueueStep(t) ==
    \/ Enqueue(t) \/ CancelQueued(t) \/ CancelSubtree(t) \/ Retry(t) \/ WakeInstance(t)
    \/ LeaseExpires(t) \/ DeadlinePasses(t)
    \/ t \in load.transfers /\ \E i \in Instances : Transfer(t, i)
    \/ \E p \in up : Claim(t, p) \/ CancelTask(p, t)

RunStep(t, k) ==
    \/ Renew(t, k) \/ LoseOutcome(t, k)
    \/ \E ds \in SUBSET Tasks : RegisterWait(t, k, ds)
    \/ \E target \in {"completed", "failed", "cancelled", "waiting"} : Finish(t, k, target)

RecoveryStep(p) ==
    \/ \E t \in Tasks : FindAbandoned(p, t)
    \/ RecoverSuspend(p) \/ RecoverChatRun(p) \/ RecoverInterrupt(p) \/ RecoverPause(p)

Step ==
    \/ up # {} /\ \/ \E t \in Tasks : QueueStep(t)
                  \/ ResumeSatisfied
                  \/ RecoverInterruptedWaits
                  \/ \E s \in {"active", "paused", "draining", "stopped"} :
                        <<"team", s>> \in load.controls /\ ControlTeam(s)
                  \/ \E i \in Instances, s \in {"idle", "paused", "draining", "stopped"} :
                        <<i, s>> \in load.controls /\ ControlInstance(i, s)
    \/ \E r \in runners : RunStep(r[1], r[2])
    \/ \E p \in Incarnations : RecoveryStep(p) \/ Crash(p)

Next == Step /\ UNCHANGED load

Spec == Init /\ [][Next]_vars

(* A live scheduler scans again after every wake-up, at the next deadline   *)
(* and at the latest after its idle fallback.                               *)
FairSpec == Spec /\ WF_vars(up # {} /\ ResumeSatisfied /\ UNCHANGED load)

-----------------------------------------------------------------------------
(* Tasks and attempts are two tables that eight transactions change         *)
(* together: a running task has exactly one running attempt, its last, any  *)
(* other task has none, and a waiting task has a suspended attempt.         *)
Matches(t) ==
    /\ InState(t, "running") = IF status[t] = "running" THEN {Last(t)} ELSE {}
    /\ status[t] = "waiting" => InState(t, "suspended") # {}

AttemptsMatch == TypeOK /\ \A t \in Tasks : Matches(t)

(* No interleaving of claims, retries and recoveries runs more tasks of the *)
(* team at once than max_concurrent_runs.                                   *)
TeamCapacity == Cardinality({t \in Tasks : status[t] = "running"}) <= load.runs

(* After a subtree was cancelled nothing can be delegated into it, however  *)
(* deep the delegating task that still runs is.                             *)
SubtreeSealed ==
    [][\A r \in sealed : \A t \in Tasks :
          r \in Ancestors[t] /\ status[t] = "none" => status'[t] = "none"]_vars

(* A run that lost its attempt, because a recovery or an operator closed    *)
(* it, can no longer change its task, though the task may be running again  *)
(* in a newer attempt by then.                                              *)
FencedRuns ==
    [][\A r \in runners \ runners' :
          attempts[r[1]][r[2]].status # "running" => status'[r[1]] = status[r[1]]]_vars

(* A recovery that goes on to interrupt an attempt never interrupts one     *)
(* whose run has renewed its lease since the recovery read it.              *)
RenewedNotInterrupted ==
    [][\A p \in Incarnations :
          rec[p] # IdleRec /\ rec[p].renewed /\ rec[p].step = "closing" /\ rec'[p] # rec[p]
              => attempts' = attempts]_vars

(* A wait whose dependencies are all terminal, or whose deadline has        *)
(* passed, does not sleep on: it is resumed, or something else ends it, or  *)
(* every scheduler is gone.                                                 *)
SatisfiedWaitEnds ==
    \A t \in Tasks : status[t] = "waiting" /\ Satisfied(t)
                        ~> status[t] # "waiting" \/ ~Satisfied(t) \/ up = {}

-----------------------------------------------------------------------------
(* What the code says of itself and does not keep (run agent_cancel).       *)

(* cancel_agent_task_subtree: "Atomically cancel queued and waiting tasks   *)
(* in a root task's complete subtree": no state keeps it from doing so.     *)
SubtreeCancellable ==
    \A r \in Tasks : status[r] # "none" => CanCancelSubtree(r)
=============================================================================
