# TLA+ verification of Foco

Foco is a local AI coding workspace: an Axum server that runs agents on behalf
of a browser, gives them tools, and keeps everything in one SQLite database per
workspace. This directory models the parts of the server in which concurrent
runs, threads, processes and restarts meet, checks them with TLC on small
instances, and proves every invariant it checks with TLAPS for every value of the
constants. Paths below are relative to the repository.

    tlc -workers 2 -config WorkspaceGate.cfg WorkspaceGate     # any run, see "Runs"
    tlapm WorkspaceGate_proofs.tla                             # any *_proofs module

## 1. Inventory

`PROJECT.json` lists every component; the ones with state and control of their
own are these.

| component | state | operations | hard because |
|---|---|---|---|
| workspace database gate (`store/workspace_gate.rs`) | two counting semaphores with FIFO queues, holder ledger | open (ordinary, critical), time out, drop | any thread, nested opens, deadlines over two semaphores, cleanup by `Drop` |
| tool planning and locks (`agent/lib.rs`, `app/runtime/tool_execution.rs`, `tool_locks.rs`) | groups of a batch, active locks, waiters | plan, run hooks, acquire, work, time out, cancel, release | runs of all workspaces share one registry; a future may be dropped anywhere; blocking workers outlive their call |
| background commands (`tools/background_command.rs`, `command_tools.rs`) | registry, pending slots, entry states, output rings | start, monitor, stop, stop and wait, page output, prune, shut down | four threads per command, processes that ignore SIGTERM or leave descendants, two mutexes |
| agent tasks (`store/workspace.rs`, `app/runtime/agent_scheduler.rs`, `app/http/agents.rs`) | team, instance, task, attempt, dependency and lease rows; live runs | enqueue, transfer, claim, wait, resume, finish, cancel, retry, recover, control | many transactions over several tables, leases, restarts with overlapping incarnations, operators |
| chat runs and streams (`app/runtime/subscriptions.rs`, `chat_run.rs`, `app/http/chat.rs`) | active runs, event cache, broadcast, guidance channel, `run_events`, unread messages | register, record, project, deliver, subscribe, replay, poll, complete | three critical sections per event, two publishers, lagging and reconnecting clients, a run that is registered again after every wait |
| scheduled tasks (`app/scheduled_tasks/`) | task and run rows, Agent tasks | scan, claim, dispatch, reconcile; create, edit, run now, sync, cancel | rows are read and written back whole by several actors; restart between any two statements |
| LLM audit (`store/llm_audit_segments.rs`, `store/workspace.rs`) | request rows, rollups, segment rows, segment files | insert, capture, finalize, invalidate, append, rotate, migrate, prune | file and rows are not one transaction, appenders share a file without a lock, commits with an unknown outcome |
| questions (`app/runtime/questions.rs`) | pending questions | register, answer, drop | answer against cancellation |
| plans, memory jobs, provider retry, single instance | rows, lock file, attempt counters | see `PROJECT.json` | claims, retries, merges |

How they interact: a browser request or the agent scheduler starts a *run*. A
run asks the provider, plans the tool calls of each answer (`plan_tool_execution`),
and executes them under the shared lock registry. Tools start background
commands, delegate tasks to other agents and wait for them; a wait suspends the
run and the scheduler resumes the task later. Everything durable goes through
`open_workspace_database*`, that is through the gate, and the renewal of an
attempt's lease is one of the critical openers the gate keeps a slot for.

What makes each of the modelled components correct:

* **gate** - permits are conserved on every path; ordinary openers cannot use
  the critical reserve; first come, first served; nobody waits for ever; the
  timeout report names real holders.
* **tools** - conflicting calls never hold leases together, in the scope the
  resource has; a call takes all its locks or none; a waiter is always woken;
  calls of a batch that conflict start in the order the model issued them.
* **background commands** - the process limit holds and slots are given back
  once; a terminal status agrees with its reason and comes after the output; a forced
  stop ends the command; a client that pages loses nothing silently.
* **agent tasks** - tasks and attempts stay in step; the team capacity holds; a run that lost
  its attempt is fenced off; a recovery does not interrupt a live run; nothing enters a
  cancelled subtree;
  a satisfied wait ends.
* **scheduled tasks** - an occurrence becomes one run and a run one Agent task; a
  skip-if-running task does not overlap itself; a cancelled run leaves nothing
  running; whatever a restart interrupted is picked up again.
* **chat runs** - a stream ends, and its client has seen everything but what was
  overtaken; a message reaches the run it can only be meant for, and is consumed once.
* **LLM audit** - a locator reads back the dump it was made for; the first capture
  of a request stays; no dump is lost by its migration; the rollups are the counts
  of the rows; nothing but a torn segment creation stops the appends.

## 2. Modules

| module | models |
|---|---|
| `CapacityGate` | abstract: what the gate promises |
| `WorkspaceGate` | the gate; implements `CapacityGate` |
| `WorkspaceGate_proofs` | its theorems |
| `ToolResources` | locks of a tool call, overlap and conflict (operators) |
| `ToolPlan` | `plan_tool_execution`: rejection and grouping of a batch (operators) |
| `ToolExecution` | execution of plans by several runs over the lock registry |
| `ToolExecution_proofs` | its theorems |
| `BackgroundCommands` | registry, `start()`, monitor threads, stops, processes |
| `CommandOutput` | the output ring of one command and a paging client |
| `BackgroundCommands_proofs` | the theorems of both |
| `AgentTasks` | task queue, scheduler, recovery, operators |
| `AgentTasks_proofs` | its theorems |
| `ScheduledTasks` | the scheduler loop, the requests beside it, Agent tasks and the clock |
| `ScheduledTasks_proofs` | its theorems |
| `ChatRuns` | one run id: its registrations, publishers, clients and messages |
| `ChatRuns_proofs` | its theorems |
| `LlmAudit` | request rows, rollups and the segment store |
| `LlmAudit_proofs` | its theorems |
| `Iteration` | lemmas: least number, induction, functions defined by recursion on `0 .. N` |
| `MC*` | constants for TLC |

`ToolExecution` extends `ToolPlan`, which extends `ToolResources`.
`BackgroundCommands` and `CommandOutput` are two views of one component: the
first abstracts the bytes, the second the processes; they meet in "the monitor
joins both readers before `finish()`" (`Reap`/`JoinReaders` there, `FinishCommand` here).
Their names are apart because one module proves both.

### Correspondence with the code

The unit of atomicity is the code's: a critical section of a mutex, a store
transaction, or the piece of a future between two suspension points is one
action, and a handler with several of them takes several steps. `PROJECT.json`
maps each definition to its lines.

* **WorkspaceGate.** `available` and `queue` are `CountingSemaphoreState`, `held`
  the `SemaphorePermit`s a call owns, `ledger` the holder ledger. `TakeAtOnce`,
  `Enqueue`, `RefuseLate`, `TakeAtFront` and `GiveUp` are the ways through
  `acquire_until`. The condition variable needs no variable of its own: a waiter
  polls at least every 10 ms, so a turn of its loop is possible at any time.
  `expired` is one flag per call because the deadline starts once for both
  semaphores. `DropHolder`, `DropPermit` and `CloseDatabase` are the field drops
  of the handle in declaration order.
* **ToolExecution.** `active` is the registry's map as `<<call, lock>>` pairs.
  `Block` creates the `Notified` future under the mutex, `Drop` removes the locks
  under it and `Notify` is the `notify_waiters` after it. `Detach` returns a call
  at its deadline or on cancellation while its blocking worker goes on.
  `StopWaiting` drops the acquire future. Tools with the same lock and effect
  class are represented by one of them.
* **BackgroundCommands.** `start[c]` follows `start()`, `monitor[c]`
  `monitor_background_command`. `termination_reason()` and `finish()` are two
  critical sections and two actions (`Decide`, `FinishMonitor`). A SIGTERM changes
  nothing by itself: whether a process obeys is `LeaderExits`/`ChildExits`. The
  signals are those of the Unix build; elsewhere the graceful signal is already
  the kill. `StopAndWaitForWorkspace` places its requests in one step.
* **CommandOutput.** A chunk is its cursor, its size and whether its text fits a page by
  itself: surely ("fits"), never ("exceeds"), or depending on the other strings of the
  response ("borders"). `get_command_output` takes its status snapshot and its output in
  two steps. `Respond` is the loop of `limited_chunks` (`tools/command_tools.rs:326`), which
  pops the first chunk like any other. Chunks are cut at 1,999 newlines
  (`background_command.rs:34`), while a page counts the lines of every string of the
  response and lone carriage returns as well (`tools/output_budget.rs:845`), so a chunk may
  not fit, and then the page is empty, says that there is more and keeps the cursor.
* **AgentTasks.** Statuses are the columns' values; "orphaned" stands for an
  attempt interrupted with a reason other than a restart, which decides whether
  its wait is recovered. A lease is fresh or expired and may expire at any time,
  a live run's included. `rec[p]` is what an incarnation has read of the attempt
  it recovers; `renewed` records that the lease was renewed since, which is what
  the compare-and-set on the lease's expiry notices. A run may complete, fail, be
  cancelled, wait, or end without being able to write its outcome
  (`LoseOutcome`). `Crash` ends an incarnation with all its runs; two incarnations
  may overlap.

  Left out: queue limits, deferral until the workspace is idle, plan-bound
  filters, events and messages, any-of waits, the repair of a repeated wait call,
  worktrees, remote workspaces and the "failed" statuses of teams and instances.
  A run may also complete without the implicit wait for its delegations.

* **ScheduledTasks.** Every statement or transaction is one action. `loc` is what a
  handler has read and will write back whole, `sched` the locals of
  `dispatch_due_scheduled_tasks`. `rewound`, `torn` and `revived` are history:
  occurrences that a stale write made due again, runs whose dispatch a
  cancellation overlapped, and Agent tasks that were retried or recovered after they had
  ended; the properties name them as their exceptions. `CallFails` is an error of
  the gated open or of a statement, at any of the statements in `Failing`: nothing is
  written and `?` ends the handler or the scan. If that happens, or the process ends, after
  the Agent task of a run was committed and before the run is linked to it
  (`scheduler.rs:595`), the Agent task is `Lost`: it goes on with no run that knows it. `AgentMoves` are the status
  changes of an Agent task that happen beside the scheduler, retries included. A clock tick is half
  a second, because `num_seconds` truncates. Cron expressions are left out; an
  interval and a one-shot schedule are what `next_run_after` distinguishes otherwise.
* **ChatRuns.** `db` is `run_events`, `cache` and `sent` what each registration (a
  `life`) has pushed and broadcast, in order. `RecordEvent`, `Push` and `Send` are
  the three critical sections of a published event; `ProjectInsert` .. `ProjectSend`
  are those of the scheduler, which publishes the ends of delegated tasks beside the
  run. Both kinds of stream are in `stream[c]`: `Join` and `Replay` for the snapshot
  of the cache, `Receive`, `Lagged`, `Terminal` for the channel, `PollTask`,
  `PollEvents` for the database polling that only the stream of a coordinator has.
  `Deliver` matches the runs of the receiving instance that accept guidance, of the task
  the message names if it names one, and delivers to exactly one (`MeansUs`,
  `MeansRival`). The other run of an instance that can be registered at the same time is
  one whose attempt a recovery closed and that goes on while the instance runs its next
  task; it is seen only through the messages it takes (`rival`, `theirs`). A coordinator
  has none, because its run is the primary one of its chat.
  Left out: guidance pushed by the user, snapshots of cancelled runs, a second
  registration of a run id that is refused.
* **LlmAudit.** `th[t]` follows one thread through a store operation: `op` is the
  operation, `at` the statement or file operation that comes next in `append_detail`.
  A file is a sequence of cells of the records written to it, so that a write in the
  middle replaces what was there; `synced` is what a loss of power leaves. `Fails`
  and `WriteFails` are errors before and within an operation, `Reported` a commit
  that took place although an error is returned. `overwritten`, `unsure`, `torn` and
  `pruned` are history. The rollup is the request count by final state. Left out:
  events, token sums, the one-time clean-up of dumps that predate the format. One
  request stands for a run; a run with several requests finalizes them one by one.

## 3. Runs

| run | bounds | properties |
|---|---|---|
| `gate` | 3 open calls, capacities 2 and 1 | `PermitConservation`, `LedgerShowsOwners`, `NoOvertaking`, `OpenResolves`, `PromiseKept` |
| `tools` | 1 run with any batch of 1 or 2 of 10 calls or 3 of 6; 2 runs with pairs of 4 batches and a hook rewrite; 3 runs in 2 workspaces | `BatchOrder`, `LeasesExclude`, `NoLostWakeup`, `WorkersExclude`, `BatchCompletes` |
| `background` | 2 commands and 1 slot; 1 command with a timeout, both kinds of descendants and all stops | `PendingExact`, `SlotLimit`, `DrainedWhenDone`, `StatusExplained`, `WorkspaceStopEnds` |
| `bg_output` | budget 4, reads of 3, chunks of 2, 6 chunks that fit a page, exceed it or border on it | `NoSilentGap`, `CompleteWhenDone`, `PagingEnds` |
| `agent_team` | 4 workloads of 2 or 3 tasks: recovery by 2 incarnations, a chain of 3 delegations with capacity 1, 2 tasks queued for one instance under two sets of controls | `AttemptsMatch`, `TeamCapacity`, `FencedRuns`, `RenewedNotInterrupted`, `SubtreeSealed` |
| `agent_live` | parent and child, 2 incarnations, draining team | `SatisfiedWaitEnds` |
| `agent_cancel` | 3 tasks, parent waits twice | violates `SubtreeCancellable` |
| `scheduled` | 1 skip-if-running task with an anchored interval of 1 s, half-second clock up to 1.5 s, 1 request, 1 restart or failing call, 4 runs, 3 Agent tasks | `OccurrenceOnce`, `DispatchBound`, `NoOverlap`, `CancelledStops`, `NextRunExact`, `CatchesUp` |
| `chat_runs` | a plain chat with 5 events and 2 connections; one whose run fails and cannot report it; a coordinator with a delegated task, with and without a fault; an agent with 2 messages and 3 registrations, with and without a fault; the same beside another run of the instance, with messages that name its task, another one or none; channel of 1, batches of 2 | `LossOnlyByOvertaking`, `ConsumedOnce`, `NoneStranded`, `ConsumedIsTold`, `StreamEnds` |
| `chat_gap` | a coordinator, a delegated task, 1 connection | violates `PersistedRowsReplayed` |
| `audit` | 2 appending runs with a loss of power or a fault; 1 run with 2 captures, 2 faults, 2 crashes; the cleanup of 2 rows with the same; the cleanup beside a run; 3 segments of 4 cells | `LossExplained`, `RefusedOnlyByTornCreation`, `LegacyKept`, `RollupMatches`, `FirstCaptureWins` |
| `audit_overlap` | 2 runs, nothing goes wrong | violates `LocatorsReadable` |

The gate's `TypeOK`, `CriticalReserve` and `QueuesHoldWaiters`, the tools'
`AllOrNothing` and the `TypeOK` of `BackgroundCommands` are not checked again by a run:
they are proved for every instance (section 5). The other modules check their `TypeOK`
as the first conjunct of the invariant that relates their tables (`BatchOrder`,
`CompleteWhenDone`, `AttemptsMatch`, `DispatchBound`, `ConsumedOnce`, `RollupMatches`).

A module whose question has several instances has one run with a set of *workloads*:
a variable, chosen in `Init` and never changed, says what takes part and what may
happen. Each workload brings the cases of one question to their end without
multiplying its states with the others'.

Why the bounds are enough:

* *gate* - on the ordinary slot (capacity 1) there can be a holder, a waiter
  and a newcomer; on the total slot (capacity 2) an ordinary and a critical
  holder and a waiter; one call can be nested in another. Larger instances add
  positions in the queue; the theorems cover every capacity and number of calls.
* *tools* - conflicts are between pairs of calls, so two calls of each of two runs
  give every pattern of holder, waiter and second waiter. Batches of three are
  there because a group boundary needs a conflict on one side and a compatible
  call on the other. The third run is alone in its workspace.
* *background commands* - commands interact through the slot count only, which two
  starts and one slot saturate; the theorems cover the rest. The life of a command is
  its own, so the second workload has one command with everything that can happen to
  it. In `bg_output` one read can evict several chunks and the budget is not a
  multiple of the chunk size; six chunks are enough to evict a chunk before which the
  client is stuck.
* *agent tasks* - the number of attempts (two for the task under observation) and
  of tasks is bounded; two incarnations give an owner and a recovering rival. Tasks
  that are only waited for are never claimed where that keeps a run small.
* *scheduled tasks* - tasks share nothing but the scan, which stops at the first error
  for all of them; one task, one request and one restart or failing call give every interleaving of a
  scan with a read-modify-write. Four runs are more than the occurrences up to the last
  instant need, and three Agent tasks give a run that is handed over, lost and handed over
  again, or handed over twice, and the next run beside it. `Failing` leaves out the
  statements of the scan whose failure changes nothing but that the scan begins again,
  and those of a handler that has written nothing yet.
* *chat runs* - one client, since clients share only the channel; a channel of one
  frame lags at once; two publishers (the run and the scheduler) suffice to overtake.
  Two messages give each pair of different names, and one other run of the instance is
  what makes a message without a name ambiguous.
* *audit* - a record takes one or two cells and a segment rotates after four, so
  records straddle, fill and leave a segment; two appenders give every overlap of two.

Deadlock is not checked where the system may stop: batches end, a client has its
last page, all incarnations may have crashed.

### Fairness

Only what the code's scheduling gives:

* *gate*: a thread in `acquire_until` polls, time passes, an error returns. No
  caller has to drop its handle, so `OpenResolves` holds even if none ever does.
* *tools*: the executor polls ready futures, hooks and workers end or are cut off
  by the tool's deadline. No wait has to time out, so `BatchCompletes` does not
  lean on the timeout of the lock wait.
* *background commands*: monitors poll at most 250 ms apart, deadlines pass,
  SIGKILL ends what it reaches, a closed pipe is noticed. No process has to end by
  itself or on SIGTERM.
* *command output*: readers end with their pipe, the monitor finishes, the client
  keeps asking.
* *agent tasks*: a live scheduler scans again (wake-up, next deadline, idle
  fallback). Runs, operators and recoveries have no fairness. The resumption of a
  satisfied wait also needs a permit of the global run limit
  (`app/runtime/agent_scheduler.rs:1315`), which is not modelled: `SatisfiedWaitEnds`
  holds as long as runs of other teams do not keep all of them for ever.
* *scheduled tasks*: the scheduler loop is polled, and nothing else: a request may be
  dropped at any await, no Agent task has to end and the clock may stop.
* *chat runs*: a stream that is ready is polled. The run, the scheduler, senders and
  clients have no fairness, so a stream must end once its run has, with no help.
* `LlmAudit` states no liveness: its operations are sequential code without waits.

## 4. Findings and deviations

`agent_cancel` (code bug): every suspension keeps its attempt 'suspended' after the
task is resumed, and `cancel_agent_task_subtree` requires exactly one suspended
attempt of a waiting task (`store/workspace.rs:16290`). A task that has waited twice
has two, so the cancellation of any subtree it belongs to is rolled back.

`chat_gap` (code bug): the sequence of a row of `run_events` is allocated by the
database, but the row enters the cache and the broadcast later, and only while the run
is registered. Both streams drop a frame whose sequence is not above the last one they
delivered, and the database is polled after that same sequence, so a row that was
overtaken, or appended between two registrations and found after the first frame of the
second, is never delivered (`app/http/chat.rs:1721`). `LossOnlyByOvertaking` shows that
nothing else is lost.

`audit_overlap` (code bug): `append_detail` seeks to the end of the active segment and
writes later, on a handle without `O_APPEND` and under no lock, while the gate admits
several connections (`store/llm_audit_segments.rs:306`). Two requests that append at the
same time get the same offset; the second record goes over the first, whose locator
fails its digest from then on. `LossExplained` shows that, but for the next item, this
is the only way to lose a dump.

Further deviations were met while modelling. The models contain the behaviour; no
run is kept for it:

* `stop_and_wait` returns `Stopped` while a descendant that redirected its output
  may still run (`tools/background_command.rs:551` promises that the process tree
  has exited); `DrainedWhenDone` states what is guaranteed.
* a stop that arrives while the monitor joins the readers is never signalled
  (`background_command.rs:1135`); `WorkspaceStopEnds` holds because that caller kills
  the group itself.
* `stop_and_wait_for_workspace` misses a child that is spawned and not yet published
  (`:589`), and a stop between `termination_reason()` and `finish()` records a reason
  on a command that exited by itself (`:852`).
* a wait on a draining instance undoes the drain (`store/workspace.rs:17094`).
* the recovery path that suspends a task with an open wait compares neither attempt
  nor lease (`app/runtime/agent_scheduler.rs:802`) and can take it from a live run.
* a transfer can move a dependency behind its waiter in the same queue
  (`store/workspace.rs:16337`).
* `byte_size` is repaired to the length of a file that is not yet synced; if that
  length is lost with the power, the next locator is counted from a size ahead of the
  file (`llm_audit_segments.rs:319`). `LossExplained` names it (`unsure`).
* a segment creation that is cut short leaves a row named 'pending' or a file without
  a header, and every later append of the workspace is refused; `pending` is UNIQUE, so
  one of two threads that rotate at the same time is refused too
  (`llm_audit_segments.rs:343`). `RefusedOnlyByTornCreation` says that nothing else does it.
* a dump that cannot be read back makes `llm_request` of its row fail, and with it
  later captures and the retry of a failed finalization.
* the misfire policy and the overlap policy QueueAfterCurrent are stored and never
  read by the scheduler; a pending run whose input cannot be built (its Agent
  definition was removed) aborts every scan (`Poisoned`); a manual run may be
  dispatched twice, by its request and by the reconciliation (`DispatchBound`); a
  cancellation of a running run only signals its Agent task.
* a chunk of command output that does not fit a page by itself is never delivered: the
  page is empty, says that there is more and keeps the cursor
  (`tools/command_tools.rs:333`), until newer output evicts the chunk. It takes 1,999 lines
  and a rest, or as many lone carriage returns. `docs/background-run-command-contract.md:52`
  promises the next complete chunk. `PagingEnds` names it as the only way to page for ever
  (`Stuck`).
* a failing open or update after `queue_chat_message_internal` leaves a scheduled run
  pending without its Agent task (`app/scheduled_tasks/scheduler.rs:597`): the next scan
  queues a second one, and a cancellation marks the run and leaves the first running.
  `DispatchBound` and `CancelledStops` set lost Agent tasks aside for this reason only.
* an agent message that names another task of its receiver, or names none while two of
  the receiver's runs are registered, stays unread beside a run that accepts guidance
  (`docs/agent-send-message-guidance-contract.md:6` says so); `NoneStranded` is claimed of
  the others.
* a message sent between the registration of a run and the snapshot of its prompt is
  put before the model twice, though consumed once; one consumed by a prompt whose setup
  then fails is never put before a model (`ConsumedIsTold` is claimed without faults).

## 5. Proofs

The proof modules prove, for all values of the constants that satisfy the named
assumptions, `Init => IInv`, `IInv /\ [Next]_vars => IInv'` and the properties from
`IInv`.

**WorkspaceGate_proofs** (assumptions: `Opens` is finite, `NoOpen` is not one of them,
`0 < OrdinaryCapacity < TotalCapacity`).
`IInv == TypeOK /\ OwnedByPC /\ PermitConservation /\ QueuesHoldWaiters`.

* `PermitConservation` alone is inductive only if a step that takes a permit does
  not own it already and one that gives it back does; `OwnedByPC`, which says for
  each place in the call which permits it owns, provides that.
* `QueuesHoldWaiters` is carried by three lemmas on lists without repetition
  (append, tail, removal of an element), and `TypeOK` needs it because a removal
  from a queue that does not hold the call would be undefined.
* Theorems: `TypeCorrect`, `PermitsConserved`, `NoGhostWaiters`, `ReserveKept` (the
  holders of total permits would otherwise inject into the ordinary ones),
  `LedgerSound`, `FirstComeFirstServed`.
* `PromiseRefined`: the gate implements `CapacityGate`. Taking the total permit is
  the admission of the abstract gate (`TakeAdmits`: an ordinary opener that gets there
  already owns an ordinary permit, so it is counted under `OrdinaryCapacity`), giving
  it back is `Leave`, and everything else is invisible.

**ToolExecution_proofs** (assumption: a batch has at most `MaxCalls` calls; none on runs,
workspaces, rewrites or on `PathKey`).
`IInv == Typed /\ LeasesExclude /\ Registry /\ WorkersHaveLease /\ NoLostWakeup`, and for the
order of a batch `InOrder` on top of it.

* `Registry` says that the active pairs are exactly the locks of the running calls;
  it makes `LeasesExclude` inductive under release and yields `AllOrNothing`.
* `NoLostWakeup` is inductive because only a release can unblock a call, and a
  release goes through "notifying". The symmetry of `Clash` is a lemma.
* `GroupsLaid` is about `plan_tool_execution` itself: in the plan of an accepted batch two
  file calls that conflict stand in different groups, in the order of the batch. Its loop
  invariant is `Laid`, kept by placing one more call (`PlaceCallLays`). A lock on the whole
  workspace comes only from a patch that does not parse, which is planned as sequential.
* `InOrder` follows a plan while it runs: the calls of a group that was not begun are idle
  (`Queued`), the ones before the group at hand have ended (`Begun`). With `GroupsLaid`, a
  call that starts finds every earlier one it conflicts with behind it.
* Theorems: `LeaseExclusion`, `WakeupsReach`, `AtomicAcquisition`, `WorkerExclusion`,
  `OrderKept`.

**BackgroundCommands_proofs** (assumptions: `Commands` is finite and every command has
a workspace in `Workspaces`, `MaxActive > 0`; any workload).
`IInv == TypeOK /\ Progress /\ PendingExact /\ SlotLimit /\ DrainedWhenDone /\ StatusExplained`.

* Only `start()` takes and gives back slots (`StartOrQuiet`): every other step leaves
  the counters alone and lists or revives nothing, so `PendingExact` is a matter of the
  seven steps of `start()`. `TypeOK` needs it: without it a release could go below zero.
* `SlotLimit` needs `PendingExact`, because `reserve_command_slot` counts the starts
  with the counter, and `Progress`, because the two sets it adds up must be apart.
* `DrainedWhenDone` and `StatusExplained` are decided steps before they are published;
  `Progress` carries what the verdict was based on (the first request, the readers'
  end), which no later step takes back.
* Theorems: `TypeCorrect`, `PendingCounted`, `SlotsLimited`, `OutputDrained`,
  `ReasonRecorded`.

The same module proves the output buffer of a command (assumptions: a chunk is not empty and no longer than a read, a read no longer than
the buffer; any number of chunks). `OutputSound == Filled /\ Ending /\ Paged`.

* `Sound` is what the buffer is after every turn of the loops of `append`: cursors are
  consecutive and end at the last one given out, `retained_bytes` is the sum of the chunks
  (`AddUp`), nothing was dropped while all chunks are there. `PopFrontSound`,
  `EvictedSound`, `PushSound` and `PushAllSound` follow the code inwards out; the eviction
  loop ends with room because an empty buffer retains nothing.
* `UnreadFollows` says what `read_after` returns for every cursor: the chunks after the
  later of the cursor and the last evicted chunk. With it a response is arithmetic on
  intervals: gone, delivered before, delivered now. A page without chunks reports a
  range and keeps an expired cursor; the chunks between that cursor and the buffer are gone
  already, so the range it reports again adds nothing that was delivered.
* `Ending` orders the end of the readers, of the command and of the client's snapshot.
* Theorems: `NothingLostSilently`, `DoneIsComplete`.

**AgentTasks_proofs** (assumptions: `Tasks` is finite, owners and parents are in the sets
they should be in, a workload names tasks, instances and processes that exist; any
shape of delegation, number of processes and workload).
`IInv == AttemptsMatch /\ TeamCapacity /\ NumberedRuns`.

* `AttemptsMatch` (with `TypeOK`, its first conjunct) is inductive by itself: every
  transaction that moves a task looks at the status it moves it from and closes the
  attempts that belong to it. `TeamCapacity` needs only that a claim is the one way a
  task starts to run.
* `NumberedRuns` says that a live run carries the number of its attempt; without it a
  heartbeat would renew, and an outcome close, whichever attempt is active.
* `FencedRuns`, `RenewedNotInterrupted` and `SubtreeSealed` are action properties; the
  first two follow from `AttemptsMatch`, since the guards compare the attempt of the
  run, not the task. `Ancestors`, what a recursive query returns, is defined as the
  least closed set, so the theorem covers every depth.
* Theorems: `AttemptsMatched`, `CapacityKept`, `RunsFenced`, `RenewalProtects`,
  `SealedSubtrees`.

**ChatRuns_proofs** (assumptions: positive capacity and batch limit; messages,
delegated tasks and the run are told apart; any workload).
`IInv == TypeOK /\ Entry /\ Projecting /\ Rowed /\ Told /\ Arrives /\ StreamsSound`.

* `Entry` ties the registry entry to the life of its owner, `Projecting` the lookup of
  the scheduler to a life, `Rowed`, `Told` and `Arrives` follow a message from its row to
  the run that consumes it; `Due` are the messages that no other run can match. Of the
  other run of the instance the proofs use only that it moves a message from unread to read
  elsewhere (`RivalMoves`).
* `StreamsSound` is what loss-freedom needs. A frame that waits in a stream is preceded
  in its log only by frames that the client has passed or that wait before it
  (`FromCache`, `FromTable`); what a yield skips was therefore overtaken. It must hold
  through lagging, replaying, polling and a second registration.
* `Replay` and `PollEvents` are loops, written as functions by recursion on a prefix;
  `Preceded` is their invariant, proved with `Iteration`.
* Theorems: `StreamsLoseNothingElse`, `MessagesConsumedOnce`, `MessagesArrive`,
  `MessagesTold`.

**LlmAudit_proofs** (assumptions: finitely many requests, records of positive length,
a rotation size above one cell; any workload of faults, crashes and losses of power).
`IInv == RollupMatches /\ Duties /\ Legacy /\ Disk`.

* `Duties` says which thread works on which row, what it has still to append and what it
  has located; without it nothing says that the row a thread commits to is the one it
  has read. `Legacy` keeps the rows of the old format to the threads that migrate them.
* `Disk` relates the rows of segments, the files and what is durable of them. A thread
  between its search for the end of the file and the update of the size is `Seated`: its
  record is where it says, unless another appender wrote over it, and then
  `overwritten` says so.
* Every step is one thread's effect on its row, on the books and on the disk
  (`Does`); each action is shown to be one, and the invariant is shown once for `Does`.
* Theorems: `CountsMatch`, `LocatorsLost`, `AppendsRefused`, `LegacyStays`, `CapturesKept`.

**ScheduledTasks_proofs** (assumptions: `Instants` within the time modelled, positive unit
and scan limit, an interval is positive, NULL is no task; any number of tasks, requests,
runs and Agent tasks, and any set of Agent-task moves).
`IInv == TypeOK /\ Steady /\ Occurrences /\ OccurrenceOnce /\ (Kept for every run) /\
Alternate /\ Cleared`; whatever set of statements may fail.

* Every actor writes back what it read earlier, so the invariant is mostly about
  snapshots: `Steady` says what each snapshot has in common with the rows now, which
  Agent task nobody but its dispatcher knows, and who dispatches a run.
* `Budget` counts, for each run, the Agent tasks it has and those that may still be
  queued for it: one for a claimed run, and for a manual one two, since both its request
  and the loop may be about to dispatch it. `DispatchBound` is its consequence.
* `Alternate` and `Cleared` say that a skipping task's earlier runs have ended, before and
  after the loop decided to start another; `Follows` and `Cancels` tie the status of a
  run to what its Agent tasks can still do.
* A crash and a failing call are the same step for different actors (`Ends`): these forget
  what they hold, and the Agent tasks they were about to link lose their run. No row and no
  other snapshot names such an Agent task yet, so the rest of the invariant is not touched.
* The attempt to prove `NoOverlap` and `CancelledStops` as they were first stated failed
  for a reason, and TLC then found the counterexamples with larger bounds: an Agent task
  that has ended can be retried or recovered and then runs beside the next run of the
  task; a manual run that its request and the loop both dispatched is cancelled through
  one of its two Agent tasks while the other goes on. Both are what the code does; the
  properties name them (`revived`, a run with one Agent task), and the run includes a retry.
* `NextRunExact` is arithmetic: `interval_next_run` gives the least occurrence after now.
* Theorems: `OccurrencesOnce`, `DispatchesBounded`, `SkippedRunsApart`,
  `CancelledRunsStop`, `NextRunsExact`.

**Iteration** holds what the proofs about tools, output, chat runs, audit and schedules
share: a set of numbers has a least one, induction over the numbers a statement holds of,
and that a function defined by recursion on `0 .. N` exists. The library's induction
theorems take an operator, which the provers cannot instantiate; well-foundedness of `<` on
`Nat`, which they can, gives the same.

**Only model-checked:** liveness (`OpenResolves`, `BatchCompletes`,
`WorkspaceStopEnds`, `PagingEnds`, `SatisfiedWaitEnds`, `CatchesUp`, `StreamEnds`), which
needs fairness and ENABLED.

## 6. Not modelled

The effects of single tools on files and network, provider wire formats, prompt
assembly, ranking of memories, parsing for the code graph, remote forwarding over
SSH, MCP, terminals, Git, updates and the web client: I/O or text processing whose
correctness is not a question of states and interleavings, or too large to be
followed line by line. `PROJECT.json` gives the reason for each.

## 7. Plan

Done: gate, tools, background commands, agent tasks, scheduled tasks, chat runs, LLM
audit, in the order of how much of the system rests on them.

Next modules: `Questions` (registration against answer and cancellation), the claim and
retry of plan steps, provider retry, the single-instance guard, WebSocket sessions, the
claims of memory jobs.

Every invariant that a passing run checks is proved; what the next modules check is to be
proved with them.
