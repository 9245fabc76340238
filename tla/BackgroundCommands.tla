------------------------- MODULE BackgroundCommands -------------------------
(***************************************************************************)
(* The registry of managed background commands and the monitor thread of   *)
(* each command (tools/background_command.rs).                             *)
(*                                                                         *)
(* Every critical section of the registry mutex, of an entry's state mutex *)
(* or of its child mutex is one action.  The operating system is modelled  *)
(* from how the code uses process_wrap: a child leads a process group, a   *)
(* signal reaches the whole group, try_wait reports the leader.  A         *)
(* descendant of the leader may outlive it, with the captured pipes open   *)
(* or with its output redirected elsewhere.                                *)
(***************************************************************************)
EXTENDS Integers, FiniteSets

CONSTANTS Commands,        \* calls of start, one command each
          Workspaces, WorkspaceOf(_),
          MaxActive,       \* limits.max_active_per_workspace
          Workloads        \* which commands are started, and what happens to them

ASSUME CommandsAssumption ==
    IsFiniteSet(Commands) /\ \A c \in Commands : WorkspaceOf(c) \in Workspaces
ASSUME WorkloadsAssumption ==
    \A l \in Workloads :
        /\ l.started \cup l.timed \cup l.stopped \cup l.awaited \subseteq Commands
        /\ l.cleared \subseteq Workspaces
        /\ l.descendants \subseteq {"piped", "detached"}
ASSUME MaxActiveAssumption == MaxActive \in Nat \ {0}

VARIABLES
    load,         \* the workload: the commands that are started, those with a
                  \* timeout, the descendants they leave, the stops that callers ask for
    start,        \* start[c]: progress of start()
    pending,      \* pending_starts_by_workspace
    entries,      \* commands in RegistryState.entries
    status,       \* BackgroundCommandEntryState.status ...
    request,      \* ... requested_termination.reason, or "none"
    signals,      \* ... how far the request has been signalled
    termination,  \* ... termination, recorded by finish
    monitor,      \* monitor[c]: progress of monitor_background_command
    verdict,      \* verdict[c]: the status the monitor decided on
    leader,       \* the direct child process
    child,        \* its surviving descendants in the process group
    killed,       \* a SIGKILL is on its way to the group
    readers,      \* the two output reader threads
    waiter,       \* a stop_and_wait call on c
    stopper,      \* stop_and_wait_for_workspace call on w ...
    targets,      \* ... and the commands it collected
    forcing       \* commands a shutdown has still to kill

entryVars == <<status, request, signals, termination>>
osVars == <<leader, child, killed, readers>>
callVars == <<waiter, stopper, targets, forcing>>
vars == <<load, start, pending, entries, entryVars, monitor, verdict, osVars, callVars>>

TerminalStatuses == {"Exited", "Stopped", "TimedOut", "Failed"}
Reasons == {"ExplicitStop", "Timeout", "HostShutdown"}
InFlight == {"reserved", "spawned", "monitored", "aborting"}

Terminal(c) == status[c] \in TerminalStatuses
Running(c) == c \in entries /\ status[c] = "Running"
In(w) == {c \in Commands : WorkspaceOf(c) = w}

TypeOK ==
    /\ load \in Workloads
    /\ start \in [Commands -> InFlight \cup {"idle", "published", "failed"}]
    /\ pending \in [Workspaces -> Nat]
    /\ entries \subseteq Commands
    /\ status \in [Commands -> TerminalStatuses \cup {"Running"}]
    /\ request \in [Commands -> Reasons \cup {"none"}]
    /\ signals \in [Commands -> {"none", "graceful", "force"}]
    /\ termination \in [Commands -> Reasons \cup {"none"}]
    /\ monitor \in [Commands -> {"none", "polling", "joining", "deciding",
                                 "finishing", "retiring", "done"}]
    /\ verdict \in [Commands -> TerminalStatuses \cup {"none"}]
    /\ leader \in [Commands -> {"none", "alive", "exited"}]
    /\ child \in [Commands -> {"none", "piped", "detached"}]
    /\ killed \in [Commands -> BOOLEAN]
    /\ readers \in [Commands -> {"none", "reading", "eof", "error"}]
    /\ waiter \in [Commands -> {"idle", "waiting", "returned"}]
    /\ stopper \in [Workspaces -> {"idle", "waiting", "returned"}]
    /\ targets \in [Workspaces -> SUBSET Commands]
    /\ forcing \subseteq Commands

Init ==
    /\ load \in Workloads
    /\ start = [c \in Commands |-> "idle"]
    /\ pending = [w \in Workspaces |-> 0]
    /\ entries = {}
    /\ status = [c \in Commands |-> "Running"]
    /\ request = [c \in Commands |-> "none"]
    /\ signals = [c \in Commands |-> "none"]
    /\ termination = [c \in Commands |-> "none"]
    /\ monitor = [c \in Commands |-> "none"]
    /\ verdict = [c \in Commands |-> "none"]
    /\ leader = [c \in Commands |-> "none"]
    /\ child = [c \in Commands |-> "none"]
    /\ killed = [c \in Commands |-> FALSE]
    /\ readers = [c \in Commands |-> "none"]
    /\ waiter = [c \in Commands |-> "idle"]
    /\ stopper = [w \in Workspaces |-> "idle"]
    /\ targets = [w \in Workspaces |-> {}]
    /\ forcing = {}

-----------------------------------------------------------------------------
\* prune_completed_entries: the terminal entries that are old enough go.
Prune == \E old \in SUBSET {c \in entries : Terminal(c)} : entries' = entries \ old

\* request_termination of every command in S: the first reason stays.
RequestLatest(S, reason) ==
    request' = [c \in Commands |->
                  IF c \in S /\ ~Terminal(c) THEN reason ELSE request[c]]

Request(S, reason) ==
    request' = [c \in Commands |->
                  IF c \in S /\ ~Terminal(c) /\ request[c] = "none"
                  THEN reason ELSE request[c]]

KillLeaderOnly(S) ==
    killed' = [c \in Commands |-> killed[c] \/ (c \in S /\ leader[c] = "alive")]

\* child.start_kill(): SIGKILL to the process group, if anyone is left in it.
Kill(S) ==
    killed' = [c \in Commands |->
                 killed[c] \/ (c \in S /\ (leader[c] = "alive" \/ child[c] # "none"))]

\* finish(): the first terminal status stays.
Finish(c, s) ==
    /\ status' = [status EXCEPT ![c] = IF Terminal(c) THEN @ ELSE s]
    /\ termination' = [termination EXCEPT ![c] = IF Terminal(c) THEN @ ELSE request[c]]

-----------------------------------------------------------------------------
(* start(): a slot is reserved, the child spawned, its readers and monitor  *)
(* started, and the entry published.  Any of these may fail.                *)

ActiveIn(w) == Cardinality({c \in In(w) : Running(c)})

HasSlotIgnoringPending(w) == ActiveIn(w) < MaxActive

HasSlot(w) == ActiveIn(w) + pending[w] < MaxActive

ReleasePending(w) == pending' = [pending EXCEPT ![w] = @ - 1]

\* reserve_command_slot; without a slot start() returns WorkspaceProcessLimit.
Reserve(c) ==
    LET w == WorkspaceOf(c) IN
    /\ c \in load.started /\ start[c] = "idle"
    /\ Prune
    /\ IF HasSlot(w)
         THEN /\ start' = [start EXCEPT ![c] = "reserved"]
              /\ pending' = [pending EXCEPT ![w] = @ + 1]
         ELSE /\ start' = [start EXCEPT ![c] = "failed"]
              /\ UNCHANGED pending
    /\ UNCHANGED <<entryVars, monitor, verdict, osVars, callVars>>

SpawnFailsKeepingSlot(c) ==
    /\ start[c] = "reserved"
    /\ start' = [start EXCEPT ![c] = "failed"]
    /\ UNCHANGED <<pending, entries, entryVars, monitor, verdict, osVars, callVars>>

\* The child cannot be spawned, or a pipe is missing and it was waited for.
SpawnFails(c) ==
    /\ start[c] = "reserved"
    /\ start' = [start EXCEPT ![c] = "failed"]
    /\ ReleasePending(WorkspaceOf(c))
    /\ UNCHANGED <<entries, entryVars, monitor, verdict, osVars, callVars>>

Spawn(c) ==
    /\ start[c] = "reserved"
    /\ start' = [start EXCEPT ![c] = "spawned"]
    /\ leader' = [leader EXCEPT ![c] = "alive"]
    /\ readers' = [readers EXCEPT ![c] = "reading"]
    /\ UNCHANGED <<pending, entries, entryVars, monitor, verdict, child, killed, callVars>>

\* A reader or the monitor thread cannot be started: force_terminate, and,
\* perhaps after joining the first reader, the slot is released.
InitializationFails(c) ==
    /\ start[c] = "spawned"
    /\ start' = [start EXCEPT ![c] = "aborting"]
    /\ Kill({c})
    /\ UNCHANGED <<pending, entries, entryVars, monitor, verdict, leader, child, readers,
                   callVars>>

Abort(c) ==
    /\ start[c] = "aborting"
    /\ start' = [start EXCEPT ![c] = "failed"]
    /\ ReleasePending(WorkspaceOf(c))
    /\ UNCHANGED <<entries, entryVars, monitor, verdict, osVars, callVars>>

StartMonitor(c) ==
    /\ start[c] = "spawned"
    /\ start' = [start EXCEPT ![c] = "monitored"]
    /\ monitor' = [monitor EXCEPT ![c] = "polling"]
    /\ UNCHANGED <<pending, entries, entryVars, verdict, osVars, callVars>>

\* publish_command: release_pending_slot and insert in one critical section.
PublishCommand(c) ==
    /\ start[c] = "monitored"
    /\ start' = [start EXCEPT ![c] = "published"]
    /\ ReleasePending(WorkspaceOf(c))
    /\ entries' = entries \cup {c}
    /\ UNCHANGED <<entryVars, monitor, verdict, osVars, callVars>>

-----------------------------------------------------------------------------
(* monitor_background_command                                               *)

\* check_timeout
CheckTimeout(c) ==
    /\ monitor[c] = "polling"
    /\ c \in load.timed
    /\ request[c] = "none"
    /\ Request({c}, "Timeout")
    /\ UNCHANGED <<start, pending, entries, status, signals, termination, monitor, verdict,
                   osVars, callVars>>

\* termination_action and send_termination: SIGTERM once and, once the grace
\* period is over, SIGKILL once.
SendTermination(c) ==
    /\ monitor[c] = "polling"
    /\ request[c] # "none"
    /\ signals[c] # "force"
    /\ IF signals[c] = "none"
         THEN signals' = [signals EXCEPT ![c] = "graceful"] /\ UNCHANGED killed
         ELSE signals' = [signals EXCEPT ![c] = "force"] /\ Kill({c})
    /\ UNCHANGED <<start, pending, entries, status, request, termination, monitor, verdict,
                   leader, child, readers, callVars>>

\* try_wait reports the leader's exit, and the readers are joined next.
ReapWithoutJoining(c) ==
    /\ monitor[c] = "polling"
    /\ leader[c] = "exited"
    /\ monitor' = [monitor EXCEPT ![c] = "deciding"]
    /\ UNCHANGED <<start, pending, entries, entryVars, verdict, osVars, callVars>>

Reap(c) ==
    /\ monitor[c] = "polling"
    /\ leader[c] = "exited"
    /\ monitor' = [monitor EXCEPT ![c] = "joining"]
    /\ UNCHANGED <<start, pending, entries, entryVars, verdict, osVars, callVars>>

\* try_wait fails: force_terminate and finish(Failed), then the same join.
WaitFails(c) ==
    /\ monitor[c] = "polling"
    /\ Kill({c})
    /\ Finish(c, "Failed")
    /\ monitor' = [monitor EXCEPT ![c] = "joining"]
    /\ UNCHANGED <<start, pending, entries, request, signals, verdict, leader, child, readers,
                   callVars>>

JoinReaders(c) ==
    /\ monitor[c] = "joining"
    /\ readers[c] \in {"eof", "error"}
    /\ monitor' = [monitor EXCEPT ![c] = "deciding"]
    /\ UNCHANGED <<start, pending, entries, entryVars, verdict, osVars, callVars>>

\* termination_reason(): read in a critical section before that of finish().
StatusFor(c) ==
    IF readers[c] = "error" THEN "Failed"
    ELSE IF request[c] = "Timeout" THEN "TimedOut"
    ELSE IF request[c] # "none" THEN "Stopped"
    ELSE "Exited"

Decide(c) ==
    /\ monitor[c] = "deciding"
    /\ verdict' = [verdict EXCEPT ![c] = StatusFor(c)]
    /\ monitor' = [monitor EXCEPT ![c] = "finishing"]
    /\ UNCHANGED <<start, pending, entries, entryVars, osVars, callVars>>

FinishMonitor(c) ==
    /\ monitor[c] = "finishing"
    /\ Finish(c, verdict[c])
    /\ monitor' = [monitor EXCEPT ![c] = "retiring"]
    /\ UNCHANGED <<start, pending, entries, request, signals, verdict, osVars, callVars>>

\* registry.upgrade() and the last prune.
Retire(c) ==
    /\ monitor[c] = "retiring"
    /\ Prune
    /\ monitor' = [monitor EXCEPT ![c] = "done"]
    /\ UNCHANGED <<start, pending, entryVars, verdict, osVars, callVars>>

-----------------------------------------------------------------------------
(* Calls on the registry                                                    *)

\* command, output_after, prune_completed
Query ==
    /\ Prune
    /\ UNCHANGED <<start, pending, entryVars, monitor, verdict, osVars, callVars>>

\* stop, stop_for_workspace, stop_for_chat and stop_for_workspace_chat: each
\* entry that was collected gets its request in a critical section of its own.
Stop(c) ==
    /\ c \in load.stopped \cap entries
    /\ Request({c}, "ExplicitStop")
    /\ UNCHANGED <<start, pending, entries, status, signals, termination, monitor, verdict,
                   osVars, callVars>>

StopAndWait(c) ==
    /\ c \in load.awaited \cap entries
    /\ waiter[c] # "waiting"
    /\ Request({c}, "ExplicitStop")
    /\ waiter' = [waiter EXCEPT ![c] = "waiting"]
    /\ UNCHANGED <<start, pending, entries, status, signals, termination, monitor, verdict,
                   osVars, stopper, targets, forcing>>

\* wait_for_entry_terminal returns a terminal snapshot, or an error when its
\* budget is spent or its caller is cancelled.
WaitReturns(c) ==
    /\ waiter[c] = "waiting"
    /\ waiter' = [waiter EXCEPT ![c] = IF Terminal(c) THEN "returned" ELSE "idle"]
    /\ UNCHANGED <<start, pending, entries, entryVars, monitor, verdict, osVars, stopper,
                   targets, forcing>>

StopAndWaitForWorkspace(w) ==
    LET ts == In(w) \cap entries IN
    /\ w \in load.cleared /\ stopper[w] # "waiting"
    /\ stopper' = [stopper EXCEPT ![w] = "waiting"]
    /\ targets' = [targets EXCEPT ![w] = ts]
    /\ Request(ts, "ExplicitStop")
    /\ UNCHANGED <<start, pending, entries, status, signals, termination, monitor, verdict,
                   osVars, waiter, forcing>>

\* wait_entry_terminal_or_force: the deadline has passed.
ForceTarget(w, c) ==
    /\ stopper[w] = "waiting"
    /\ c \in targets[w]
    /\ ~Terminal(c) /\ ~killed[c]
    /\ Kill({c})
    /\ UNCHANGED <<start, pending, entries, entryVars, monitor, verdict, leader, child, readers,
                   callVars>>

\* Every target is terminal, or was killed and the extra window is over.
StopperReturns(w) ==
    /\ stopper[w] = "waiting"
    /\ \A c \in targets[w] :
          Terminal(c) \/ killed[c] \/ (leader[c] = "exited" /\ child[c] = "none")
    /\ stopper' = [stopper EXCEPT ![w] = "returned"]
    /\ UNCHANGED <<start, pending, entries, entryVars, monitor, verdict, osVars, waiter,
                   targets, forcing>>

\* shutdown_all, and the drop of the registry: for each entry the request, and
\* then the kill, unless shutdown_all sees that the command has ended.
Shutdown(c) ==
    /\ c \in entries \ forcing
    /\ Request({c}, "HostShutdown")
    /\ forcing' = forcing \cup {c}
    /\ UNCHANGED <<start, pending, entries, status, signals, termination, monitor, verdict,
                   osVars, waiter, stopper, targets>>

ShutdownForces(c) ==
    /\ c \in forcing
    /\ forcing' = forcing \ {c}
    /\ Kill({c}) \/ (Terminal(c) /\ UNCHANGED killed)
    /\ UNCHANGED <<start, pending, entries, entryVars, monitor, verdict, leader, child, readers,
                   waiter, stopper, targets>>

-----------------------------------------------------------------------------
(* The operating system (external)                                          *)

Fork(c, kind) ==
    /\ kind \in load.descendants
    /\ leader[c] = "alive" /\ child[c] = "none" /\ ~killed[c]
    /\ child' = [child EXCEPT ![c] = kind]
    /\ UNCHANGED <<start, pending, entries, entryVars, monitor, verdict, leader, killed, readers,
                   callVars>>

\* A process ends: by itself, on SIGTERM, or because it was killed.
LeaderExits(c) ==
    /\ leader[c] = "alive"
    /\ leader' = [leader EXCEPT ![c] = "exited"]
    /\ UNCHANGED <<start, pending, entries, entryVars, monitor, verdict, child, killed, readers,
                   callVars>>

ChildExits(c) ==
    /\ child[c] # "none"
    /\ child' = [child EXCEPT ![c] = "none"]
    /\ UNCHANGED <<start, pending, entries, entryVars, monitor, verdict, leader, killed, readers,
                   callVars>>

\* The readers see the end of both pipes, or one of them an error.
PipesClosed(c) == leader[c] = "exited" /\ child[c] # "piped"

ReadersEnd(c) ==
    /\ readers[c] = "reading"
    /\ PipesClosed(c)
    /\ readers' = [readers EXCEPT ![c] = "eof"]
    /\ UNCHANGED <<start, pending, entries, entryVars, monitor, verdict, leader, child, killed,
                   callVars>>

ReadersFail(c) ==
    /\ readers[c] = "reading"
    /\ readers' = [readers EXCEPT ![c] = "error"]
    /\ UNCHANGED <<start, pending, entries, entryVars, monitor, verdict, leader, child, killed,
                   callVars>>
-----------------------------------------------------------------------------
StartStep(c) ==
    \/ Reserve(c) \/ SpawnFails(c) \/ Spawn(c) \/ InitializationFails(c) \/ Abort(c)
    \/ StartMonitor(c) \/ PublishCommand(c)

MonitorStep(c) ==
    \/ CheckTimeout(c) \/ SendTermination(c) \/ Reap(c) \/ WaitFails(c)
    \/ JoinReaders(c) \/ Decide(c) \/ FinishMonitor(c) \/ Retire(c)

SystemStep(c) ==
    \/ \E kind \in {"piped", "detached"} : Fork(c, kind)
    \/ LeaderExits(c) \/ ChildExits(c) \/ ReadersEnd(c) \/ ReadersFail(c)

CallStep(c) ==
    \/ Stop(c) \/ StopAndWait(c) \/ WaitReturns(c) \/ Shutdown(c) \/ ShutdownForces(c)

WorkspaceStep(w) ==
    \/ StopAndWaitForWorkspace(w) \/ StopperReturns(w)
    \/ \E c \in Commands : ForceTarget(w, c)

Step ==
    \/ \E c \in Commands : StartStep(c) \/ MonitorStep(c) \/ SystemStep(c) \/ CallStep(c)
    \/ \E w \in Workspaces : WorkspaceStep(w)
    \/ Query

Next == Step /\ UNCHANGED load

Spec == Init /\ [][Next]_vars

(* Monitor threads poll at most 250 ms apart, deadlines pass, a SIGKILL     *)
(* ends the processes it reaches and a closed pipe is noticed.  No process  *)
(* has to end by itself or on SIGTERM.                                      *)
Fairness ==
    /\ \A c \in Commands :
          /\ WF_vars(CheckTimeout(c) /\ UNCHANGED load)
          /\ WF_vars(SendTermination(c) /\ UNCHANGED load)
          /\ WF_vars(Reap(c) /\ UNCHANGED load)
          /\ WF_vars((JoinReaders(c) \/ Decide(c) \/ FinishMonitor(c)) /\ UNCHANGED load)
          /\ WF_vars(ReadersEnd(c) /\ UNCHANGED load)
          /\ WF_vars(killed[c] /\ LeaderExits(c) /\ UNCHANGED load)
          /\ WF_vars(killed[c] /\ ChildExits(c) /\ UNCHANGED load)
    /\ \A w \in Workspaces : \A c \in Commands : WF_vars(ForceTarget(w, c) /\ UNCHANGED load)

FairSpec == Spec /\ Fairness
-----------------------------------------------------------------------------
Starting(w) == {c \in In(w) : start[c] \in InFlight}

(* The pending counter of a workspace is the number of its starts between   *)
(* reservation and publication, on every path through start().              *)
PendingExact == \A w \in Workspaces : pending[w] = Cardinality(Starting(w))

(* However starts, exits and prunes interleave, a workspace never has more  *)
(* commands starting or running than max_active_per_workspace.              *)
SlotLimit ==
    \A w \in Workspaces :
        Cardinality(Starting(w) \cup {c \in In(w) : Running(c)}) <= MaxActive

(* A snapshot that says Exited, Stopped or TimedOut is published only after *)
(* the leader has exited and both pipes have been read to their end.        *)
DrainedWhenDone ==
    \A c \in Commands :
        status[c] \in {"Exited", "Stopped", "TimedOut"}
            => leader[c] = "exited" /\ readers[c] = "eof"

(* The recorded reason agrees with the status although finish() reads it    *)
(* again after the status was decided: the first request wins all races of  *)
(* stop, timeout and shutdown.                                              *)
StatusExplained ==
    \A c \in Commands :
        /\ status[c] = "TimedOut" => termination[c] = "Timeout"
        /\ status[c] = "Stopped" => termination[c] \in {"ExplicitStop", "HostShutdown"}

(* Every command that stop_and_wait_for_workspace collected ends, whatever  *)
(* its processes do with SIGTERM and however the leader and the descendants *)
(* end one by one, because the caller kills what is left at its deadline.   *)
WorkspaceStopEnds ==
    \A w \in Workspaces : \A c \in Commands :
        stopper[w] = "waiting" /\ c \in targets[w] ~> Terminal(c)
=============================================================================
