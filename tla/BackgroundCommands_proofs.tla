---------------------- MODULE BackgroundCommands_proofs ---------------------
(***************************************************************************)
(* Safety of the registry of background commands, for every finite set of  *)
(* commands, every limit and every workload, and of the output buffer of   *)
(* one command, for every size of buffer, read and chunk.                  *)
(*                                                                         *)
(* None of the four invariants of the registry is inductive.  The limit on active commands *)
(* needs the pending counter to be exact, and that a command in flight is  *)
(* not listed yet; what a terminal snapshot promises is decided steps      *)
(* before it is published, so Progress relates the monitor's verdict to    *)
(* the request and to the state of the readers when it was reached.        *)
(***************************************************************************)
EXTENDS BackgroundCommands, CommandOutput, Iteration, FiniteSetTheorems, SequenceTheorems, TLAPS

Ended == {"Exited", "Stopped", "TimedOut"}

(* How far start() and the monitor of a command are, and what they know. *)
Progress ==
    \A c \in Commands :
        /\ c \in entries => start[c] = "published"
        /\ start[c] \in {"idle", "reserved", "spawned"} => monitor[c] = "none"
        /\ monitor[c] = "none" => status[c] = "Running" /\ verdict[c] = "none"
        /\ monitor[c] = "deciding" => readers[c] \in {"eof", "error"}
        /\ monitor[c] = "finishing" => verdict[c] # "none"
        /\ readers[c] = "eof" => leader[c] = "exited"
        /\ verdict[c] \in Ended => readers[c] = "eof"
        /\ verdict[c] = "TimedOut" => request[c] = "Timeout"
        /\ verdict[c] = "Stopped" => request[c] \in {"ExplicitStop", "HostShutdown"}

IInv ==
    /\ TypeOK /\ Progress
    /\ PendingExact /\ SlotLimit /\ DrainedWhenDone /\ StatusExplained

-----------------------------------------------------------------------------
(* The starts of a workspace, and the slots taken in it, are finite sets. *)
LEMMA InFinite ==
    ASSUME NEW w, NEW S, S \subseteq In(w)
    PROVE  IsFiniteSet(S)
  BY CommandsAssumption, FS_Subset DEF In

(* A start in flight has its workspace's counter above zero. *)
LEMMA InFlightCounted ==
    ASSUME TypeOK, PendingExact, NEW c \in Commands, start[c] \in InFlight
    PROVE  WorkspaceOf(c) \in Workspaces /\ pending[WorkspaceOf(c)] \in Nat \ {0}
<1> DEFINE w == WorkspaceOf(c)
<1>1. w \in Workspaces
    BY CommandsAssumption
<1>2. IsFiniteSet(Starting(w)) /\ Starting(w) # {}
    BY InFinite DEF Starting, In
<1>3. Cardinality(Starting(w)) # 0
    BY <1>2, FS_EmptySet
<1> QED BY <1>1, <1>3 DEF PendingExact, TypeOK

(* Giving a slot back keeps the counters natural numbers. *)
LEMMA ReleaseTyped ==
    ASSUME TypeOK, PendingExact, NEW c \in Commands, start[c] \in InFlight,
           ReleasePending(WorkspaceOf(c))
    PROVE  pending' \in [Workspaces -> Nat]
<1> DEFINE w == WorkspaceOf(c)
<1>1. w \in Workspaces /\ pending[w] \in Nat \ {0}
    BY InFlightCounted
<1>2. pending' = [pending EXCEPT ![w] = @ - 1]
    BY DEF ReleasePending
<1>3. pending[w] - 1 \in Nat
    BY <1>1
<1> HIDE DEF w
<1> QED BY <1>1, <1>2, <1>3 DEF TypeOK

-----------------------------------------------------------------------------
(* Every step keeps the variables in their types.                           *)
LEMMA TypeStep == TypeOK /\ Progress /\ PendingExact /\ [Next]_vars => TypeOK'
<1> SUFFICES ASSUME TypeOK, Progress, PendingExact, [Next]_vars PROVE TypeOK'
    OBVIOUS
<1> USE DEF entryVars, osVars, callVars, InFlight, TerminalStatuses, Reasons
<1>0. CASE UNCHANGED vars
    BY <1>0 DEF vars, TypeOK
<1>a. load' = load
    BY DEF Next, vars
<1>1. ASSUME NEW c \in Commands, Reserve(c) PROVE TypeOK'
  <2>1. WorkspaceOf(c) \in Workspaces
      BY CommandsAssumption
  <2>2. pending' \in [Workspaces -> Nat]
      BY <1>1, <2>1 DEF Reserve, TypeOK
  <2>3. start' \in [Commands -> InFlight \cup {"idle", "published", "failed"}]
      BY <1>1 DEF Reserve, TypeOK
  <2> QED BY <1>a, <1>1, <2>2, <2>3 DEF Reserve, Prune, TypeOK
<1>2. ASSUME NEW c \in Commands, SpawnFails(c) PROVE TypeOK'
  <2>1. pending' \in [Workspaces -> Nat]
      BY <1>2, ReleaseTyped DEF SpawnFails
  <2> QED BY <1>a, <1>2, <2>1 DEF SpawnFails, TypeOK
<1>3. ASSUME NEW c \in Commands, Spawn(c) PROVE TypeOK'
    BY <1>a, <1>3 DEF Spawn, TypeOK
<1>4. ASSUME NEW c \in Commands, InitializationFails(c) PROVE TypeOK'
    BY <1>a, <1>4 DEF InitializationFails, Kill, TypeOK
<1>5. ASSUME NEW c \in Commands, Abort(c) PROVE TypeOK'
  <2>1. pending' \in [Workspaces -> Nat]
      BY <1>5, ReleaseTyped DEF Abort
  <2> QED BY <1>a, <1>5, <2>1 DEF Abort, TypeOK
<1>6. ASSUME NEW c \in Commands, StartMonitor(c) PROVE TypeOK'
    BY <1>a, <1>6 DEF StartMonitor, TypeOK
<1>7. ASSUME NEW c \in Commands, PublishCommand(c) PROVE TypeOK'
  <2>1. pending' \in [Workspaces -> Nat]
      BY <1>7, ReleaseTyped DEF PublishCommand
  <2> QED BY <1>a, <1>7, <2>1 DEF PublishCommand, TypeOK
<1>8. ASSUME NEW c \in Commands, CheckTimeout(c) PROVE TypeOK'
    BY <1>a, <1>8 DEF CheckTimeout, Request, TypeOK
<1>9. ASSUME NEW c \in Commands, SendTermination(c) PROVE TypeOK'
  <2>1. CASE signals[c] = "none"
      BY <1>a, <1>9, <2>1 DEF SendTermination, TypeOK
  <2>2. CASE signals[c] # "none"
    <3> Kill({c})
        BY <1>9, <2>2 DEF SendTermination
    <3>1. killed' \in [Commands -> BOOLEAN]
        BY DEF Kill, TypeOK
    <3>2. signals' \in [Commands -> {"none", "graceful", "force"}]
        BY <1>9, <2>2 DEF SendTermination, TypeOK
    <3> QED BY <1>a, <1>9, <3>1, <3>2 DEF SendTermination, TypeOK
  <2> QED BY <2>1, <2>2
<1>10. ASSUME NEW c \in Commands, Reap(c) PROVE TypeOK'
    BY <1>a, <1>10 DEF Reap, TypeOK
<1>11. ASSUME NEW c \in Commands, WaitFails(c) PROVE TypeOK'
    BY <1>a, <1>11 DEF WaitFails, Kill, Finish, TypeOK
<1>12. ASSUME NEW c \in Commands, JoinReaders(c) PROVE TypeOK'
    BY <1>a, <1>12 DEF JoinReaders, TypeOK
<1>13. ASSUME NEW c \in Commands, Decide(c) PROVE TypeOK'
    BY <1>a, <1>13 DEF Decide, StatusFor, TypeOK
<1>14. ASSUME NEW c \in Commands, FinishMonitor(c) PROVE TypeOK'
    BY <1>a, <1>14 DEF FinishMonitor, Finish, TypeOK, Progress
<1>15. ASSUME NEW c \in Commands, Retire(c) PROVE TypeOK'
    BY <1>a, <1>15 DEF Retire, Prune, TypeOK
<1>16. ASSUME NEW c \in Commands, NEW kind \in {"piped", "detached"},
             Fork(c, kind)
      PROVE  TypeOK'
    BY <1>a, <1>16 DEF Fork, TypeOK
<1>17. ASSUME NEW c \in Commands, LeaderExits(c) PROVE TypeOK'
    BY <1>a, <1>17 DEF LeaderExits, TypeOK
<1>18. ASSUME NEW c \in Commands, ChildExits(c) PROVE TypeOK'
    BY <1>a, <1>18 DEF ChildExits, TypeOK
<1>19. ASSUME NEW c \in Commands, ReadersEnd(c) PROVE TypeOK'
    BY <1>a, <1>19 DEF ReadersEnd, PipesClosed, TypeOK
<1>20. ASSUME NEW c \in Commands, ReadersFail(c) PROVE TypeOK'
    BY <1>a, <1>20 DEF ReadersFail, TypeOK
<1>21. ASSUME NEW c \in Commands, Stop(c) PROVE TypeOK'
    BY <1>a, <1>21 DEF Stop, Request, TypeOK
<1>22. ASSUME NEW c \in Commands, StopAndWait(c) PROVE TypeOK'
    BY <1>a, <1>22 DEF StopAndWait, Request, TypeOK
<1>23. ASSUME NEW c \in Commands, WaitReturns(c) PROVE TypeOK'
    BY <1>a, <1>23 DEF WaitReturns, TypeOK
<1>24. ASSUME NEW c \in Commands, Shutdown(c) PROVE TypeOK'
    BY <1>a, <1>24 DEF Shutdown, Request, TypeOK
<1>25. ASSUME NEW c \in Commands, ShutdownForces(c) PROVE TypeOK'
  <2>1. CASE Kill({c})
      BY <1>a, <1>25, <2>1 DEF ShutdownForces, Kill, TypeOK
  <2>2. CASE UNCHANGED killed
      BY <1>a, <1>25, <2>2 DEF ShutdownForces, TypeOK
  <2> QED BY <1>25, <2>1, <2>2 DEF ShutdownForces
<1>26. ASSUME NEW w \in Workspaces, StopAndWaitForWorkspace(w)
      PROVE  TypeOK'
    BY <1>a, <1>26 DEF StopAndWaitForWorkspace, Request, In, TypeOK
<1>27. ASSUME NEW w \in Workspaces, StopperReturns(w) PROVE TypeOK'
    BY <1>a, <1>27 DEF StopperReturns, TypeOK
<1>28. ASSUME NEW w \in Workspaces, NEW c \in Commands, ForceTarget(w, c)
      PROVE  TypeOK'
    BY <1>a, <1>28 DEF ForceTarget, Kill, TypeOK
<1>29. ASSUME Query PROVE TypeOK'
    BY <1>a, <1>29 DEF Query, Prune, TypeOK
<1>30. ASSUME NEW c \in Commands, StartStep(c) PROVE TypeOK'
    BY <1>30, <1>1, <1>2, <1>3, <1>4, <1>5, <1>6, <1>7 DEF StartStep
<1>31. ASSUME NEW c \in Commands, MonitorStep(c) PROVE TypeOK'
    BY <1>31, <1>8, <1>9, <1>10, <1>11, <1>12, <1>13, <1>14, <1>15 DEF MonitorStep
<1>32. ASSUME NEW c \in Commands, SystemStep(c) PROVE TypeOK'
    BY <1>32, <1>16, <1>17, <1>18, <1>19, <1>20 DEF SystemStep
<1>33. ASSUME NEW c \in Commands, CallStep(c) PROVE TypeOK'
    BY <1>33, <1>21, <1>22, <1>23, <1>24, <1>25 DEF CallStep
<1>34. ASSUME NEW w \in Workspaces, WorkspaceStep(w) PROVE TypeOK'
    BY <1>34, <1>26, <1>27, <1>28 DEF WorkspaceStep
<1> QED
    BY <1>0, <1>29, <1>30, <1>31, <1>32, <1>33, <1>34 DEF Next, Step

-----------------------------------------------------------------------------
(* What a snapshot reports stays true: Finish publishes a verdict whose     *)
(* grounds, the first request and the end of the pipes, no step takes back. *)
Reports == Progress /\ DrainedWhenDone /\ StatusExplained

LEMMA ReportsStep == TypeOK /\ Reports /\ [Next]_vars => Reports'
<1> SUFFICES ASSUME TypeOK, Reports, [Next]_vars PROVE Reports'
    OBVIOUS
<1> USE DEF TypeOK, Reports, Progress, DrainedWhenDone, StatusExplained,
            entryVars, osVars, callVars, Ended
<1>0. CASE UNCHANGED vars
    BY <1>0 DEF vars
<1>1. ASSUME NEW c \in Commands, Reserve(c) PROVE Reports'
    BY <1>1 DEF Reserve, Prune
<1>2. ASSUME NEW c \in Commands, SpawnFails(c) PROVE Reports'
    BY <1>2 DEF SpawnFails
<1>3. ASSUME NEW c \in Commands, Spawn(c) PROVE Reports'
    BY <1>3 DEF Spawn
<1>4. ASSUME NEW c \in Commands, InitializationFails(c) PROVE Reports'
    BY <1>4 DEF InitializationFails
<1>5. ASSUME NEW c \in Commands, Abort(c) PROVE Reports'
    BY <1>5 DEF Abort
<1>6. ASSUME NEW c \in Commands, StartMonitor(c) PROVE Reports'
    BY <1>6 DEF StartMonitor
<1>7. ASSUME NEW c \in Commands, PublishCommand(c) PROVE Reports'
    BY <1>7 DEF PublishCommand
<1>8. ASSUME NEW c \in Commands, CheckTimeout(c) PROVE Reports'
    BY <1>8 DEF CheckTimeout, Request, Terminal, TerminalStatuses
<1>9. ASSUME NEW c \in Commands, SendTermination(c) PROVE Reports'
    BY <1>9 DEF SendTermination
<1>10. ASSUME NEW c \in Commands, Reap(c) PROVE Reports'
    BY <1>10 DEF Reap
<1>11. ASSUME NEW c \in Commands, WaitFails(c) PROVE Reports'
    BY <1>11 DEF WaitFails, Finish, Terminal, TerminalStatuses
<1>12. ASSUME NEW c \in Commands, JoinReaders(c) PROVE Reports'
    BY <1>12 DEF JoinReaders
<1>13. ASSUME NEW c \in Commands, Decide(c) PROVE Reports'
  <2>1. /\ UNCHANGED <<start, entries, status, request, termination, readers, leader>>
        /\ \A d \in Commands : d # c => verdict'[d] = verdict[d] /\ monitor'[d] = monitor[d]
        /\ monitor[c] = "deciding" /\ monitor'[c] = "finishing"
        /\ verdict'[c] = StatusFor(c)
      BY <1>13 DEF Decide
  <2>2. /\ StatusFor(c) \in Ended => readers[c] # "error"
        /\ StatusFor(c) = "TimedOut" => request[c] = "Timeout"
        /\ StatusFor(c) = "Stopped" => request[c] \in {"ExplicitStop", "HostShutdown"}
        /\ StatusFor(c) # "none"
      BY DEF StatusFor, Reasons
  <2> QED BY <2>1, <2>2
<1>14. ASSUME NEW c \in Commands, FinishMonitor(c) PROVE Reports'
    BY <1>14 DEF FinishMonitor, Finish, Terminal, TerminalStatuses
<1>15. ASSUME NEW c \in Commands, Retire(c) PROVE Reports'
    BY <1>15 DEF Retire, Prune
<1>16. ASSUME NEW c \in Commands, NEW kind \in {"piped", "detached"},
             Fork(c, kind)
      PROVE  Reports'
    BY <1>16 DEF Fork
<1>17. ASSUME NEW c \in Commands, LeaderExits(c) PROVE Reports'
    BY <1>17 DEF LeaderExits
<1>18. ASSUME NEW c \in Commands, ChildExits(c) PROVE Reports'
    BY <1>18 DEF ChildExits
<1>19. ASSUME NEW c \in Commands, ReadersEnd(c) PROVE Reports'
    BY <1>19 DEF ReadersEnd, PipesClosed
<1>20. ASSUME NEW c \in Commands, ReadersFail(c) PROVE Reports'
    BY <1>20 DEF ReadersFail
<1>21. ASSUME NEW c \in Commands, Stop(c) PROVE Reports'
    BY <1>21 DEF Stop, Request, Terminal, TerminalStatuses
<1>22. ASSUME NEW c \in Commands, StopAndWait(c) PROVE Reports'
    BY <1>22 DEF StopAndWait, Request, Terminal, TerminalStatuses
<1>23. ASSUME NEW c \in Commands, WaitReturns(c) PROVE Reports'
    BY <1>23 DEF WaitReturns
<1>24. ASSUME NEW c \in Commands, Shutdown(c) PROVE Reports'
    BY <1>24 DEF Shutdown, Request, Terminal, TerminalStatuses
<1>25. ASSUME NEW c \in Commands, ShutdownForces(c) PROVE Reports'
    BY <1>25 DEF ShutdownForces
<1>26. ASSUME NEW w \in Workspaces, StopAndWaitForWorkspace(w)
      PROVE  Reports'
    BY <1>26 DEF StopAndWaitForWorkspace, Request, In, Terminal, TerminalStatuses
<1>27. ASSUME NEW w \in Workspaces, StopperReturns(w) PROVE Reports'
    BY <1>27 DEF StopperReturns
<1>28. ASSUME NEW w \in Workspaces, NEW c \in Commands, ForceTarget(w, c)
      PROVE  Reports'
    BY <1>28 DEF ForceTarget
<1>29. ASSUME Query PROVE Reports'
    BY <1>29 DEF Query, Prune
<1>30. ASSUME NEW c \in Commands, StartStep(c) PROVE Reports'
    BY <1>30, <1>1, <1>2, <1>3, <1>4, <1>5, <1>6, <1>7 DEF StartStep
<1>31. ASSUME NEW c \in Commands, MonitorStep(c) PROVE Reports'
    BY <1>31, <1>8, <1>9, <1>10, <1>11, <1>12, <1>13, <1>14, <1>15 DEF MonitorStep
<1>32. ASSUME NEW c \in Commands, SystemStep(c) PROVE Reports'
    BY <1>32, <1>16, <1>17, <1>18, <1>19, <1>20 DEF SystemStep
<1>33. ASSUME NEW c \in Commands, CallStep(c) PROVE Reports'
    BY <1>33, <1>21, <1>22, <1>23, <1>24, <1>25 DEF CallStep
<1>34. ASSUME NEW w \in Workspaces, WorkspaceStep(w) PROVE Reports'
    BY <1>34, <1>26, <1>27, <1>28 DEF WorkspaceStep
<1> QED
    BY <1>0, <1>29, <1>30, <1>31, <1>32, <1>33, <1>34 DEF Next, Step

-----------------------------------------------------------------------------
(* Only start() takes a slot: any other step leaves the starts and the      *)
(* counters alone, and lists and revives nothing.                           *)
Quiet ==
    /\ UNCHANGED <<start, pending>>
    /\ entries' \subseteq entries
    /\ \A d \in Commands : status'[d] = "Running" => status[d] = "Running"

LEMMA StartOrQuiet ==
    ASSUME TypeOK, [Next]_vars
    PROVE  Quiet \/ \E c \in Commands : StartStep(c)
<1> USE DEF Quiet, entryVars, osVars, callVars
<1>0. CASE UNCHANGED vars
    BY <1>0 DEF vars
<1>8. ASSUME NEW c \in Commands, CheckTimeout(c) PROVE Quiet
    BY <1>8 DEF CheckTimeout
<1>9. ASSUME NEW c \in Commands, SendTermination(c) PROVE Quiet
    BY <1>9 DEF SendTermination
<1>10. ASSUME NEW c \in Commands, Reap(c) PROVE Quiet
    BY <1>10 DEF Reap
<1>11. ASSUME NEW c \in Commands, WaitFails(c) PROVE Quiet
    BY <1>11 DEF WaitFails, Finish, Terminal, TerminalStatuses, TypeOK
<1>12. ASSUME NEW c \in Commands, JoinReaders(c) PROVE Quiet
    BY <1>12 DEF JoinReaders
<1>13. ASSUME NEW c \in Commands, Decide(c) PROVE Quiet
    BY <1>13 DEF Decide
<1>14. ASSUME NEW c \in Commands, FinishMonitor(c) PROVE Quiet
    BY <1>14 DEF FinishMonitor, Finish, Terminal, TerminalStatuses, TypeOK
<1>15. ASSUME NEW c \in Commands, Retire(c) PROVE Quiet
    BY <1>15 DEF Retire, Prune
<1>16. ASSUME NEW c \in Commands, NEW kind \in {"piped", "detached"},
             Fork(c, kind)
      PROVE  Quiet
    BY <1>16 DEF Fork
<1>17. ASSUME NEW c \in Commands, LeaderExits(c) PROVE Quiet
    BY <1>17 DEF LeaderExits
<1>18. ASSUME NEW c \in Commands, ChildExits(c) PROVE Quiet
    BY <1>18 DEF ChildExits
<1>19. ASSUME NEW c \in Commands, ReadersEnd(c) PROVE Quiet
    BY <1>19 DEF ReadersEnd
<1>20. ASSUME NEW c \in Commands, ReadersFail(c) PROVE Quiet
    BY <1>20 DEF ReadersFail
<1>21. ASSUME NEW c \in Commands, Stop(c) PROVE Quiet
    BY <1>21 DEF Stop
<1>22. ASSUME NEW c \in Commands, StopAndWait(c) PROVE Quiet
    BY <1>22 DEF StopAndWait
<1>23. ASSUME NEW c \in Commands, WaitReturns(c) PROVE Quiet
    BY <1>23 DEF WaitReturns
<1>24. ASSUME NEW c \in Commands, Shutdown(c) PROVE Quiet
    BY <1>24 DEF Shutdown
<1>25. ASSUME NEW c \in Commands, ShutdownForces(c) PROVE Quiet
    BY <1>25 DEF ShutdownForces
<1>26. ASSUME NEW w \in Workspaces, StopAndWaitForWorkspace(w)
      PROVE  Quiet
    BY <1>26 DEF StopAndWaitForWorkspace
<1>27. ASSUME NEW w \in Workspaces, StopperReturns(w) PROVE Quiet
    BY <1>27 DEF StopperReturns
<1>28. ASSUME NEW w \in Workspaces, NEW c \in Commands, ForceTarget(w, c)
      PROVE  Quiet
    BY <1>28 DEF ForceTarget
<1>29. ASSUME Query PROVE Quiet
    BY <1>29 DEF Query, Prune
<1>31. ASSUME NEW c \in Commands, MonitorStep(c) PROVE Quiet
    BY <1>31, <1>8, <1>9, <1>10, <1>11, <1>12, <1>13, <1>14, <1>15 DEF MonitorStep
<1>32. ASSUME NEW c \in Commands, SystemStep(c) PROVE Quiet
    BY <1>32, <1>16, <1>17, <1>18, <1>19, <1>20 DEF SystemStep
<1>33. ASSUME NEW c \in Commands, CallStep(c) PROVE Quiet
    BY <1>33, <1>21, <1>22, <1>23, <1>24, <1>25 DEF CallStep
<1>34. ASSUME NEW w \in Workspaces, WorkspaceStep(w) PROVE Quiet
    BY <1>34, <1>26, <1>27, <1>28 DEF WorkspaceStep
<1> QED
    BY <1>0, <1>29, <1>31, <1>32, <1>33, <1>34 DEF Next, Step

(* The counter follows the starts: a slot is counted when it is taken, and  *)
(* given back once, when the start fails or publishes its command.          *)
LEMMA PendingStep == TypeOK /\ Reports /\ PendingExact /\ [Next]_vars => PendingExact'
<1> SUFFICES ASSUME TypeOK, Reports, PendingExact, [Next]_vars,
                    NEW w \in Workspaces
             PROVE  pending'[w] = Cardinality(Starting(w)')
    BY DEF PendingExact
<1> USE DEF InFlight
<1>1. IsFiniteSet(Starting(w)) /\ pending[w] = Cardinality(Starting(w)) /\ pending[w] \in Nat
    BY InFinite DEF Starting, PendingExact, TypeOK
<1>2. ASSUME pending'[w] = pending[w],
             \A d \in In(w) : start'[d] \in InFlight <=> start[d] \in InFlight
      PROVE  pending'[w] = Cardinality(Starting(w)')
  <2>1. Starting(w)' = Starting(w)
      BY <1>2 DEF Starting, In
  <2> QED BY <1>1, <1>2, <2>1
<1>3. ASSUME NEW c \in In(w), start[c] \in InFlight, ReleasePending(w),
             start' \in {[start EXCEPT ![c] = "failed"], [start EXCEPT ![c] = "published"]}
      PROVE  pending'[w] = Cardinality(Starting(w)')
  <2>1. Starting(w)' = Starting(w) \ {c}
      BY <1>3 DEF Starting, In, TypeOK
  <2>2. c \in Starting(w)
      BY <1>3 DEF Starting
  <2>3. pending'[w] = pending[w] - 1
      BY <1>3 DEF ReleasePending, TypeOK
  <2> QED BY <1>1, <2>1, <2>2, <2>3, FS_RemoveElement
<1>4. CASE Quiet
    BY <1>2, <1>4 DEF Quiet
<1>5. ASSUME NEW c \in Commands, StartStep(c)
      PROVE  pending'[w] = Cardinality(Starting(w)')
  <2>1. CASE Reserve(c) /\ WorkspaceOf(c) = w /\ HasSlot(w)
    <3>1. Starting(w)' = Starting(w) \cup {c}
        BY <2>1 DEF Reserve, Starting, In, TypeOK
    <3>2. c \notin Starting(w)
        BY <2>1 DEF Reserve, Starting
    <3>3. pending'[w] = pending[w] + 1
        BY <2>1 DEF Reserve, TypeOK
    <3> QED BY <1>1, <3>1, <3>2, <3>3, FS_AddElement
  <2>2. CASE Reserve(c) /\ ~(WorkspaceOf(c) = w /\ HasSlot(w))
    <3>1. pending'[w] = pending[w]
        BY <2>2 DEF Reserve, TypeOK
    <3>2. \A d \in In(w) : start'[d] \in InFlight <=> start[d] \in InFlight
        BY <2>2 DEF Reserve, In, TypeOK
    <3> QED BY <1>2, <3>1, <3>2
  <2>3. CASE (SpawnFails(c) \/ Abort(c) \/ PublishCommand(c)) /\ c \in In(w)
      BY <1>3, <2>3 DEF SpawnFails, Abort, PublishCommand, In
  <2>4. CASE (SpawnFails(c) \/ Abort(c) \/ PublishCommand(c)) /\ c \notin In(w)
    <3>1. pending'[w] = pending[w]
        BY <2>4 DEF SpawnFails, Abort, PublishCommand, ReleasePending, In, TypeOK
    <3>2. \A d \in In(w) : start'[d] \in InFlight <=> start[d] \in InFlight
        BY <2>4 DEF SpawnFails, Abort, PublishCommand, In, TypeOK
    <3> QED BY <1>2, <3>1, <3>2
  <2>5. CASE Spawn(c) \/ InitializationFails(c) \/ StartMonitor(c)
    <3>1. pending'[w] = pending[w]
        BY <2>5 DEF Spawn, InitializationFails, StartMonitor
    <3>2. \A d \in In(w) : start'[d] \in InFlight <=> start[d] \in InFlight
        BY <2>5 DEF Spawn, InitializationFails, StartMonitor, In, TypeOK
    <3> QED BY <1>2, <3>1, <3>2
  <2> QED BY <1>5, <2>1, <2>2, <2>3, <2>4, <2>5 DEF StartStep
<1> QED BY <1>4, <1>5, StartOrQuiet

-----------------------------------------------------------------------------
(* The commands of w that hold a slot, starting or running. *)
Slots(w) == Starting(w) \cup {c \in In(w) : Running(c)}

LEMMA SlotStep == TypeOK /\ Reports /\ PendingExact /\ SlotLimit /\ [Next]_vars => SlotLimit'
<1> SUFFICES ASSUME TypeOK, Reports, PendingExact, SlotLimit, [Next]_vars,
                    NEW w \in Workspaces
             PROVE  Cardinality(Slots(w)') <= MaxActive
    BY DEF SlotLimit, Slots
<1> USE DEF InFlight
<1>1. IsFiniteSet(Slots(w)) /\ Cardinality(Slots(w)) <= MaxActive
    BY InFinite DEF Slots, Starting, SlotLimit
<1>2. ASSUME Slots(w)' \subseteq Slots(w)
      PROVE  Cardinality(Slots(w)') <= MaxActive
  <2>1. Cardinality(Slots(w)') <= Cardinality(Slots(w))
      BY <1>1, <1>2, FS_Subset
  <2>2. Cardinality(Slots(w)) \in Nat /\ Cardinality(Slots(w)') \in Nat
      BY <1>1, <1>2, FS_Subset, FS_CardinalityType
  <2> QED BY <1>1, <2>1, <2>2, MaxActiveAssumption
<1>3. CASE Quiet
  <2>1. Slots(w)' \subseteq Slots(w)
      BY <1>3 DEF Quiet, Slots, Starting, In, Running
  <2> QED BY <1>2, <2>1
<1>4. ASSUME NEW c \in Commands, Reserve(c)
      PROVE  Cardinality(Slots(w)') <= MaxActive
  <2>0. entries' \subseteq entries /\ UNCHANGED status
      BY <1>4 DEF Reserve, Prune, entryVars
  <2>1. CASE WorkspaceOf(c) = w /\ HasSlot(w)
    <3> DEFINE active == {d \in In(w) : Running(d)}
    <3>1. Slots(w)' \subseteq Slots(w) \cup {c}
        BY <1>4, <2>0, <2>1 DEF Reserve, Slots, Starting, In, Running, TypeOK
    <3>2. IsFiniteSet(active) /\ IsFiniteSet(Starting(w))
        BY InFinite DEF Starting
    <3>3. Cardinality(active) + Cardinality(Starting(w)) < MaxActive
        BY <2>1 DEF HasSlot, ActiveIn, PendingExact
    <3>4. Starting(w) \cap active = {}
        BY DEF Starting, Running, Reports, Progress, In
    <3>5. Cardinality(Slots(w)) = Cardinality(Starting(w)) + Cardinality(active)
      <4>1. Cardinality(Slots(w)) =
                Cardinality(Starting(w)) + Cardinality(active) - Cardinality(Starting(w) \cap active)
          BY <3>2, FS_Union DEF Slots
      <4>2. Cardinality(Starting(w) \cap active) = 0
          BY <3>4, FS_EmptySet
      <4>3. Cardinality(Starting(w)) \in Nat /\ Cardinality(active) \in Nat
          BY <3>2, FS_CardinalityType
      <4> HIDE DEF active
      <4> QED BY <4>1, <4>2, <4>3
    <3>6. /\ IsFiniteSet(Slots(w) \cup {c})
          /\ Cardinality(Slots(w) \cup {c}) <= Cardinality(Slots(w)) + 1
      <4>1. Cardinality(Slots(w)) \in Nat
          BY <1>1, FS_CardinalityType
      <4>2. /\ IsFiniteSet(Slots(w) \cup {c})
            /\ Cardinality(Slots(w) \cup {c}) =
                  IF c \in Slots(w) THEN Cardinality(Slots(w)) ELSE Cardinality(Slots(w)) + 1
          BY <1>1, FS_AddElement
      <4> QED BY <4>1, <4>2
    <3>7. Cardinality(Slots(w)') <= Cardinality(Slots(w) \cup {c})
        BY <3>1, <3>6, FS_Subset
    <3>8. /\ Cardinality(Slots(w)) \in Nat /\ Cardinality(Slots(w)') \in Nat
          /\ Cardinality(Slots(w) \cup {c}) \in Nat
          /\ Cardinality(active) \in Nat /\ Cardinality(Starting(w)) \in Nat
        BY <1>1, <3>1, <3>2, <3>6, FS_Subset, FS_CardinalityType
    <3> HIDE DEF active
    <3> QED BY <3>3, <3>5, <3>6, <3>7, <3>8, MaxActiveAssumption
  <2>2. CASE ~(WorkspaceOf(c) = w /\ HasSlot(w))
    <3>1. Slots(w)' \subseteq Slots(w)
        BY <1>4, <2>0, <2>2 DEF Reserve, Slots, Starting, In, Running, TypeOK
    <3> QED BY <1>2, <3>1
  <2> QED BY <2>1, <2>2
<1>5. ASSUME NEW c \in Commands,
             \/ SpawnFails(c) \/ Abort(c) \/ PublishCommand(c)
             \/ Spawn(c) \/ InitializationFails(c) \/ StartMonitor(c)
      PROVE  Cardinality(Slots(w)') <= MaxActive
  <2>1. /\ \A d \in Commands : start'[d] \in InFlight => start[d] \in InFlight
        /\ entries' \subseteq entries \cup {d \in Commands : start[d] \in InFlight}
        /\ UNCHANGED status
      BY <1>5 DEF SpawnFails, Abort, PublishCommand, Spawn, InitializationFails,
         StartMonitor, entryVars, TypeOK
  <2>2. Slots(w)' \subseteq Slots(w)
      BY <2>1 DEF Slots, Starting, In, Running
  <2> QED BY <1>2, <2>2
<1> QED BY <1>3, <1>4, <1>5, StartOrQuiet DEF StartStep

-----------------------------------------------------------------------------
LEMMA InitIInv == Init => IInv
<1> SUFFICES ASSUME Init PROVE IInv
    OBVIOUS
<1>1. TypeOK
    BY DEF Init, TypeOK, TerminalStatuses, Reasons, InFlight
<1>2. Progress /\ DrainedWhenDone /\ StatusExplained
    BY DEF Init, Progress, DrainedWhenDone, StatusExplained, Ended
<1>3. ASSUME NEW w \in Workspaces
      PROVE  Starting(w) = {} /\ {c \in In(w) : Running(c)} = {}
    BY DEF Init, Starting, In, InFlight, Running
<1>4. PendingExact
    BY <1>3, FS_EmptySet DEF PendingExact, Init
<1>5. SlotLimit
    BY <1>3, FS_EmptySet, MaxActiveAssumption DEF SlotLimit
<1> QED BY <1>1, <1>2, <1>4, <1>5 DEF IInv

(* The invariant is inductive. *)
THEOREM IInvHolds == Spec => []IInv
<1>1. IInv /\ [Next]_vars => IInv'
    BY TypeStep, ReportsStep, PendingStep, SlotStep DEF IInv, Reports
<1> QED BY InitIInv, <1>1, PTL DEF Spec

(* Every variable keeps its type; no counter of pending starts goes below   *)
(* zero.                                                                    *)
THEOREM TypeCorrect == Spec => []TypeOK
  BY IInvHolds, PTL DEF IInv

(* start(): the pending counter is exact on all its failure paths.          *)
THEOREM PendingCounted == Spec => []PendingExact
  BY IInvHolds, PTL DEF IInv

(* reserve_command_slot: the limit of a workspace holds for any number of   *)
(* concurrent starts.                                                       *)
THEOREM SlotsLimited == Spec => []SlotLimit
  BY IInvHolds, PTL DEF IInv

(* A snapshot that says the command ended is never published before its     *)
(* output is complete.                                                      *)
THEOREM OutputDrained == Spec => []DrainedWhenDone
  BY IInvHolds, PTL DEF IInv

(* The reason that finish() records is the one the monitor's status was     *)
(* chosen for.                                                              *)
THEOREM ReasonRecorded == Spec => []StatusExplained
  BY IInvHolds, PTL DEF IInv

-----------------------------------------------------------------------------
(* The output buffer of a command and the client that pages through it.     *)
(*                                                                          *)
(* The loops of append and read_after are recursions on the number of turns *)
(* they have made: the lemma Iteration gives the function, InductionUpTo    *)
(* what holds after every turn.                                             *)

\* A chunk: its cursor counts from 1, its size is within MAX_OUTPUT_CHUNK_BYTES.
Chunk == [cursor : Nat, size : 1..MaxChunk, text : TextSizes]

\* The sizes of chunks add up to n.
AddUp(chunks, n) ==
    \E f \in [0..Len(chunks) -> Int] :
        /\ f[0] = 0
        /\ \A i \in 1..Len(chunks) : f[i] = f[i - 1] + chunks[i].size
        /\ f[Len(chunks)] = n

\* What the buffer is between any two chunks.
Rings == [chunks : Seq(Chunk), retained : 0..MaxBytes, dropped : Nat, next : Nat]
Consecutive(r) ==
    /\ Len(r.chunks) <= r.next
    /\ \A i \in 1..Len(r.chunks) : r.chunks[i].cursor = r.next - Len(r.chunks) + i
Sound(r) ==
    /\ r \in Rings
    /\ Consecutive(r)
    /\ AddUp(r.chunks, r.retained)
    /\ r.dropped = 0 => Len(r.chunks) = r.next

(* What the elements of a list of chunks are. *)
LEMMA ChunkAt ==
    ASSUME NEW s \in Seq(Chunk), NEW i \in 1..Len(s)
    PROVE  s[i] \in Chunk /\ s[i].size \in 1..MaxChunk /\ s[i].size \in Nat /\ s[i].cursor \in Nat
<1>1. s[i] \in Chunk
    BY ElementOfSeq
<1>2. 1..MaxChunk \subseteq Nat
    BY SizesAssumption
<1> QED BY <1>1, <1>2 DEF Chunk

(* An empty buffer retains nothing. *)
LEMMA EmptyAddsUp ==
    ASSUME NEW n, AddUp(<<>>, n)
    PROVE  n = 0
  BY DEF AddUp

(* A new chunk adds its size. *)
LEMMA AppendAddsUp ==
    ASSUME NEW s \in Seq(Chunk), NEW n, AddUp(s, n), NEW k \in Chunk
    PROVE  AddUp(Append(s, k), n + k.size)
<1>1. PICK f \in [0..Len(s) -> Int] :
        /\ f[0] = 0
        /\ \A i \in 1..Len(s) : f[i] = f[i - 1] + s[i].size
        /\ f[Len(s)] = n
    BY DEF AddUp
<1>2. Len(s) \in Nat /\ k.size \in Int /\ n \in Int
    BY <1>1, SizesAssumption DEF Chunk
<1> DEFINE g == [i \in 0..Len(s) + 1 |-> IF i = Len(s) + 1 THEN n + k.size ELSE f[i]]
<1>3. Len(Append(s, k)) = Len(s) + 1
    BY AppendProperties
<1>4. g \in [0..Len(s) + 1 -> Int] /\ g[0] = 0 /\ g[Len(s) + 1] = n + k.size
    BY <1>1, <1>2
<1>5. ASSUME NEW i \in 1..Len(s) + 1
      PROVE  g[i] = g[i - 1] + Append(s, k)[i].size
  <2>1. i - 1 \in 0..Len(s) /\ g[i - 1] = f[i - 1]
      BY <1>2
  <2>2. CASE i = Len(s) + 1
    <3>1. Append(s, k)[i] = k /\ g[i] = n + k.size /\ i - 1 = Len(s)
        BY <1>2, <2>2, AppendProperties
    <3> QED BY <1>1, <2>1, <3>1
  <2>3. CASE i # Len(s) + 1
    <3>1. i \in 1..Len(s) /\ g[i] = f[i] /\ Append(s, k)[i] = s[i]
        BY <1>2, <2>3, AppendProperties
    <3> HIDE DEF g
    <3> QED BY <1>1, <2>1, <3>1
  <2> QED BY <2>2, <2>3
<1> HIDE DEF g
<1> QED BY <1>3, <1>4, <1>5 DEF AddUp

(* pop_front takes the size of the first chunk off, and there is that much *)
(* to take: saturating_sub does not saturate.                               *)
LEMMA TailAddsUp ==
    ASSUME NEW s \in Seq(Chunk), s # <<>>, NEW n, AddUp(s, n)
    PROVE  /\ AddUp(Tail(s), n - s[1].size)
           /\ n \in Int /\ s[1].size <= n
<1>1. PICK f \in [0..Len(s) -> Int] :
        /\ f[0] = 0
        /\ \A i \in 1..Len(s) : f[i] = f[i - 1] + s[i].size
        /\ f[Len(s)] = n
    BY DEF AddUp
<1>2. Len(s) \in Nat /\ Len(s) > 0
    BY EmptySeq, LenProperties
<1>3. \A i \in 1..Len(s) : s[i].size \in 1..MaxChunk
    BY ChunkAt
<1>4. f[1] = s[1].size
    BY <1>1, <1>2, <1>3
<1>5. Len(Tail(s)) = Len(s) - 1 /\ \A i \in 1..Len(s) - 1 : Tail(s)[i] = s[i + 1]
    BY HeadTailProperties
<1> DEFINE g == [i \in 0..Len(s) - 1 |-> f[i + 1] - f[1]]
<1>6. g \in [0..Len(s) - 1 -> Int] /\ g[0] = 0 /\ g[Len(s) - 1] = n - s[1].size
    BY <1>1, <1>2, <1>4
<1>7. ASSUME NEW i \in 1..Len(s) - 1
      PROVE  g[i] = g[i - 1] + Tail(s)[i].size
  <2>1. i + 1 \in 1..Len(s) /\ i - 1 \in 0..Len(s) - 1 /\ (i + 1) - 1 = i /\ (i - 1) + 1 = i
      BY <1>2
  <2>2. f[i + 1] = f[i] + s[i + 1].size /\ Tail(s)[i] = s[i + 1]
      BY <1>1, <1>5, <2>1
  <2>3. g[i] = f[i + 1] - f[1] /\ g[i - 1] = f[i] - f[1]
      BY <2>1
  <2>4. f[i] \in Int /\ f[1] \in Int /\ s[i + 1].size \in Int
    <3>1. s[i + 1].size \in Int
        BY <2>1, ChunkAt
    <3>2. i \in 0..Len(s) /\ 1 \in 0..Len(s)
        BY <1>2
    <3> QED BY <1>1, <3>1, <3>2
  <2> HIDE DEF g
  <2> QED BY <2>2, <2>3, <2>4
<1>8. f[1] <= f[Len(s)]
  <2> DEFINE S == {i \in 0..Len(s) : i > 0 => f[1] <= f[i]}
  <2>1. 0 \in S
      BY <1>2
  <2>2. ASSUME NEW i \in 0..Len(s), i < Len(s), i \in S PROVE i + 1 \in S
    <3>1. i + 1 \in 1..Len(s) /\ (i + 1) - 1 = i
        BY <2>2, <1>2
    <3>2. f[i + 1] = f[i] + s[i + 1].size /\ s[i + 1].size \in 1..MaxChunk
        BY <1>1, <1>3, <3>1
    <3>3. f[i] \in Int /\ f[1] \in Int /\ f[i + 1] \in Int
        BY <1>1, <1>2, <3>1
    <3> QED BY <2>2, <3>1, <3>2, <3>3, SizesAssumption
  <2>3. Len(s) \in S
    <3>1. \A i \in 0..Len(s) : i < Len(s) /\ i \in S => i + 1 \in S
        BY <2>2
    <3> HIDE DEF S
    <3>2. 0..Len(s) \subseteq S
        BY ONLY Len(s) \in Nat, <1>2, <2>1, <3>1, InductionUpTo, Zenon
    <3> QED BY <3>2, <1>2
  <2> QED BY <2>3, <1>2
<1>9. n \in Int
    BY <1>1, <1>2
<1> HIDE DEF g
<1> QED BY <1>1, <1>4, <1>5, <1>6, <1>7, <1>8, <1>9 DEF AddUp

(* Evicting the first chunk. *)
LEMMA PopFrontSound ==
    ASSUME NEW r, Sound(r), r.chunks # <<>>
    PROVE  /\ Sound(PopFront(r))
           /\ PopFront(r).next = r.next
           /\ Len(PopFront(r).chunks) = Len(r.chunks) - 1
<1>1. r \in Rings /\ r.chunks \in Seq(Chunk) /\ Len(r.chunks) \in Nat /\ Len(r.chunks) > 0
  <2>1. r \in Rings /\ r.chunks \in Seq(Chunk)
      BY DEF Sound, Rings
  <2> QED BY <2>1, EmptySeq, LenProperties
<1>2. r.chunks[1].size \in 1..MaxChunk
    BY <1>1, ChunkAt
<1>3. PopFront(r) = [chunks |-> Tail(r.chunks), retained |-> r.retained - r.chunks[1].size,
                     dropped |-> r.dropped + r.chunks[1].size, next |-> r.next]
    BY DEF PopFront
<1>4. /\ Tail(r.chunks) \in Seq(Chunk)
      /\ Len(Tail(r.chunks)) = Len(r.chunks) - 1
      /\ \A i \in 1..Len(r.chunks) - 1 : Tail(r.chunks)[i] = r.chunks[i + 1]
    BY <1>1, HeadTailProperties
<1>5. /\ AddUp(Tail(r.chunks), r.retained - r.chunks[1].size)
      /\ r.chunks[1].size <= r.retained
    BY <1>1, TailAddsUp DEF Sound
<1>6. PopFront(r) \in Rings /\ PopFront(r).dropped # 0
    BY <1>1, <1>2, <1>3, <1>4, <1>5, SizesAssumption DEF Rings
<1>7. Consecutive(PopFront(r))
  <2>1. Len(r.chunks) - 1 <= r.next /\ r.next \in Nat
      BY <1>1 DEF Sound, Consecutive, Rings
  <2>2. ASSUME NEW i \in 1..Len(r.chunks) - 1
        PROVE  Tail(r.chunks)[i].cursor = r.next - (Len(r.chunks) - 1) + i
    <3>1. i + 1 \in 1..Len(r.chunks)
        BY <1>1
    <3>2. r.chunks[i + 1].cursor = r.next - Len(r.chunks) + (i + 1)
        BY <3>1 DEF Sound, Consecutive
    <3>3. Tail(r.chunks)[i].cursor = r.chunks[i + 1].cursor
        BY <1>4
    <3>4. Len(r.chunks) \in Int /\ r.next \in Int /\ i \in Int
        BY <1>1, <2>1
    <3> QED BY <3>2, <3>3, <3>4
  <2>3. /\ PopFront(r).chunks = Tail(r.chunks) /\ PopFront(r).next = r.next
        /\ Len(PopFront(r).chunks) = Len(r.chunks) - 1
      BY <1>3, <1>4
  <2> QED BY <2>1, <2>2, <2>3 DEF Consecutive
<1> QED BY <1>3, <1>4, <1>5, <1>6, <1>7 DEF Sound

(* The inner loop of append ends with room for the chunk: each turn takes a *)
(* chunk out, and an empty buffer has room for any.                         *)
LEMMA EvictedSound ==
    ASSUME NEW r, Sound(r), NEW size \in 1..MaxChunk
    PROVE  /\ Sound(Evicted(r, size))
           /\ Evicted(r, size).next = r.next
           /\ Len(Evicted(r, size).chunks) <= Len(r.chunks)
           /\ Evicted(r, size).retained + size <= MaxBytes
<1> DEFINE N == Len(r.chunks)
           V == {e \in Rings : Sound(e) /\ e.next = r.next /\ Len(e.chunks) <= N}
           Fits(e) == e.chunks = <<>> \/ e.retained + size <= MaxBytes
           D == [ke \in (1..N) \X V |-> IF Fits(ke[2]) THEN ke[2] ELSE PopFront(ke[2])]
           E == CHOOSE f : f = [n \in 0..N |->
                    IF n = 0 THEN r
                    ELSE IF f[n - 1].chunks = <<>> \/ f[n - 1].retained + size <= MaxBytes THEN f[n - 1]
                    ELSE PopFront(f[n - 1])]
<1>1. N \in Nat /\ r \in V
  <2>1. r \in Rings /\ r.chunks \in Seq(Chunk)
      BY DEF Sound, Rings
  <2> QED BY <2>1, LenProperties
<1>2. D \in [(1..N) \X V -> V]
  <2>1. ASSUME NEW e \in V, ~Fits(e) PROVE PopFront(e) \in V
    <3>1. Sound(e) /\ e.next = r.next /\ e.chunks # <<>> /\ Len(e.chunks) <= N
        BY <2>1
    <3>2. /\ Sound(PopFront(e)) /\ PopFront(e).next = r.next
          /\ Len(PopFront(e).chunks) = Len(e.chunks) - 1
        BY <3>1, PopFrontSound
    <3>3. PopFront(e) \in Rings
        BY <3>2 DEF Sound
    <3>4. Len(e.chunks) \in Nat
      <4>1. e.chunks \in Seq(Chunk)
          BY <3>1 DEF Sound, Rings
      <4> QED BY <4>1, LenProperties
    <3>5. Len(PopFront(e).chunks) <= N
        BY <1>1, <3>1, <3>2, <3>4
    <3> QED BY <3>2, <3>3, <3>5
  <2> HIDE DEF V, Fits
  <2> QED BY <2>1
<1>3. PICK f \in [0..N -> V] : Iterates(f, r, N, D)
  <2> HIDE DEF D, V, N
  <2> QED BY <1>1, <1>2, Iteration
<1>4. ASSUME NEW n \in 0..N, n # 0
      PROVE  f[n] = IF Fits(f[n - 1]) THEN f[n - 1] ELSE PopFront(f[n - 1])
  <2>1. n \in 1..N /\ f[n - 1] \in V
      BY <1>1, <1>4
  <2>2. D[<<n, f[n - 1]>>] = IF Fits(f[n - 1]) THEN f[n - 1] ELSE PopFront(f[n - 1])
      BY <2>1
  <2> HIDE DEF D, V, Fits
  <2> QED BY <1>3, <1>4, <2>2 DEF Iterates
<1>5. f[0] = r
  <2>1. 0 \in 0..N
      BY <1>1
  <2> HIDE DEF D, V
  <2> QED BY <1>3, <2>1 DEF Iterates
<1>6. f = [n \in 0..N |->
              IF n = 0 THEN r
              ELSE IF f[n - 1].chunks = <<>> \/ f[n - 1].retained + size <= MaxBytes THEN f[n - 1]
              ELSE PopFront(f[n - 1])]
  <2> HIDE DEF V, D
  <2> QED BY <1>3, <1>4, <1>5
<1>7. E = [n \in 0..N |->
              IF n = 0 THEN r
              ELSE IF E[n - 1].chunks = <<>> \/ E[n - 1].retained + size <= MaxBytes THEN E[n - 1]
              ELSE PopFront(E[n - 1])]
    BY <1>6
<1>8. Evicted(r, size) = E[N]
    BY DEF Evicted
<1> HIDE DEF E, D
\* Each turn of the loop ends it or takes a chunk out.
<1> DEFINE S == {n \in 0..N : E[n] \in V /\ (Fits(E[n]) \/ Len(E[n].chunks) = N - n)}
<1>9. 0 \in S
  <2>1. 0 \in 0..N /\ E[0] = r /\ Len(r.chunks) = N - 0
      BY <1>1, <1>7
  <2> QED BY <1>1, <2>1
<1>10. ASSUME NEW n \in 0..N, n < N, n \in S PROVE n + 1 \in S
  <2>1. n + 1 \in 0..N /\ n + 1 # 0 /\ (n + 1) - 1 = n /\ n \in Nat
      BY <1>1, <1>10
  <2>2. E[n + 1] = IF Fits(E[n]) THEN E[n] ELSE PopFront(E[n])
      BY <1>7, <2>1
  <2>3. CASE Fits(E[n])
      BY <1>10, <2>1, <2>2, <2>3
  <2>4. CASE ~Fits(E[n])
    <3>1. Sound(E[n]) /\ E[n].next = r.next /\ E[n].chunks # <<>> /\ Len(E[n].chunks) = N - n
        BY <1>10, <2>4
    <3>2. /\ Sound(PopFront(E[n])) /\ PopFront(E[n]).next = r.next
          /\ Len(PopFront(E[n]).chunks) = Len(E[n].chunks) - 1
        BY <3>1, PopFrontSound
    <3>4. Len(PopFront(E[n]).chunks) = N - (n + 1)
        BY <1>1, <2>1, <3>1, <3>2
    <3>3. PopFront(E[n]) \in V
      <4>1. PopFront(E[n]) \in Rings
          BY <3>2 DEF Sound
      <4>2. Len(PopFront(E[n]).chunks) <= N
          BY <1>1, <2>1, <3>4
      <4> QED BY <3>2, <4>1, <4>2
    <3>5. E[n + 1] = PopFront(E[n])
        BY <2>2, <2>4
    <3> HIDE DEF V, Fits
    <3> QED BY <2>1, <3>3, <3>4, <3>5
  <2> QED BY <2>3, <2>4
<1>11. E[N] \in V /\ (Fits(E[N]) \/ Len(E[N].chunks) = 0)
  <2>1. \A n \in 0..N : n < N /\ n \in S => n + 1 \in S
      BY <1>10
  <2>2. N \in S
    <3> HIDE DEF S, N
    <3>1. N \in Nat
        BY <1>1
    <3>2. 0..N \subseteq S
        BY ONLY <3>1, <1>9, <2>1, InductionUpTo, Zenon
    <3> QED BY <3>1, <3>2
  <2>3. E[N] \in V /\ (Fits(E[N]) \/ Len(E[N].chunks) = N - N)
    <3> HIDE DEF V, Fits, N
    <3> QED BY <2>2
  <2> QED BY <1>1, <2>3
<1>12. E[N].retained + size <= MaxBytes
  <2>1. E[N].chunks \in Seq(Chunk) /\ AddUp(E[N].chunks, E[N].retained)
      BY <1>11 DEF Sound, Rings
  <2>2. CASE E[N].chunks = <<>>
    <3>1. E[N].retained = 0
        BY <2>1, <2>2, EmptyAddsUp
    <3> QED BY <3>1, SizesAssumption
  <2>3. CASE E[N].chunks # <<>>
    <3>1. Len(E[N].chunks) # 0
        BY <2>1, <2>3, EmptySeq
    <3> QED BY <1>11, <2>3, <3>1
  <2> QED BY <2>2, <2>3
<1> QED BY <1>8, <1>11, <1>12

(* One chunk more, with the next cursor. *)
LEMMA PushSound ==
    ASSUME NEW r, Sound(r), NEW piece \in Pieces
    PROVE  /\ Sound(Push(r, piece))
           /\ Push(r, piece).next = r.next + 1
           /\ Push(r, piece).chunks # <<>>
           /\ Len(Push(r, piece).chunks) <= Len(r.chunks) + 1
<1> DEFINE size == piece.size
           e == Evicted(r, size)
           k == [cursor |-> e.next + 1, size |-> size, text |-> piece.text]
<1>0. size \in 1..MaxChunk /\ piece.text \in TextSizes
    BY DEF Pieces
<1>1. Sound(e) /\ e.next = r.next /\ e.retained + size <= MaxBytes /\ Len(e.chunks) <= Len(r.chunks)
    BY <1>0, EvictedSound
<1> HIDE DEF e
<1>2. Push(r, piece) = [chunks |-> Append(e.chunks, k), retained |-> e.retained + size,
                       dropped |-> e.dropped, next |-> e.next + 1]
    BY DEF Push, e
<1>3. /\ e.chunks \in Seq(Chunk) /\ e.retained \in 0..MaxBytes /\ e.dropped \in Nat /\ e.next \in Nat
      /\ Len(e.chunks) \in Nat
  <2>1. e \in Rings
      BY <1>1 DEF Sound
  <2> QED BY <2>1, LenProperties DEF Rings
<1>4. k \in Chunk /\ k.size = size /\ k.cursor = e.next + 1
    BY <1>0, <1>3 DEF Chunk
<1>5. /\ Append(e.chunks, k) \in Seq(Chunk)
      /\ Append(e.chunks, k) # <<>>
      /\ Len(Append(e.chunks, k)) = Len(e.chunks) + 1
      /\ \A i \in 1..Len(e.chunks) : Append(e.chunks, k)[i] = e.chunks[i]
      /\ Append(e.chunks, k)[Len(e.chunks) + 1] = k
    BY <1>3, <1>4, AppendProperties
<1>6. AddUp(Append(e.chunks, k), e.retained + size)
    BY <1>1, <1>3, <1>4, AppendAddsUp DEF Sound
<1> HIDE DEF k
<1>7. e.retained + size \in 0..MaxBytes /\ e.next + 1 \in Nat
    BY <1>0, <1>1, <1>3, SizesAssumption
<1>8. Push(r, piece) \in Rings
    BY <1>2, <1>3, <1>5, <1>7 DEF Rings
<1>9. Consecutive(Push(r, piece))
  <2>1. Len(e.chunks) + 1 <= e.next + 1
      BY <1>1, <1>3 DEF Sound, Consecutive
  <2>2. ASSUME NEW i \in 1..Len(e.chunks) + 1
        PROVE  Append(e.chunks, k)[i].cursor = (e.next + 1) - (Len(e.chunks) + 1) + i
    <3>1. CASE i = Len(e.chunks) + 1
        BY <1>3, <1>4, <1>5, <3>1
    <3>2. CASE i # Len(e.chunks) + 1
      <4>1. i \in 1..Len(e.chunks)
          BY <1>3, <3>2
      <4>2. e.chunks[i].cursor = e.next - Len(e.chunks) + i
          BY <1>1, <4>1 DEF Sound, Consecutive
      <4>3. Append(e.chunks, k)[i].cursor = e.chunks[i].cursor
          BY <1>5, <4>1
      <4> QED BY <1>3, <4>2, <4>3
    <3> QED BY <3>1, <3>2
  <2> QED BY <1>2, <1>5, <2>1, <2>2 DEF Consecutive
<1>10. e.dropped = 0 => Len(e.chunks) + 1 = e.next + 1
    BY <1>1 DEF Sound
<1>11. Len(e.chunks) + 1 <= Len(r.chunks) + 1
  <2>1. r.chunks \in Seq(Chunk)
      BY DEF Sound, Rings
  <2>2. Len(r.chunks) \in Nat
      BY <2>1, LenProperties
  <2> QED BY <1>1, <1>3, <2>2
<1> QED BY <1>1, <1>2, <1>5, <1>6, <1>8, <1>9, <1>10, <1>11 DEF Sound

(* A read of m chunks: the cursors go on where they were. *)
LEMMA PushAllSound ==
    ASSUME NEW r, Sound(r), NEW m \in Nat, m > 0, NEW pieces \in [1..m -> Pieces]
    PROVE  /\ Sound(PushAll(r, pieces))
           /\ PushAll(r, pieces).next = r.next + m
           /\ PushAll(r, pieces).chunks # <<>>
           /\ Len(PushAll(r, pieces).chunks) <= Len(r.chunks) + m
<1> DEFINE V == {e \in Rings : Sound(e)}
           D == [ie \in (1..m) \X V |-> Push(ie[2], pieces[ie[1]])]
           P == CHOOSE f : f = [i \in 0..m |-> IF i = 0 THEN r ELSE Push(f[i - 1], pieces[i])]
<1>1. r \in V
    BY DEF Sound
<1>2. ASSUME NEW i \in 1..m, NEW e \in V
      PROVE  /\ Push(e, pieces[i]) \in V
             /\ Push(e, pieces[i]).next = e.next + 1 /\ Push(e, pieces[i]).chunks # <<>>
             /\ Len(Push(e, pieces[i]).chunks) <= Len(e.chunks) + 1
  <2>1. Sound(e) /\ pieces[i] \in Pieces
      OBVIOUS
  <2>2. /\ Sound(Push(e, pieces[i]))
        /\ Push(e, pieces[i]).next = e.next + 1 /\ Push(e, pieces[i]).chunks # <<>>
        /\ Len(Push(e, pieces[i]).chunks) <= Len(e.chunks) + 1
      BY <2>1, PushSound
  <2>3. Push(e, pieces[i]) \in Rings
      BY <2>2 DEF Sound
  <2> QED BY <2>2, <2>3
<1>3. D \in [(1..m) \X V -> V]
  <2> HIDE DEF V
  <2> QED BY <1>2
<1>4. PICK f \in [0..m -> V] : Iterates(f, r, m, D)
  <2> HIDE DEF D, V
  <2> QED BY <1>1, <1>3, Iteration
<1>5. ASSUME NEW i \in 0..m, i # 0 PROVE f[i] = Push(f[i - 1], pieces[i])
  <2>1. i \in 1..m /\ f[i - 1] \in V
      BY <1>5
  <2>2. D[<<i, f[i - 1]>>] = Push(f[i - 1], pieces[i])
      BY <2>1
  <2> HIDE DEF D, V
  <2> QED BY <1>4, <1>5, <2>2 DEF Iterates
<1>6. f[0] = r
  <2>1. 0 \in 0..m
      OBVIOUS
  <2> HIDE DEF D, V
  <2> QED BY <1>4, <2>1 DEF Iterates
<1>7. P = [i \in 0..m |-> IF i = 0 THEN r ELSE Push(P[i - 1], pieces[i])]
  <2>1. f = [i \in 0..m |-> IF i = 0 THEN r ELSE Push(f[i - 1], pieces[i])]
    <3> HIDE DEF V, D
    <3> QED BY <1>4, <1>5, <1>6
  <2> HIDE DEF V, D
  <2> QED BY <2>1
<1>8. Len(pieces) = m
    BY LenProperties, IsASeq
<1>9. PushAll(r, pieces) = P[m]
    BY <1>8 DEF PushAll
<1> HIDE DEF P, D
<1> DEFINE S == {i \in 0..m : /\ P[i] \in V /\ P[i].next = r.next + i
                              /\ i # 0 => P[i].chunks # <<>>
                              /\ Len(P[i].chunks) <= Len(r.chunks) + i}
<1>10. r.next \in Nat /\ Len(r.chunks) \in Nat
  <2>1. r.next \in Nat /\ r.chunks \in Seq(Chunk)
      BY DEF Sound, Rings
  <2> QED BY <2>1, LenProperties
<1>11. 0 \in S
  <2>1. 0 \in 0..m /\ P[0] = r /\ r.next = r.next + 0 /\ Len(r.chunks) <= Len(r.chunks) + 0
      BY <1>7, <1>10
  <2> HIDE DEF V
  <2> QED BY <1>1, <2>1
<1>12. ASSUME NEW i \in 0..m, i < m, i \in S PROVE i + 1 \in S
  <2>1. i + 1 \in 1..m /\ i + 1 \in 0..m /\ i + 1 # 0 /\ (i + 1) - 1 = i
      BY <1>12
  <2>2. P[i + 1] = Push(P[i], pieces[i + 1])
      BY <1>7, <2>1
  <2>3. P[i] \in V /\ P[i].next = r.next + i /\ Len(P[i].chunks) <= Len(r.chunks) + i
      BY <1>12
  <2>4. /\ P[i + 1] \in V /\ P[i + 1].next = (r.next + i) + 1 /\ P[i + 1].chunks # <<>>
        /\ Len(P[i + 1].chunks) <= Len(P[i].chunks) + 1
    <3> HIDE DEF V
    <3> QED BY <1>2, <2>1, <2>2, <2>3
  <2>5. P[i + 1].next = r.next + (i + 1)
    <3>1. P[i + 1].next = (r.next + i) + 1 /\ i \in Int /\ r.next \in Int
        BY <1>10, <2>4
    <3>2. \A x, y \in Int : (x + y) + 1 = x + (y + 1)
        OBVIOUS
    <3> HIDE DEF P, V
    <3> QED BY ONLY <3>1, <3>2, Zenon
  <2>7. Len(P[i + 1].chunks) <= Len(r.chunks) + (i + 1)
    <3>1. P[i] \in Rings /\ P[i + 1] \in Rings
      <4> HIDE DEF P
      <4> QED BY <2>3, <2>4
    <3>2. P[i].chunks \in Seq(Chunk) /\ P[i + 1].chunks \in Seq(Chunk)
        BY <3>1 DEF Rings
    <3>3. Len(P[i].chunks) \in Nat /\ Len(P[i + 1].chunks) \in Nat
        BY <3>2, LenProperties
    <3>4. i \in Int /\ Len(r.chunks) \in Int
        BY <1>10
    <3>5. \A x, y, z, j \in Int : x <= y + 1 /\ y <= z + j => x <= z + (j + 1)
        OBVIOUS
    <3>6. Len(P[i].chunks) \in Int /\ Len(P[i + 1].chunks) \in Int
        BY <3>3
    <3> HIDE DEF P, V
    <3> QED BY ONLY <2>3, <2>4, <3>4, <3>5, <3>6, Zenon
  <2>6. /\ i + 1 \in 0..m /\ P[i + 1] \in V /\ P[i + 1].next = r.next + (i + 1)
        /\ i + 1 # 0 => P[i + 1].chunks # <<>>
        /\ Len(P[i + 1].chunks) <= Len(r.chunks) + (i + 1)
    <3> HIDE DEF V, P
    <3> QED BY <2>1, <2>4, <2>5, <2>7
  <2> HIDE DEF V, P
  <2> QED BY <2>6, Zenon
<1>13. m \in S
  <2>1. \A i \in 0..m : i < m /\ i \in S => i + 1 \in S
      BY <1>12
  <2> HIDE DEF S
  <2>2. 0..m \subseteq S
      BY ONLY m \in Nat, <1>11, <2>1, InductionUpTo, Zenon
  <2> QED BY <2>2
<1>14. /\ P[m] \in V /\ P[m].next = r.next + m /\ P[m].chunks # <<>>
       /\ Len(P[m].chunks) <= Len(r.chunks) + m
  <2> HIDE DEF V
  <2> QED BY <1>13
<1> QED BY <1>9, <1>14

\* What was evicted, and the last chunk the client need not be given.
Base == ring.next - Len(ring.chunks)
Known == IF cursor > Base THEN cursor ELSE Base

(* read_after finds every chunk after the last one known, in order and      *)
(* without a gap.                                                           *)
LEMMA UnreadFollows ==
    ASSUME Sound(ring), cursor \in Int, cursor <= ring.next
    PROVE  /\ Unread \in Seq(Chunk)
           /\ Len(Unread) = ring.next - Known
           /\ \A i \in 1..Len(Unread) : Unread[i].cursor = Known + i
<1> DEFINE N == Len(ring.chunks)
           V == Seq(Chunk)
           Take(k, u) == IF ring.chunks[k].cursor > cursor THEN Append(u, ring.chunks[k]) ELSE u
           D == [ku \in (1..N) \X V |-> Take(ku[1], ku[2])]
           U == CHOOSE f : f = [k \in 0..Len(ring.chunks) |->
                    IF k = 0 THEN <<>>
                    ELSE IF ring.chunks[k].cursor > cursor THEN Append(f[k - 1], ring.chunks[k])
                    ELSE f[k - 1]]
<1>1. /\ ring.chunks \in Seq(Chunk) /\ N \in Nat /\ ring.next \in Nat /\ N <= ring.next
      /\ \A k \in 1..N : ring.chunks[k] \in Chunk /\ ring.chunks[k].cursor = Base + k
      /\ Base \in Nat /\ Known \in Nat /\ Known >= Base /\ Known >= cursor /\ Known <= ring.next
  <2>1. ring.chunks \in Seq(Chunk) /\ ring.next \in Nat
      BY DEF Sound, Rings
  <2>2. N \in Nat /\ N <= ring.next
      BY <2>1, LenProperties DEF Sound, Consecutive
  <2>3. \A k \in 1..N : ring.chunks[k] \in Chunk /\ ring.chunks[k].cursor = Base + k
      BY <2>1, ElementOfSeq DEF Sound, Consecutive, Base
  <2> QED BY <2>1, <2>2, <2>3 DEF Base, Known
<1> HIDE DEF N
<1>2. D \in [(1..N) \X V -> V]
  <2>1. ASSUME NEW k \in 1..N, NEW u \in V PROVE Take(k, u) \in V
      BY <1>1, AppendProperties
  <2> HIDE DEF V, Take
  <2> QED BY <2>1
<1>3. <<>> \in V
    OBVIOUS
<1>4. PICK f \in [0..N -> V] : Iterates(f, <<>>, N, D)
  <2> HIDE DEF D, V
  <2> QED BY <1>1, <1>2, <1>3, Iteration
<1>5. ASSUME NEW k \in 0..N, k # 0 PROVE f[k] = Take(k, f[k - 1])
  <2>1. k \in 1..N /\ f[k - 1] \in V
      BY <1>1, <1>5
  <2>2. D[<<k, f[k - 1]>>] = Take(k, f[k - 1])
      BY <2>1
  <2> HIDE DEF D, V, Take
  <2> QED BY <1>4, <1>5, <2>2 DEF Iterates
<1>6. f[0] = <<>>
  <2>1. 0 \in 0..N
      BY <1>1
  <2> HIDE DEF D, V
  <2> QED BY <1>4, <2>1 DEF Iterates
<1>7. U = [k \in 0..N |-> IF k = 0 THEN <<>> ELSE Take(k, U[k - 1])]
  <2>1. f = [k \in 0..Len(ring.chunks) |->
                    IF k = 0 THEN <<>>
                    ELSE IF ring.chunks[k].cursor > cursor THEN Append(f[k - 1], ring.chunks[k])
                    ELSE f[k - 1]]
    <3> HIDE DEF V, D
    <3> QED BY <1>4, <1>5, <1>6 DEF N
  <2> HIDE DEF V, D
  <2> QED BY <2>1 DEF N
<1>8. Unread = U[N]
    BY DEF Unread, N
<1> HIDE DEF U, D
<1> DEFINE Over(k) == IF Base + k > Known THEN Base + k - Known ELSE 0
           Read(k, u) == /\ u \in V
                         /\ Len(u) = Over(k)
                         /\ \A i \in 1..Over(k) : u[i].cursor = Known + i
           S == {k \in 0..N : Read(k, U[k])}
<1>9. 0 \in S
  <2>1. 0 \in 0..N /\ U[0] = <<>> /\ Over(0) = 0 /\ Len(<<>>) = 0
      BY <1>1, <1>7
  <2>2. 1..Over(0) = {}
      BY <2>1
  <2> HIDE DEF Over, V
  <2>3. Read(0, U[0])
      BY <1>3, <2>1, <2>2
  <2> QED BY <2>1, <2>3
<1>10. ASSUME NEW k \in 0..N, k < N, k \in S PROVE k + 1 \in S
  <2>1. k + 1 \in 0..N /\ k + 1 \in 1..N /\ k + 1 # 0 /\ (k + 1) - 1 = k
      BY <1>1, <1>10
  <2>2. U[k + 1] = Take(k + 1, U[k])
      BY <1>7, <2>1
  <2>3. U[k] \in V /\ Len(U[k]) = Over(k) /\ \A i \in 1..Over(k) : U[k][i].cursor = Known + i
      BY <1>10
  <2>4. ring.chunks[k + 1] \in Chunk /\ ring.chunks[k + 1].cursor = Base + (k + 1)
      BY <1>1, <2>1
  <2>5. cursor > Base \/ Known = Base
      BY DEF Known
  <2>6. CASE ring.chunks[k + 1].cursor > cursor
    <3>1. U[k + 1] = Append(U[k], ring.chunks[k + 1])
        BY <2>2, <2>6
    <3>2. Base + k >= Known /\ Over(k) = Base + k - Known /\ Over(k + 1) = Over(k) + 1
      <4>1. Known = cursor \/ Known = Base
          BY DEF Known
      <4>2. Base + (k + 1) > cursor
          BY <2>4, <2>6
      <4>3. Base \in Nat /\ Known \in Nat /\ k \in Nat
          BY <1>1
      <4>4. Base + k >= Known
          BY <4>1, <4>2, <4>3
      <4> QED BY <4>3, <4>4
    <3>3. /\ Append(U[k], ring.chunks[k + 1]) \in V
          /\ Len(Append(U[k], ring.chunks[k + 1])) = Over(k) + 1
          /\ \A i \in 1..Over(k) : Append(U[k], ring.chunks[k + 1])[i] = U[k][i]
          /\ Append(U[k], ring.chunks[k + 1])[Over(k) + 1] = ring.chunks[k + 1]
        BY <2>3, <2>4, AppendProperties
    <3>4. ASSUME NEW i \in 1..Over(k + 1) PROVE U[k + 1][i].cursor = Known + i
      <4>1. CASE i = Over(k) + 1
        <5>1. U[k + 1][i].cursor = Base + (k + 1)
            BY <2>4, <3>1, <3>3, <4>1
        <5> QED BY <1>1, <2>1, <3>2, <4>1, <5>1
      <4>2. CASE i # Over(k) + 1
        <5>1. i \in 1..Over(k)
            BY <1>1, <3>2, <4>2
        <5>2. U[k][i].cursor = Known + i
            BY <2>3, <5>1
        <5>3. U[k + 1][i] = U[k][i]
            BY <3>1, <3>3, <5>1
        <5> QED BY <5>2, <5>3
      <4> QED BY <4>1, <4>2
    <3> HIDE DEF Over, V
    <3> QED BY <2>1, <3>1, <3>2, <3>3, <3>4
  <2>7. CASE ~(ring.chunks[k + 1].cursor > cursor)
    <3>1. U[k + 1] = U[k]
        BY <2>2, <2>7
    <3>2. Over(k) = 0 /\ Over(k + 1) = 0
        BY <1>1, <2>1, <2>4, <2>7
    <3> HIDE DEF Over, V
    <3> QED BY <2>1, <2>3, <3>1, <3>2
  <2> QED BY <2>6, <2>7
<1>11. Read(N, U[N])
  <2>1. \A k \in 0..N : k < N /\ k \in S => k + 1 \in S
      BY <1>10
  <2>2. N \in S
    <3> HIDE DEF S
    <3>1. N \in Nat
        BY <1>1
    <3>2. 0..N \subseteq S
        BY ONLY <3>1, <1>9, <2>1, InductionUpTo, Zenon
    <3> QED BY <3>1, <3>2
  <2> QED BY <2>2
<1>12. Over(N) = ring.next - Known
    BY <1>1 DEF Base, N
<1> HIDE DEF Over
<1> QED BY <1>8, <1>11, <1>12

-----------------------------------------------------------------------------
\* Between calls the buffer is sound, and not empty once there was output.
Filled == Sound(ring) /\ ring.next <= MaxChunks /\ (ring.next # 0 => ring.chunks # <<>>)

\* The command ends after its readers, and a client is done after the command.
Ending ==
    /\ outputStatus \in {"Running", "Ended", "Failed"}
    /\ outputReaders \in {"reading", "eof"}
    /\ snap \in {"none", "Running", "Ended", "Failed"}
    /\ done \in BOOLEAN
    /\ outputStatus = "Ended" => outputReaders = "eof"
    /\ snap \in {"Ended", "Failed"} => outputStatus = snap
    /\ done => outputStatus # "Running"

\* What the client knows of: only what was evicted has been reported, also by
\* a page that left the cursor where it was.
Paged ==
    /\ cursor \in -1..MaxChunks
    /\ cursor <= ring.next
    /\ NoSilentGap
    /\ reported \subseteq 1..Known
    /\ done /\ outputStatus = "Ended" => cursor = ring.next

\* The inductive invariant of the buffer and its client.
OutputSound == Filled /\ Ending /\ Paged

(* A command that has just been started. *)
LEMMA InitOutput == OutputInit => OutputSound
<1> SUFFICES ASSUME OutputInit PROVE OutputSound
    OBVIOUS
<1>1. Sound(ring)
  <2>1. ring \in Rings
      BY SizesAssumption DEF OutputInit, Rings
  <2>2. Consecutive(ring) /\ Len(ring.chunks) = 0
      BY DEF OutputInit, Consecutive
  <2>3. AddUp(<<>>, 0)
    <3> DEFINE f == [i \in 0..0 |-> 0]
    <3>1. f \in [0..Len(<<>>) -> Int] /\ f[0] = 0 /\ Len(<<>>) = 0
        OBVIOUS
    <3> HIDE DEF f
    <3> QED BY <3>1 DEF AddUp
  <2> QED BY <2>1, <2>2, <2>3 DEF OutputInit, Sound
<1>2. Filled
    BY <1>1, MaxChunksAssumption DEF OutputInit, Filled
<1>3. Ending
    BY DEF OutputInit, Ending
<1>4. Paged
    BY MaxChunksAssumption DEF OutputInit, Paged, NoSilentGap, Known, Base
<1> QED BY <1>2, <1>3, <1>4 DEF OutputSound

(* A reader appends: nothing ends up behind a client that is done. *)
LEMMA OutputAppended ==
    ASSUME OutputSound, NEW pieces \in Cuts, AppendOutput(pieces)
    PROVE  OutputSound'
<1>1. PICK m \in 1..ReadBuffer : pieces \in [1..m -> Pieces]
    BY DEF Cuts
<1>2. m \in Nat /\ m > 0 /\ Len(pieces) = m
    BY <1>1, SizesAssumption, IsASeq, LenProperties
<1>3. /\ Sound(PushAll(ring, pieces))
      /\ PushAll(ring, pieces).next = ring.next + m
      /\ PushAll(ring, pieces).chunks # <<>>
      /\ Len(PushAll(ring, pieces).chunks) <= Len(ring.chunks) + m
    BY <1>1, <1>2, PushAllSound DEF OutputSound, Filled
<1>4. ring' = PushAll(ring, pieces) /\ ring.next + m <= MaxChunks /\ outputReaders = "reading"
    BY <1>2 DEF AppendOutput
<1>5. Filled'
    BY <1>3, <1>4 DEF Filled
<1>6. Ending' /\ outputStatus # "Ended" /\ outputStatus' = outputStatus
    BY <1>4 DEF OutputSound, Ending, AppendOutput
<1>7. ring.next \in Nat /\ ring'.next = ring.next + m
    BY <1>3, <1>4 DEF OutputSound, Filled, Sound, Rings
\* What is evicted stays evicted.
<1>9. Known \in Int /\ Known' \in Int /\ Known <= Known'
  <2>1. ring.chunks \in Seq(Chunk) /\ ring'.chunks \in Seq(Chunk)
      BY <1>3, <1>4 DEF OutputSound, Filled, Sound, Rings
  <2>2. Len(ring.chunks) \in Nat /\ Len(ring'.chunks) \in Nat
      BY <2>1, LenProperties
  <2>3. Len(ring'.chunks) <= Len(ring.chunks) + m
      BY <1>3, <1>4
  <2>6. Base = ring.next - Len(ring.chunks) /\ Base' = ring'.next - Len(ring'.chunks)
      BY DEF Base
  <2>4. Base \in Int /\ Base' \in Int /\ Base <= Base'
      BY <1>2, <1>7, <2>2, <2>3, <2>6
  <2>5. cursor' = cursor /\ cursor \in Int
      BY MaxChunksAssumption DEF AppendOutput, OutputSound, Paged
  <2> QED BY <2>4, <2>5 DEF Known
<1>8. Paged'
  <2>1. cursor' = cursor /\ delivered' = delivered /\ reported' = reported /\ done' = done
      BY DEF AppendOutput
  <2>2. reported' \subseteq 1..Known'
    <3>1. reported \subseteq 1..Known
        BY DEF OutputSound, Paged
    <3> QED BY <1>9, <2>1, <3>1
  <2>3. NoSilentGap'
      BY <2>1 DEF OutputSound, Paged, NoSilentGap
  <2>4. cursor \in Int /\ cursor \in -1..MaxChunks /\ cursor <= ring.next
      BY MaxChunksAssumption DEF OutputSound, Paged
  <2>5. cursor' \in -1..MaxChunks /\ cursor' <= ring'.next
      BY <1>2, <1>7, <2>1, <2>4
  <2> QED BY <1>6, <2>2, <2>3, <2>5 DEF Paged
<1> QED BY <1>5, <1>6, <1>8 DEF OutputSound

(* A response: the range it reports as gone and the chunks it delivers      *)
(* continue what the client has, without a gap and without an overlap.      *)
LEMMA OutputRead ==
    ASSUME OutputSound, NEW n \in 0..MaxChunks, Respond(n)
    PROVE  OutputSound'
<1>1. /\ Sound(ring) /\ ring.next \in Nat /\ ring.chunks \in Seq(Chunk) /\ Len(ring.chunks) \in Nat
      /\ Len(ring.chunks) <= ring.next /\ ring.next <= MaxChunks
      /\ ring.dropped \in Nat /\ (ring.dropped = 0 => Len(ring.chunks) = ring.next)
      /\ (ring.next # 0 => ring.chunks # <<>>)
  <2>1. Sound(ring) /\ ring \in Rings
      BY DEF OutputSound, Filled, Sound
  <2>2. ring.chunks \in Seq(Chunk)
      BY <2>1 DEF Rings
  <2>3. Len(ring.chunks) \in Nat
      BY <2>2, LenProperties
  <2> QED BY <2>1, <2>2, <2>3 DEF OutputSound, Filled, Sound, Rings, Consecutive
<1>2. cursor \in Int /\ cursor >= -1 /\ cursor <= ring.next /\ MaxChunks \in Int
    BY MaxChunksAssumption DEF OutputSound, Paged
<1>3. /\ Len(Unread) = ring.next - Known
      /\ \A i \in 1..Len(Unread) : Unread[i].cursor = Known + i
      /\ Unread \in Seq(Chunk)
    BY <1>1, <1>2, UnreadFollows
<1>4. /\ Base \in Nat /\ Known \in Nat /\ Known >= Base /\ Known >= cursor /\ Known <= ring.next
      /\ (Known = cursor \/ Known = Base)
    BY <1>1, <1>2 DEF Base, Known
<1>5. ring.chunks # <<>> => Earliest = Base + 1 /\ Len(ring.chunks) > 0
  <2> SUFFICES ASSUME ring.chunks # <<>> PROVE Earliest = Base + 1 /\ Len(ring.chunks) > 0
      OBVIOUS
  <2>1. Len(ring.chunks) > 0
      BY <1>1, EmptySeq
  <2>2. ring.chunks[1].cursor = ring.next - Len(ring.chunks) + 1
      BY <1>1, <2>1 DEF Sound, Consecutive
  <2> QED BY <1>1, <2>1, <2>2 DEF Earliest, Base
\* What it is told is gone is what was evicted and it has not passed.
<1>6. GoneRange = (cursor + 1)..Base \ {0}
  <2>1. CASE ring.chunks = <<>>
    <3>1. ring.next = 0 /\ Base = 0
        BY <1>1, <1>4, <2>1 DEF Base
    <3>2. GoneRange = {}
        BY <2>1 DEF GoneRange, CursorExpired
    <3> QED BY <1>2, <3>1, <3>2
  <2>2. CASE ring.chunks # <<>> /\ ring.dropped = 0
    <3>1. Base = 0
        BY <1>1, <2>2 DEF Base
    <3>2. GoneRange = {}
        BY <2>2 DEF GoneRange, CursorExpired
    <3> QED BY <1>2, <3>1, <3>2
  <2>3. CASE ring.chunks # <<>> /\ ring.dropped > 0
    <3>1. Earliest - 1 = Base
        BY <1>4, <1>5, <2>3
    <3>2. CASE cursor = -1
      <4>1. GoneRange = 1..Base
          BY <2>3, <3>1, <3>2 DEF GoneRange, CursorExpired
      <4> QED BY <1>4, <3>2, <4>1
    <3>3. CASE cursor # -1
      <4>1. CursorExpired <=> cursor < Base
          BY <2>3, <3>1, <3>3 DEF CursorExpired
      <4>2. GoneRange = IF cursor < Base THEN (cursor + 1)..Base ELSE {}
          BY <2>3, <3>1, <3>3, <4>1 DEF GoneRange
      <4> QED BY <1>2, <1>4, <3>3, <4>2
    <3> QED BY <3>2, <3>3
  <2> QED BY <1>1, <2>1, <2>2, <2>3
<1>7. cursor' = IF n = 0 THEN CursorBefore ELSE Known + n
  <2>1. n # 0 => n \in 1..Len(Unread)
      BY <1>3, <1>4, <1>1 DEF Respond
  <2> QED BY <1>3, <2>1 DEF Respond
<1>8. n \in 0..Len(Unread)
  <2>1. n <= Len(Unread)
      BY DEF Respond
  <2> QED BY <1>1, <1>3, <1>4, <2>1
<1>9. {Unread[i].cursor : i \in 1..n} = (Known + 1)..(Known + n)
  <2>1. \A i \in 1..n : Unread[i].cursor = Known + i
      BY <1>1, <1>3, <1>4, <1>8
  <2>2. {Unread[i].cursor : i \in 1..n} = {Known + i : i \in 1..n}
      BY <2>1
  <2>3. ASSUME NEW v \in (Known + 1)..(Known + n) PROVE v \in {Known + i : i \in 1..n}
    <3>1. v - Known \in 1..n /\ v = Known + (v - Known)
        BY <1>4
    <3> QED BY <3>1
  <2>4. \A i \in 1..n : Known + i \in (Known + 1)..(Known + n)
      BY <1>4
  <2> QED BY <2>2, <2>3, <2>4
\* A page without chunks leaves the cursor, or begins at the earliest chunk.
<1>10. n = 0 => cursor' = IF cursor = -1 THEN Known ELSE cursor
  <2> SUFFICES ASSUME n = 0 PROVE CursorBefore = IF cursor = -1 THEN Known ELSE cursor
      BY <1>7
  <2>1. CASE ring.chunks = <<>>
    <3>1. ring.next = 0 /\ Known = 0
        BY <1>1, <1>4, <2>1
    <3> QED BY <2>1, <3>1 DEF CursorBefore
  <2>2. CASE ring.chunks # <<>>
    <3>1. Earliest - 1 = Base
        BY <1>4, <1>5, <2>2
    <3>2. cursor = -1 => Known = Base
        BY <1>4 DEF Known
    <3> QED BY <2>2, <3>1, <3>2 DEF CursorBefore
  <2> QED BY <2>1, <2>2
<1>11. /\ n # 0 => cursor' = Known + n
       /\ cursor' \in Int /\ cursor' >= cursor /\ cursor' >= -1 /\ cursor' <= Known + n
    BY <1>2, <1>4, <1>7, <1>10
<1>19. Known' = Known + n
  <2>1. Base' = Base
      BY DEF Respond, Base
  <2>2. CASE n = 0
      BY <1>2, <1>4, <1>10, <2>1, <2>2 DEF Known
  <2>3. CASE n # 0
      BY <1>2, <1>4, <1>11, <2>1, <2>3 DEF Known
  <2> QED BY <2>2, <2>3
<1>12. NoSilentGap' /\ reported' \subseteq 1..Known'
  <2>1. /\ 1..cursor \subseteq delivered \cup reported /\ delivered \cap reported = {}
        /\ delivered \subseteq 1..cursor /\ reported \subseteq 1..Known
      BY DEF OutputSound, Paged, NoSilentGap
  <2>2. /\ delivered' = delivered \cup (Known + 1)..(Known + n)
        /\ reported' = reported \cup ((cursor + 1)..Base \ {0})
      BY <1>6, <1>9 DEF Respond
  <2>3. ASSUME NEW v \in 1..cursor' PROVE v \in delivered' \cup reported'
    <3>1. v \in Int /\ v >= 1
        BY <1>11
    <3>2. CASE v <= cursor
        BY <1>2, <2>1, <2>2, <3>1, <3>2
    <3>3. CASE v > cursor /\ v <= Base
        BY <1>2, <1>4, <2>2, <3>1, <3>3
    <3>4. CASE v > cursor /\ v > Base
      <4>1. v > Known
          BY <1>4, <3>4
      <4>2. v <= Known + n
          BY <1>4, <1>11, <3>1
      <4> QED BY <1>4, <2>2, <3>1, <4>1, <4>2
    <3> QED BY <1>2, <1>4, <3>1, <3>2, <3>3, <3>4
  <2>4. ASSUME NEW v \in delivered' PROVE v \notin reported' /\ v \in 1..cursor'
    <3>1. CASE v \in delivered
      <4>1. v \in 1..cursor /\ v \notin reported
          BY <2>1, <3>1
      <4>2. v \notin (cursor + 1)..Base
          BY <1>2, <1>4, <4>1
      <4>3. v \in 1..cursor'
          BY <1>2, <1>11, <4>1
      <4> QED BY <2>2, <4>1, <4>2, <4>3
    <3>2. CASE v \in (Known + 1)..(Known + n)
      <4>1. n # 0 /\ v \in Int /\ v > Known /\ v <= Known + n
          BY <1>4, <3>2
      <4>2. v \notin reported /\ v \notin (cursor + 1)..Base
          BY <1>2, <1>4, <2>1, <4>1
      <4>3. v \in 1..cursor'
          BY <1>4, <1>11, <4>1
      <4> QED BY <2>2, <4>2, <4>3
    <3> QED BY <2>2, <3>1, <3>2
  <2>5. ASSUME NEW v \in reported' PROVE v \in 1..Known'
    <3>1. CASE v \in reported
        BY <1>4, <1>19, <2>1, <3>1
    <3>2. CASE v \in (cursor + 1)..Base \ {0}
        BY <1>2, <1>4, <1>19, <3>2
    <3> QED BY <2>2, <3>1, <3>2
  <2> QED BY <2>3, <2>4, <2>5 DEF NoSilentGap
<1>13. done' => cursor' = ring.next /\ snap # "Running"
  <2> SUFFICES ASSUME done' PROVE cursor' = ring.next /\ snap # "Running"
      OBVIOUS
  <2>1. snap # "Running" /\ n = Len(Unread)
      BY DEF Respond
  <2>2. Known + n = ring.next
      BY <1>1, <1>3, <1>4, <2>1
  <2>3. CASE n # 0
      BY <1>11, <2>1, <2>2, <2>3
  <2>4. CASE n = 0
    <3>1. Known = ring.next
        BY <1>4, <2>2, <2>4
    <3>2. CASE ring.chunks = <<>>
        BY <1>1, <1>2, <1>10, <2>1, <2>4, <3>1, <3>2
    <3>3. CASE ring.chunks # <<>>
      <4>1. Base < ring.next /\ cursor = ring.next
          BY <1>1, <1>4, <1>5, <3>1, <3>3 DEF Base
      <4> QED BY <1>1, <1>10, <2>1, <2>4, <4>1
    <3> QED BY <3>2, <3>3
  <2> QED BY <2>3, <2>4
<1>14. ring' = ring /\ outputStatus' = outputStatus /\ outputReaders' = outputReaders /\ snap # "none"
       /\ snap' = "none" /\ done' \in BOOLEAN
    BY DEF Respond
<1>15. Filled'
    BY <1>14 DEF OutputSound, Filled
<1>16. Ending'
    BY <1>13, <1>14 DEF OutputSound, Ending
<1>17. cursor' \in -1..MaxChunks /\ cursor' <= ring'.next
  <2>1. Known + n <= ring.next
      BY <1>1, <1>3, <1>4, <1>8
  <2> QED BY <1>1, <1>2, <1>4, <1>11, <1>14, <2>1
<1>18. Paged'
    BY <1>12, <1>13, <1>14, <1>17 DEF Paged
<1> QED BY <1>15, <1>16, <1>18 DEF OutputSound

(* Every step of the readers, the monitor and the client. *)
LEMMA OutputStep == OutputSound /\ [OutputNext]_outputVars => OutputSound'
<1> SUFFICES ASSUME OutputSound, [OutputNext]_outputVars PROVE OutputSound'
    OBVIOUS
<1>1. CASE \E pieces \in Cuts : AppendOutput(pieces)
    BY <1>1, OutputAppended
<1>2. CASE OutputEnds
    BY <1>2 DEF OutputEnds, OutputSound, Filled, Ending, Paged, NoSilentGap, Known, Base
<1>3. CASE FinishCommand
    BY <1>3 DEF FinishCommand, OutputSound, Filled, Ending, Paged, NoSilentGap, Known, Base
<1>4. CASE FinishFailed
    BY <1>4 DEF FinishFailed, OutputSound, Filled, Ending, Paged, NoSilentGap, Known, Base
<1>5. CASE TakeSnapshot
    BY <1>5 DEF TakeSnapshot, OutputSound, Filled, Ending, Paged, NoSilentGap, Known, Base
<1>6. CASE \E n \in 0..MaxChunks : Respond(n)
    BY <1>6, OutputRead
<1>7. CASE UNCHANGED outputVars
    BY <1>7 DEF outputVars, OutputSound, Filled, Ending, Paged, NoSilentGap, Known, Base
<1> QED BY <1>1, <1>2, <1>3, <1>4, <1>5, <1>6, <1>7 DEF OutputNext

(* get_command_output never skips a chunk without reporting it and never    *)
(* delivers one twice, whatever is appended and evicted between the pages.  *)
THEOREM NothingLostSilently == OutputSpec => []NoSilentGap
<1>1. OutputSound => NoSilentGap
    BY DEF OutputSound, Paged
<1> QED BY InitOutput, OutputStep, <1>1, PTL DEF OutputSpec

(* The invariant holds the bounds of the buffer and what a last page means. *)
LEMMA CompleteFromOutput == OutputSound => CompleteWhenDone
<1> SUFFICES ASSUME OutputSound PROVE CompleteWhenDone
    OBVIOUS
<1>1. /\ Sound(ring) /\ ring \in Rings /\ ring.chunks \in Seq(Chunk) /\ Len(ring.chunks) \in Nat
      /\ ring.next \in 0..MaxChunks /\ MaxChunks \in Nat
  <2>1. Sound(ring) /\ ring \in Rings /\ ring.chunks \in Seq(Chunk) /\ ring.next \in Nat
        /\ ring.next <= MaxChunks
      BY DEF OutputSound, Filled, Sound, Rings
  <2> QED BY <2>1, LenProperties, MaxChunksAssumption
<1>2. ring.chunks \in Seq([cursor : 1..MaxChunks, size : 1..MaxChunk, text : TextSizes])
  <2> DEFINE C == [cursor : 1..MaxChunks, size : 1..MaxChunk, text : TextSizes]
  <2>1. ASSUME NEW i \in 1..Len(ring.chunks) PROVE ring.chunks[i] \in C
    <3>1. ring.chunks[i] \in Chunk
        BY <1>1, ElementOfSeq
    <3>2. ring.chunks[i].cursor = ring.next - Len(ring.chunks) + i /\ Len(ring.chunks) <= ring.next
        BY <1>1 DEF Sound, Consecutive
    <3>3. ring.chunks[i].cursor \in 1..MaxChunks
        BY <1>1, <3>2
    <3> QED BY <3>1, <3>3 DEF Chunk
  <2> HIDE DEF C
  <2>2. ring.chunks \in [1..Len(ring.chunks) -> C]
    <3>1. ring.chunks = [i \in 1..Len(ring.chunks) |-> ring.chunks[i]]
        BY <1>1, LenProperties
    <3> QED BY <2>1, <3>1
  <2>3. ring.chunks \in Seq(C)
      BY <1>1, <2>2, SeqDef
  <2> QED BY <2>3 DEF C
<1>3. delivered \subseteq 1..MaxChunks /\ reported \subseteq 1..MaxChunks
  <2>1. delivered \subseteq 1..cursor /\ reported \subseteq 1..Known /\ cursor \in -1..MaxChunks
      BY DEF OutputSound, Paged, NoSilentGap
  <2>2. Known \in Int /\ Known <= MaxChunks
      BY <1>1, <2>1 DEF Known, Base
  <2> QED BY <1>1, <2>1, <2>2
<1>4. OutputTypeOK
    BY <1>1, <1>2, <1>3 DEF OutputTypeOK, OutputSound, Ending, Paged, Rings
<1> QED BY <1>4 DEF CompleteWhenDone, OutputSound, Paged

(* The buffer stays within max_output_bytes_per_command, and a client that  *)
(* stops at the last page of an ended command has passed all its output.    *)
THEOREM DoneIsComplete == OutputSpec => []CompleteWhenDone
  BY InitOutput, OutputStep, CompleteFromOutput, PTL DEF OutputSpec
=============================================================================
