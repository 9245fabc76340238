-------------------------- MODULE AgentTasks_proofs -------------------------
(***************************************************************************)
(* Safety of the durable task queue, for every finite set of tasks, every  *)
(* shape of delegation, every number of processes and every workload.      *)
(*                                                                         *)
(* AttemptsMatch is inductive with the types: each transaction that moves  *)
(* a task looks at the status and closes the attempts that belong to it.   *)
(* The capacity needs only that a claim is the one way to run a task       *)
(* (StatusMoves); the action properties follow from the guards of the      *)
(* steps that could break them once an attempt is known by its status.     *)
(***************************************************************************)
EXTENDS AgentTasks, SequenceTheorems, FiniteSetTheorems, TLAPS

RunningTasks == {t \in Tasks : status[t] = "running"}

\* A run has a numbered attempt: 0 would address any active attempt.
NumberedRuns == \A r \in runners : r[2] # 0

IInv == AttemptsMatch /\ TeamCapacity /\ NumberedRuns

AttemptStatuses == {"running", "suspended", "completed", "failed", "cancelled",
                    "interrupted", "orphaned"}

InstanceStatuses == {"idle", "running", "waiting", "paused", "draining", "stopped"}

Recoveries ==
    [step : {"suspending", "closing", "pausing"}, task : Tasks, attempt : Nat,
     renewed : BOOLEAN]

-----------------------------------------------------------------------------
(* Marking attempts keeps their number and their order. *)
LEMMA MarkedTyped ==
    ASSUME TypeOK, NEW t \in Tasks, NEW ks, NEW s \in AttemptStatuses
    PROVE  /\ Marked(t, ks, s) \in Seq(Attempt)
           /\ Len(Marked(t, ks, s)) = Len(attempts[t])
           /\ DOMAIN Marked(t, ks, s) = DOMAIN attempts[t]
           /\ \A k \in DOMAIN attempts[t] :
                 Marked(t, ks, s)[k].status = IF k \in ks THEN s ELSE attempts[t][k].status
<1>1. attempts[t] \in Seq(Attempt)
    BY DEF TypeOK
<1>2. DOMAIN attempts[t] = 1 .. Len(attempts[t]) /\ Len(attempts[t]) \in Nat
    BY <1>1
<1>3. \A k \in 1 .. Len(attempts[t]) : attempts[t][k] \in Attempt
    BY <1>1
<1>4. \A k \in 1 .. Len(attempts[t]) :
         (IF k \in ks THEN [attempts[t][k] EXCEPT !.status = s] ELSE attempts[t][k]) \in Attempt
    BY <1>3 DEF Attempt, AttemptStatuses
<1>5. Marked(t, ks, s) \in Seq(Attempt)
    BY <1>2, <1>4 DEF Marked
<1>6. Len(Marked(t, ks, s)) = Len(attempts[t])
    BY <1>2, <1>5 DEF Marked
<1> QED BY <1>2, <1>3, <1>5, <1>6 DEF Marked, Attempt

(* What the marked attempts are afterwards. *)
LEMMA MarkedState ==
    ASSUME TypeOK, NEW t \in Tasks, NEW ks, NEW s \in AttemptStatuses,
           attempts'[t] = Marked(t, ks, s), NEW x
    PROVE  /\ Last(t)' = Last(t)
           /\ InState(t, x)' = {k \in DOMAIN attempts[t] :
                                   IF k \in ks THEN s = x ELSE k \in InState(t, x)}
  BY MarkedTyped DEF InState, Last

(* Every attempt that an update addresses is active. *)
LEMMA AddressedActive ==
    ASSUME NEW t, NEW k, CanClose(t, k)
    PROVE  Addressed(t, k) # {} /\ Addressed(t, k) \subseteq InState(t, ActiveState(t))
  BY FS_EmptySet DEF CanClose, Addressed

(* CloseActive keeps the types for every target that the code has. *)
LEMMA CloseTyped ==
    ASSUME TypeOK, NEW t \in Tasks, NEW k,
           NEW target \in Terminal \cup {"waiting"}, NEW s \in AttemptStatuses,
           CloseActive(t, k, target, s)
    PROVE  /\ status' \in [Tasks -> Holding \cup Terminal \cup {"none"}]
           /\ attempts' \in [Tasks -> Seq(Attempt)]
           /\ inst' \in [Instances -> InstanceStatuses]
           /\ deps' \in [Tasks -> SUBSET Tasks]
           /\ due' \subseteq Tasks
<1> USE DEF InstanceStatuses
<1>1. Marked(t, Addressed(t, k), s) \in Seq(Attempt)
    BY MarkedTyped
<1>2. attempts' \in [Tasks -> Seq(Attempt)]
    BY <1>1 DEF CloseActive, TypeOK
<1>3. inst' \in [Instances -> InstanceStatuses]
    BY DEF CloseActive, Undrained, TypeOK
<1>4. status' \in [Tasks -> Holding \cup Terminal \cup {"none"}]
    BY DEF CloseActive, TypeOK, Holding
<1> QED BY <1>2, <1>3, <1>4 DEF CloseActive, TypeOK

-----------------------------------------------------------------------------
(* A task that leaves no active status, or whose rows stay, still matches. *)
LEMMA MatchKept ==
    ASSUME NEW t \in Tasks, Matches(t), attempts'[t] = attempts[t],
           \/ status'[t] = status[t]
           \/ status[t] # "running" /\ status'[t] \notin {"running", "waiting"}
    PROVE  Matches(t)'
  BY DEF Matches, InState, Last

(* A task whose running attempts are closed together with it matches. *)
LEMMA MatchMarked ==
    ASSUME TypeOK, NEW t \in Tasks, NEW ks, NEW s \in AttemptStatuses \ {"running"},
           attempts'[t] = Marked(t, ks, s), InState(t, "running") \subseteq ks,
           status'[t] # "running",
           status'[t] = "waiting" => s = "suspended" /\ ks \cap DOMAIN attempts[t] # {}
    PROVE  Matches(t)'
<1>1. InState(t, "running")' = {}
    BY MarkedState
<1>2. ASSUME status'[t] = "waiting" PROVE InState(t, "suspended")' # {}
    BY <1>2, MarkedState
<1> QED BY <1>1, <1>2 DEF Matches

(* update_agent_task_state_inner closes a task with its active attempt. *)
LEMMA CloseMatch ==
    ASSUME AttemptsMatch, NEW t \in Tasks, NEW k,
           NEW target \in Terminal \cup {"waiting"},
           NEW s \in AttemptStatuses \ {"running"},
           target = "waiting" => status[t] = "running" /\ s = "suspended",
           CloseActive(t, k, target, s)
    PROVE  \A u \in Tasks : Matches(u)'
<1>1. Matches(t)'
  <2>1. Addressed(t, k) # {} /\ Addressed(t, k) \subseteq InState(t, ActiveState(t))
      BY AddressedActive DEF CloseActive
  <2>2. InState(t, "running") \subseteq Addressed(t, k)
      BY <2>1 DEF AttemptsMatch, Matches, CloseActive, ActiveState
  <2>3. attempts'[t] = Marked(t, Addressed(t, k), s) /\ status'[t] = target
      BY DEF CloseActive, AttemptsMatch, TypeOK
  <2>4. Addressed(t, k) \cap DOMAIN attempts[t] # {}
      BY <2>1 DEF Addressed, InState
  <2>5. target # "running"
      BY DEF Terminal
  <2> QED BY <2>2, <2>3, <2>4, <2>5, MatchMarked DEF AttemptsMatch
<1>2. ASSUME NEW u \in Tasks, u # t PROVE Matches(u)'
    BY <1>2, MatchKept DEF CloseActive, AttemptsMatch, TypeOK
<1> QED BY <1>1, <1>2

-----------------------------------------------------------------------------
(* Every step keeps the variables in their types.                           *)

(* Steps of the queue. *)
LEMMA QueueTyped ==
    ASSUME TypeOK, load' = load, up # {}, NEW t \in Tasks, QueueStep(t)
    PROVE  TypeOK'
<1> USE DEF rowVars, taskVars, procVars, InstanceStatuses
<1>0. /\ OwnerOf(t) \in Instances /\ owner[t] \in Instances
      /\ next \in [Instances -> Nat] /\ seq \in [Tasks -> Nat]
    BY TasksAssumption DEF TypeOK
<1>1. ASSUME Enqueue(t) PROVE TypeOK'
  <2>1. status' \in [Tasks -> Holding \cup Terminal \cup {"none"}]
      BY <1>1 DEF Enqueue, TypeOK, Holding
  <2>2. seq' \in [Tasks -> Nat] /\ next' \in [Instances -> Nat]
      BY <1>0, <1>1 DEF Enqueue
  <2> QED BY <1>1, <2>1, <2>2 DEF Enqueue, TypeOK
<1>2. ASSUME NEW i \in Instances, Transfer(t, i) PROVE TypeOK'
  <2>1. seq' \in [Tasks -> Nat] /\ next' \in [Instances -> Nat]
      BY <1>0, <1>2 DEF Transfer
  <2> QED BY <1>2, <2>1 DEF Transfer, TypeOK
<1>3. ASSUME CancelQueued(t) PROVE TypeOK'
    BY <1>3 DEF CancelQueued, TypeOK, Terminal
<1>4. ASSUME CancelSubtree(t) PROVE TypeOK'
  <2> DEFINE ts == {u \in Subtree(t) : status[u] \in {"queued", "waiting"}}
             ws == {u \in ts : status[u] = "waiting"}
  <2>1. \A u \in Tasks : Marked(u, InState(u, "suspended"), "cancelled") \in Seq(Attempt)
      BY MarkedTyped DEF AttemptStatuses
  <2>2. attempts' = [u \in Tasks |-> IF u \in ws
                                     THEN Marked(u, InState(u, "suspended"), "cancelled")
                                     ELSE attempts[u]]
      BY <1>4 DEF CancelSubtree
  <2>3. attempts' \in [Tasks -> Seq(Attempt)]
      BY <2>1, <2>2 DEF TypeOK
  <2>4. status' \in [Tasks -> Holding \cup Terminal \cup {"none"}]
      BY <1>4 DEF CancelSubtree, TypeOK, Terminal
  <2>5. inst' \in [Instances -> InstanceStatuses]
      BY <1>4 DEF CancelSubtree, TypeOK
  <2>6. deps' \in [Tasks -> SUBSET Tasks]
      BY <1>4 DEF CancelSubtree, TypeOK
  <2> QED BY <1>4, <2>3, <2>4, <2>5, <2>6 DEF CancelSubtree, TypeOK
<1>5. ASSUME Retry(t) PROVE TypeOK'
    BY <1>5 DEF Retry, TypeOK, Holding
<1>6. ASSUME WakeInstance(t) PROVE TypeOK'
    BY <1>6 DEF WakeInstance, TypeOK
<1>7. ASSUME LeaseExpires(t) PROVE TypeOK'
    BY <1>7 DEF LeaseExpires, TypeOK
<1>8. ASSUME DeadlinePasses(t) PROVE TypeOK'
    BY <1>8 DEF DeadlinePasses, TypeOK
<1>9. ASSUME NEW p \in up, Claim(t, p) PROVE TypeOK'
  <2>1. p \in Incarnations /\ [status |-> "running", owner |-> p] \in Attempt
      BY DEF Attempt, TypeOK
  <2>2. attempts' \in [Tasks -> Seq(Attempt)]
      BY <1>9, <2>1, AppendProperties DEF Claim, TypeOK
  <2>3. Last(t) + 1 \in Nat
      BY DEF Last, TypeOK
  <2>4. runners' \subseteq Runs
      BY <1>9, <2>3 DEF Claim, Runs, TypeOK
  <2>5. inst' \in [Instances -> InstanceStatuses]
      BY <1>9 DEF Claim, Undrained, TypeOK
  <2>6. status' \in [Tasks -> Holding \cup Terminal \cup {"none"}]
      BY <1>9 DEF Claim, TypeOK, Holding
  <2> QED BY <1>9, <2>2, <2>4, <2>5, <2>6 DEF Claim, TypeOK
<1>10. ASSUME NEW p \in up, CancelTask(p, t) PROVE TypeOK'
  <2>1. CASE /\ status' = [status EXCEPT ![t] = "cancelled"]
             /\ deps' = [deps EXCEPT ![t] = {}] /\ due' = due \ {t}
             /\ UNCHANGED <<attempts, inst>>
      BY <1>10, <2>1 DEF CancelTask, TypeOK, Terminal
  <2>2. CASE CloseActive(t, 0, "cancelled", "cancelled")
      BY <1>10, <2>2, CloseTyped DEF CancelTask, TypeOK, Terminal, AttemptStatuses
  <2> QED BY <1>10, <2>1, <2>2 DEF CancelTask
<1> QED BY <1>1, <1>2, <1>3, <1>4, <1>5, <1>6, <1>7, <1>8, <1>9, <1>10 DEF QueueStep

(* A recovery that goes on, or whose lease was renewed, stays a recovery. *)
LEMMA RecStepped ==
    /\ \A x \in Recoveries : x # IdleRec /\ [x EXCEPT !.renewed = TRUE] \in Recoveries
    /\ \A x \in Recoveries, s \in {"closing", "pausing"} : [x EXCEPT !.step = s] \in Recoveries
<1>1. ASSUME NEW x \in Recoveries PROVE x # IdleRec
    BY DEF Recoveries, IdleRec
<1>2. ASSUME NEW x \in Recoveries PROVE [x EXCEPT !.renewed = TRUE] \in Recoveries
    BY DEF Recoveries
<1>3. ASSUME NEW x \in Recoveries, NEW s \in {"closing", "pausing"}
      PROVE  [x EXCEPT !.step = s] \in Recoveries
    BY DEF Recoveries
<1> QED BY <1>1, <1>2, <1>3

(* Steps of a coordinator run. *)
LEMMA RunTyped ==
    ASSUME TypeOK, load' = load, NEW r \in runners, RunStep(r[1], r[2])
    PROVE  TypeOK'
<1> USE DEF rowVars, taskVars, procVars
<1> DEFINE t == r[1] k == r[2]
<1>0. t \in Tasks /\ k \in Nat /\ r = <<t, k>>
    BY DEF TypeOK, Runs
<1>1. ASSUME Renew(t, k) PROVE TypeOK'
  <2>1. lease' \in [Tasks -> {"fresh", "expired"}]
      BY <1>1 DEF Renew, TypeOK
  <2>2. rec' \in [Incarnations -> {IdleRec} \cup Recoveries]
      BY <1>1, RecStepped DEF Renew, TypeOK, Recoveries
  <2> QED BY <1>1, <2>1, <2>2 DEF Renew, TypeOK, Recoveries
<1>2. ASSUME LoseOutcome(t, k) PROVE TypeOK'
    BY <1>2 DEF LoseOutcome, TypeOK
<1>3. ASSUME NEW ds \in SUBSET Tasks, RegisterWait(t, k, ds) PROVE TypeOK'
    BY <1>0, <1>3 DEF RegisterWait, TypeOK
<1>4. ASSUME NEW target \in {"completed", "failed", "cancelled", "waiting"},
             Finish(t, k, target)
      PROVE  TypeOK'
  <2>1. CASE CloseActive(t, k, target, IF target = "waiting" THEN "suspended" ELSE target)
    <3> DEFINE s == IF target = "waiting" THEN "suspended" ELSE target
    <3>1. s \in AttemptStatuses /\ target \in Terminal \cup {"waiting"}
        BY DEF AttemptStatuses, Terminal
    <3> HIDE DEF t, k, s
    <3> QED BY <1>0, <1>4, <2>1, <3>1, CloseTyped DEF s, Finish, TypeOK, InstanceStatuses
  <2>2. CASE UNCHANGED <<inst, taskVars>>
      BY <1>4, <2>2 DEF Finish, TypeOK
  <2> QED BY <1>4, <2>1, <2>2 DEF Finish
<1> QED BY <1>1, <1>2, <1>3, <1>4 DEF RunStep

(* Steps of a recovery. *)
LEMMA RecoveryTyped ==
    ASSUME TypeOK, load' = load, NEW p \in Incarnations, RecoveryStep(p) \/ Crash(p)
    PROVE  TypeOK'
<1> USE DEF rowVars, taskVars, procVars
<1>0. rec \in [Incarnations -> {IdleRec} \cup Recoveries]
    BY DEF TypeOK, Recoveries
<1>r. ASSUME rec[p].step \in {"suspending", "closing", "pausing"}
      PROVE  rec[p] \in Recoveries
    BY <1>0, <1>r DEF IdleRec
<1>i. [rec EXCEPT ![p] = IdleRec] \in [Incarnations -> {IdleRec} \cup Recoveries]
    BY <1>0
<1>1. ASSUME NEW t \in Tasks, FindAbandoned(p, t) PROVE TypeOK'
  <2>1. Last(t) \in Nat
      BY DEF Last, TypeOK
  <2>2. [step |-> "suspending", task |-> t, attempt |-> Last(t), renewed |-> FALSE]
           \in Recoveries
      BY <2>1 DEF Recoveries
  <2>3. rec' \in [Incarnations -> {IdleRec} \cup Recoveries]
      BY <1>0, <1>1, <2>2 DEF FindAbandoned
  <2> QED BY <1>1, <2>3 DEF FindAbandoned, TypeOK, Recoveries
<1>2. ASSUME RecoverSuspend(p) PROVE TypeOK'
  <2> DEFINE t == rec[p].task
  <2>1. rec[p] \in Recoveries /\ t \in Tasks
      BY <1>2, <1>r DEF RecoverSuspend, Recoveries
  <2>2. CASE SuspendRunning(t) /\ rec' = [rec EXCEPT ![p] = IdleRec]
    <3>1. Marked(t, InState(t, "running"), "suspended") \in Seq(Attempt)
        BY <2>1, MarkedTyped DEF AttemptStatuses
    <3>2. attempts' \in [Tasks -> Seq(Attempt)]
        BY <2>2, <3>1 DEF SuspendRunning, TypeOK
    <3>3. status' \in [Tasks -> Holding \cup Terminal \cup {"none"}]
        BY <2>1, <2>2 DEF SuspendRunning, TypeOK, Holding
    <3>4. inst' \in [Instances -> InstanceStatuses]
        BY <2>1, <2>2 DEF SuspendRunning, TypeOK, InstanceStatuses
    <3> QED BY <1>2, <1>i, <2>2, <3>2, <3>3, <3>4
            DEF RecoverSuspend, TypeOK, Recoveries, InstanceStatuses
  <2>3. CASE rec' = [rec EXCEPT ![p].step = "closing"] /\ UNCHANGED <<status, attempts, inst>>
    <3>1. rec' \in [Incarnations -> {IdleRec} \cup Recoveries]
        BY <1>0, <2>1, <2>3, RecStepped
    <3> QED BY <1>2, <2>3, <3>1 DEF RecoverSuspend, TypeOK, Recoveries
  <2> QED BY <1>2, <2>2, <2>3 DEF RecoverSuspend
<1>3. ASSUME RecoverChatRun(p) PROVE TypeOK'
  <2> DEFINE t == rec[p].task
  <2>1. t \in Tasks
      BY <1>3, <1>r DEF RecoverChatRun, Recoveries
  <2>2. CASE StillAbandoned(p)
    <3>1. Marked(t, {rec[p].attempt}, Interruption(p)) \in Seq(Attempt)
        BY <2>1, MarkedTyped DEF AttemptStatuses, Interruption
    <3>2. attempts' \in [Tasks -> Seq(Attempt)]
        BY <1>3, <2>2, <3>1 DEF RecoverChatRun, TypeOK
    <3>3. status' \in [Tasks -> Holding \cup Terminal \cup {"none"}]
        BY <1>3, <2>1, <2>2 DEF RecoverChatRun, TypeOK, Terminal
    <3>4. inst' \in [Instances -> InstanceStatuses]
      <4>1. inst' = [inst EXCEPT ![owner[t]] = Undrained(owner[t], "paused")]
          BY <1>3, <2>2 DEF RecoverChatRun
      <4>2. Undrained(owner[t], "paused") \in InstanceStatuses
          BY DEF Undrained, InstanceStatuses
      <4> QED BY <4>1, <4>2 DEF TypeOK, InstanceStatuses
    <3> QED BY <1>3, <1>i, <3>2, <3>3, <3>4
            DEF RecoverChatRun, TypeOK, Recoveries, InstanceStatuses
  <2>3. CASE ~StillAbandoned(p)
      BY <1>3, <1>i, <2>3 DEF RecoverChatRun, TypeOK, Recoveries
  <2> QED BY <2>2, <2>3
<1>4. ASSUME RecoverInterrupt(p) PROVE TypeOK'
  <2> DEFINE t == rec[p].task
  <2>1. rec[p] \in Recoveries /\ t \in Tasks
      BY <1>4, <1>r DEF RecoverInterrupt, Recoveries
  <2>2. CASE StillAbandoned(p)
    <3>1. Interruption(p) \in AttemptStatuses /\ "interrupted" \in Terminal
        BY DEF AttemptStatuses, Interruption, Terminal
    <3>2. CloseActive(t, rec[p].attempt, "interrupted", Interruption(p))
        BY <1>4, <2>2 DEF RecoverInterrupt
    <3>3. rec' \in [Incarnations -> {IdleRec} \cup Recoveries]
        BY <1>0, <1>4, <2>1, <2>2, RecStepped DEF RecoverInterrupt
    <3> HIDE DEF t
    <3> QED BY <1>4, <2>1, <3>1, <3>2, <3>3, CloseTyped
            DEF RecoverInterrupt, TypeOK, Recoveries, InstanceStatuses
  <2>3. CASE ~StillAbandoned(p)
      BY <1>4, <1>i, <2>3 DEF RecoverInterrupt, TypeOK, Recoveries
  <2> QED BY <2>2, <2>3
<1>5. ASSUME RecoverPause(p) PROVE TypeOK'
  <2>1. rec[p].task \in Tasks
      BY <1>5, <1>r DEF RecoverPause, Recoveries
  <2>2. inst' \in [Instances -> InstanceStatuses]
      BY <1>5, <2>1 DEF RecoverPause, TypeOK, InstanceStatuses
  <2> QED BY <1>5, <1>i, <2>2 DEF RecoverPause, TypeOK, Recoveries, InstanceStatuses
<1>6. ASSUME Crash(p) PROVE TypeOK'
  <2>1. runners' \subseteq runners /\ asked' \subseteq runners'
      BY <1>6 DEF Crash
  <2> QED BY <1>6, <1>i, <2>1 DEF Crash, TypeOK, Recoveries
<1> QED BY <1>1, <1>2, <1>3, <1>4, <1>5, <1>6 DEF RecoveryStep

(* Steps of the whole team. *)
LEMMA TeamTyped ==
    ASSUME TypeOK, load' = load,
           \/ ResumeSatisfied \/ RecoverInterruptedWaits
           \/ \E s \in {"active", "paused", "draining", "stopped"} : ControlTeam(s)
           \/ \E i \in Instances, s \in {"idle", "paused", "draining", "stopped"} :
                 ControlInstance(i, s)
    PROVE  TypeOK'
<1> USE DEF rowVars, taskVars, procVars, InstanceStatuses
<1>1. ASSUME ResumeSatisfied PROVE TypeOK'
  <2>1. status' \in [Tasks -> Holding \cup Terminal \cup {"none"}]
      BY <1>1 DEF ResumeSatisfied, TypeOK, Holding
  <2>2. inst' \in [Instances -> InstanceStatuses]
      BY <1>1 DEF ResumeSatisfied, TypeOK, Undrained
  <2> QED BY <1>1, <2>1, <2>2 DEF ResumeSatisfied, TypeOK
<1>2. ASSUME RecoverInterruptedWaits PROVE TypeOK'
  <2> DEFINE ts == {t \in Tasks : RecoverableWait(t)}
  <2>1. status' \in [Tasks -> Holding \cup Terminal \cup {"none"}]
      BY <1>2 DEF RecoverInterruptedWaits, TypeOK, Holding
  <2>2. inst' \in [Instances -> InstanceStatuses]
      BY <1>2 DEF RecoverInterruptedWaits, TypeOK, Undrained
  <2>3. \A t \in Tasks : Marked(t, InState(t, "interrupted"), "suspended") \in Seq(Attempt)
      BY MarkedTyped DEF AttemptStatuses
  <2>4. attempts' = [t \in Tasks |->
                       IF t \in ts THEN Marked(t, InState(t, "interrupted"), "suspended")
                       ELSE attempts[t]]
      BY <1>2 DEF RecoverInterruptedWaits
  <2>5. attempts' \in [Tasks -> Seq(Attempt)]
      BY <2>3, <2>4 DEF TypeOK
  <2> QED BY <1>2, <2>1, <2>2, <2>5 DEF RecoverInterruptedWaits, TypeOK
<1>3. ASSUME NEW s \in {"active", "paused", "draining", "stopped"}, ControlTeam(s)
      PROVE  TypeOK'
  <2>1. inst' \in [Instances -> InstanceStatuses]
      BY <1>3 DEF ControlTeam, TypeOK
  <2> QED BY <1>3, <2>1 DEF ControlTeam, TypeOK
<1>4. ASSUME NEW i \in Instances, NEW s \in {"idle", "paused", "draining", "stopped"},
             ControlInstance(i, s)
      PROVE  TypeOK'
    BY <1>4 DEF ControlInstance, TypeOK
<1> QED BY <1>1, <1>2, <1>3, <1>4

LEMMA TypeStep == TypeOK /\ [Next]_vars => TypeOK'
<1> SUFFICES ASSUME TypeOK, [Next]_vars PROVE TypeOK'
    OBVIOUS
<1>1. CASE UNCHANGED vars
    BY <1>1 DEF vars, rowVars, taskVars, procVars, TypeOK
<1>2. CASE Next
    BY <1>2, QueueTyped, RunTyped, RecoveryTyped, TeamTyped DEF Next, Step
<1> QED BY <1>1, <1>2

-----------------------------------------------------------------------------
(* Every step changes tasks and attempts together.                          *)

LEMMA RowsKept ==
    ASSUME AttemptsMatch, UNCHANGED <<status, attempts>>
    PROVE  \A u \in Tasks : Matches(u)'
  BY MatchKept DEF AttemptsMatch

(* Claiming a task appends the one attempt that runs. *)
LEMMA ClaimMatch ==
    ASSUME AttemptsMatch, NEW t \in Tasks, NEW p \in Incarnations, Claim(t, p)
    PROVE  \A u \in Tasks : Matches(u)'
<1> DEFINE a == [status |-> "running", owner |-> p]
<1>1. a \in Attempt /\ attempts[t] \in Seq(Attempt) /\ attempts'[t] = Append(attempts[t], a)
    BY DEF Claim, AttemptsMatch, TypeOK, Attempt
<1>2. /\ Len(attempts'[t]) = Last(t) + 1
      /\ DOMAIN attempts'[t] = 1 .. Last(t) + 1
      /\ \A k \in 1 .. Last(t) : attempts'[t][k] = attempts[t][k]
      /\ attempts'[t][Last(t) + 1] = a
    BY <1>1, AppendProperties DEF Last
<1>3. Last(t) \in Nat /\ DOMAIN attempts[t] = 1 .. Last(t)
    BY <1>1 DEF Last
<1>4. InState(t, "running") = {}
    BY DEF AttemptsMatch, Matches, Claim, Runnable
<1>5. InState(t, "running")' = {Last(t) + 1}
  <2>1. \A k \in 1 .. Last(t) : attempts'[t][k].status # "running"
      BY <1>2, <1>3, <1>4 DEF InState
  <2>2. \A k \in 1 .. Last(t) + 1 : attempts'[t][k].status = "running" <=> k = Last(t) + 1
      BY <1>2, <1>3, <2>1
  <2>3. Last(t) + 1 \in 1 .. Last(t) + 1
      BY <1>3
  <2> QED BY <1>2, <2>2, <2>3 DEF InState
<1>6. Matches(t)'
    BY <1>2, <1>5 DEF Matches, Last, Claim, AttemptsMatch, TypeOK
<1>7. ASSUME NEW u \in Tasks, u # t PROVE Matches(u)'
    BY <1>7, MatchKept DEF Claim, AttemptsMatch, TypeOK
<1> QED BY <1>6, <1>7

LEMMA QueueMatch ==
    ASSUME AttemptsMatch, NEW t \in Tasks, QueueStep(t)
    PROVE  \A u \in Tasks : Matches(u)'
<1> USE DEF rowVars, taskVars, procVars
<1>0. TypeOK /\ \A u \in Tasks : Matches(u)
    BY DEF AttemptsMatch
<1>1. ASSUME Enqueue(t) \/ CancelQueued(t) \/ Retry(t), NEW u \in Tasks PROVE Matches(u)'
  <2>1. attempts' = attempts /\ \/ u # t /\ status'[u] = status[u]
                                \/ status[u] # "running" /\ status'[u] \in {"queued", "cancelled"}
      BY <1>0, <1>1 DEF Enqueue, CancelQueued, Retry, TypeOK
  <2> QED BY <1>0, <2>1, MatchKept
<1>2. ASSUME \/ WakeInstance(t) \/ LeaseExpires(t) \/ DeadlinePasses(t)
             \/ \E i \in Instances : Transfer(t, i)
      PROVE  \A u \in Tasks : Matches(u)'
    BY <1>2, RowsKept DEF WakeInstance, LeaseExpires, DeadlinePasses, Transfer
<1>3. ASSUME CancelSubtree(t), NEW u \in Tasks PROVE Matches(u)'
  <2> DEFINE ts == {v \in Subtree(t) : status[v] \in {"queued", "waiting"}}
             ws == {v \in ts : status[v] = "waiting"}
  <2>1. /\ status'[u] = IF u \in ts THEN "cancelled" ELSE status[u]
        /\ attempts'[u] = IF u \in ws THEN Marked(u, InState(u, "suspended"), "cancelled")
                          ELSE attempts[u]
      BY <1>3 DEF CancelSubtree
  <2>2. CASE u \in ws
    <3>1. InState(u, "running") = {}
        BY <1>0, <2>2 DEF Matches
    <3> QED BY <1>0, <2>1, <2>2, <3>1, MatchMarked DEF AttemptStatuses
  <2>3. CASE u \notin ws
      BY <1>0, <2>1, <2>3, MatchKept
  <2> QED BY <2>2, <2>3
<1>4. ASSUME NEW p \in up, Claim(t, p) PROVE \A u \in Tasks : Matches(u)'
    BY <1>0, <1>4, ClaimMatch DEF TypeOK
<1>5. ASSUME NEW p \in up, CancelTask(p, t) PROVE \A u \in Tasks : Matches(u)'
  <2>1. CASE /\ status[t] = "queued" /\ status' = [status EXCEPT ![t] = "cancelled"]
             /\ UNCHANGED attempts
    <3>1. ASSUME NEW u \in Tasks PROVE Matches(u)'
      <4>1. attempts' = attempts /\ \/ u # t /\ status'[u] = status[u]
                                    \/ status[u] # "running" /\ status'[u] = "cancelled"
          BY <1>0, <2>1 DEF TypeOK
      <4> QED BY <1>0, <4>1, MatchKept
    <3> QED BY <3>1
  <2>2. CASE CloseActive(t, 0, "cancelled", "cancelled")
      BY <2>2, CloseMatch DEF Terminal, AttemptStatuses
  <2> QED BY <1>5, <2>1, <2>2 DEF CancelTask
<1> QED BY <1>1, <1>2, <1>3, <1>4, <1>5 DEF QueueStep

LEMMA RunMatch ==
    ASSUME AttemptsMatch, NEW r \in runners, RunStep(r[1], r[2])
    PROVE  \A u \in Tasks : Matches(u)'
<1> USE DEF rowVars, taskVars, procVars
<1> DEFINE t == r[1] k == r[2]
<1>0. t \in Tasks
    BY DEF AttemptsMatch, TypeOK, Runs
<1>1. ASSUME \/ Renew(t, k) \/ LoseOutcome(t, k)
             \/ \E ds \in SUBSET Tasks : RegisterWait(t, k, ds)
      PROVE  \A u \in Tasks : Matches(u)'
    BY <1>1, RowsKept DEF Renew, LoseOutcome, RegisterWait
<1>2. ASSUME NEW target \in {"completed", "failed", "cancelled", "waiting"},
             Finish(t, k, target)
      PROVE  \A u \in Tasks : Matches(u)'
  <2> DEFINE s == IF target = "waiting" THEN "suspended" ELSE target
  <2>1. CASE status[t] = "running" /\ CloseActive(t, k, target, s)
    <3>1. s \in AttemptStatuses \ {"running"} /\ target \in Terminal \cup {"waiting"}
        BY DEF AttemptStatuses, Terminal
    <3>2. target = "waiting" => s = "suspended"
        OBVIOUS
    <3> HIDE DEF t, k, s
    <3> QED BY <1>0, <2>1, <3>1, <3>2, CloseMatch
  <2>2. CASE UNCHANGED taskVars
      BY <2>2, RowsKept
  <2> QED BY <1>2, <2>1, <2>2 DEF Finish
<1> QED BY <1>1, <1>2 DEF RunStep

LEMMA RecoveryMatch ==
    ASSUME AttemptsMatch, NEW p \in Incarnations, RecoveryStep(p) \/ Crash(p)
    PROVE  \A u \in Tasks : Matches(u)'
<1> USE DEF rowVars, taskVars, procVars
<1>0. TypeOK /\ \A u \in Tasks : Matches(u)
    BY DEF AttemptsMatch
<1>r. ASSUME rec[p].step \in {"suspending", "closing", "pausing"} PROVE rec[p].task \in Tasks
    BY <1>0, <1>r DEF TypeOK, IdleRec
<1>1. ASSUME (\E u \in Tasks : FindAbandoned(p, u)) \/ RecoverPause(p) \/ Crash(p)
      PROVE  \A u \in Tasks : Matches(u)'
    BY <1>1, RowsKept DEF FindAbandoned, RecoverPause, Crash
<1>2. ASSUME RecoverSuspend(p) PROVE \A u \in Tasks : Matches(u)'
  <2>0. PICK t \in Tasks : t = rec[p].task
      BY <1>2, <1>r DEF RecoverSuspend
  <2>1. CASE OpenWait(t) /\ SuspendRunning(t)
    <3>1. /\ attempts'[t] = Marked(t, InState(t, "running"), "suspended")
          /\ status'[t] = "waiting"
        BY <1>0, <2>0, <2>1 DEF SuspendRunning, TypeOK
    <3>2. InState(t, "running") \cap DOMAIN attempts[t] # {}
        BY <1>0, <2>0, <2>1 DEF Matches, OpenWait, InState
    <3>3. Matches(t)'
        BY <1>0, <2>0, <3>1, <3>2, MatchMarked DEF AttemptStatuses
    <3>4. ASSUME NEW u \in Tasks, u # t PROVE Matches(u)'
        BY <1>0, <2>1, <3>4, MatchKept DEF SuspendRunning, TypeOK
    <3> QED BY <3>3, <3>4
  <2>2. CASE UNCHANGED <<status, attempts>>
      BY <2>2, RowsKept
  <2> QED BY <1>2, <2>0, <2>1, <2>2 DEF RecoverSuspend
<1>3. ASSUME RecoverChatRun(p) PROVE \A u \in Tasks : Matches(u)'
  <2>0. PICK t \in Tasks : t = rec[p].task
      BY <1>3, <1>r DEF RecoverChatRun
  <2>1. CASE StillAbandoned(p)
    <3>0. PICK a : a = rec[p].attempt
        OBVIOUS
    <3>1. /\ attempts' = [attempts EXCEPT ![t] = Marked(t, {a}, Interruption(p))]
          /\ status' = [status EXCEPT ![t] = "interrupted"]
        BY <1>3, <2>0, <2>1, <3>0 DEF RecoverChatRun
    <3>2. InState(t, "running") \subseteq {a}
        BY <1>0, <2>0, <2>1, <3>0 DEF StillAbandoned, SameAttempt, Matches
    <3>3. Interruption(p) \in AttemptStatuses \ {"running"}
        BY DEF Interruption, AttemptStatuses
    <3>4. Matches(t)'
        BY <1>0, <2>0, <3>1, <3>2, <3>3, MatchMarked DEF TypeOK
    <3>5. ASSUME NEW u \in Tasks, u # t PROVE Matches(u)'
        BY <1>0, <3>1, <3>5, MatchKept DEF TypeOK
    <3> QED BY <3>4, <3>5
  <2>2. CASE ~StillAbandoned(p)
      BY <1>3, <2>2, RowsKept DEF RecoverChatRun
  <2> QED BY <2>1, <2>2
<1>4. ASSUME RecoverInterrupt(p) PROVE \A u \in Tasks : Matches(u)'
  <2>0. PICK t \in Tasks : t = rec[p].task
      BY <1>4, <1>r DEF RecoverInterrupt
  <2>1. CASE CloseActive(t, rec[p].attempt, "interrupted", Interruption(p))
    <3>1. Interruption(p) \in AttemptStatuses \ {"running"} /\ "interrupted" \in Terminal
        BY DEF Interruption, AttemptStatuses, Terminal
    <3> QED BY <2>1, <3>1, CloseMatch
  <2>2. CASE UNCHANGED taskVars
      BY <2>2, RowsKept
  <2> QED BY <1>4, <2>0, <2>1, <2>2 DEF RecoverInterrupt
<1> QED BY <1>1, <1>2, <1>3, <1>4 DEF RecoveryStep

LEMMA TeamMatch ==
    ASSUME AttemptsMatch,
           \/ ResumeSatisfied \/ RecoverInterruptedWaits
           \/ \E s \in {"active", "paused", "draining", "stopped"} : ControlTeam(s)
           \/ \E i \in Instances, s \in {"idle", "paused", "draining", "stopped"} :
                 ControlInstance(i, s)
    PROVE  \A u \in Tasks : Matches(u)'
<1>0. TypeOK /\ \A u \in Tasks : Matches(u)
    BY DEF AttemptsMatch
<1>1. ASSUME ResumeSatisfied, NEW u \in Tasks PROVE Matches(u)'
    BY <1>0, <1>1, MatchKept DEF ResumeSatisfied, Resumable
<1>2. ASSUME RecoverInterruptedWaits, NEW u \in Tasks PROVE Matches(u)'
  <2>1. CASE RecoverableWait(u)
    <3>1. /\ attempts'[u] = Marked(u, InState(u, "interrupted"), "suspended")
          /\ status'[u] = "waiting"
        BY <1>2, <2>1 DEF RecoverInterruptedWaits
    <3>2. InState(u, "running") = {}
        BY <1>0, <2>1 DEF RecoverableWait, InterruptedWait, Matches
    <3>3. InState(u, "interrupted") \cap DOMAIN attempts[u] # {}
        BY <2>1 DEF RecoverableWait, InterruptedWait, InState
    <3> QED BY <1>0, <3>1, <3>2, <3>3, MatchMarked DEF AttemptStatuses
  <2>2. CASE ~RecoverableWait(u)
      BY <1>0, <1>2, <2>2, MatchKept DEF RecoverInterruptedWaits
  <2> QED BY <2>1, <2>2
<1>3. ASSUME UNCHANGED <<status, attempts>> PROVE \A u \in Tasks : Matches(u)'
    BY <1>3, RowsKept
<1> QED BY <1>1, <1>2, <1>3 DEF ControlTeam, ControlInstance, taskVars

LEMMA MatchStep == AttemptsMatch /\ [Next]_vars => AttemptsMatch'
<1> SUFFICES ASSUME AttemptsMatch, [Next]_vars PROVE \A u \in Tasks : Matches(u)'
    BY TypeStep DEF AttemptsMatch
<1>1. CASE UNCHANGED vars
    BY <1>1, RowsKept DEF vars, taskVars
<1>2. CASE Next
    BY <1>2, QueueMatch, RunMatch, RecoveryMatch, TeamMatch DEF Next, Step
<1> QED BY <1>1, <1>2

-----------------------------------------------------------------------------
(* How a task may change its status: it is created, it is claimed, or it    *)
(* ends up neither running nor missing.                                     *)
LEMMA StatusMoves ==
    ASSUME TypeOK, Next, NEW u \in Tasks, status'[u] # status[u]
    PROVE  \/ Enqueue(u)
           \/ \E p \in up : Claim(u, p)
           \/ status[u] # "none" /\ status'[u] \notin {"running", "none"}
<1> USE DEF rowVars, taskVars, procVars
<1> DEFINE Moved == status[u] # "none" /\ status'[u] \notin {"running", "none"}
<1>c. ASSUME NEW t, NEW k, NEW target \in Terminal \cup {"waiting"}, NEW s,
             CloseActive(t, k, target, s)
      PROVE  Moved
    BY <1>c DEF CloseActive, TypeOK, Terminal
<1>1. ASSUME NEW t \in Tasks, QueueStep(t)
      PROVE  Enqueue(u) \/ (\E p \in up : Claim(u, p)) \/ Moved
  <2>1. CASE Enqueue(t)
      BY <2>1 DEF Enqueue, TypeOK
  <2>2. CASE CancelQueued(t) \/ Retry(t)
      BY <2>2 DEF CancelQueued, Retry, TypeOK
  <2>3. CASE CancelSubtree(t)
      BY <2>3 DEF CancelSubtree, Subtree
  <2>4. CASE \/ WakeInstance(t) \/ LeaseExpires(t) \/ DeadlinePasses(t)
             \/ \E i \in Instances : Transfer(t, i)
      BY <2>4 DEF WakeInstance, LeaseExpires, DeadlinePasses, Transfer
  <2>5. ASSUME NEW p \in up, Claim(t, p) PROVE Claim(u, p)
    <3>1. u = t
        BY <2>5 DEF Claim, TypeOK
    <3> QED BY <2>5, <3>1
  <2>6. ASSUME NEW p \in up, CancelTask(p, t) PROVE Moved
    <3>1. CASE status[t] = "queued" /\ status' = [status EXCEPT ![t] = "cancelled"]
        BY <3>1 DEF TypeOK
    <3>2. CASE CloseActive(t, 0, "cancelled", "cancelled")
        BY <1>c, <3>2 DEF Terminal
    <3> QED BY <2>6, <3>1, <3>2 DEF CancelTask
  <2> QED BY <1>1, <2>1, <2>2, <2>3, <2>4, <2>5, <2>6 DEF QueueStep
<1>2. ASSUME NEW r \in runners, RunStep(r[1], r[2]) PROVE Moved
  <2>1. PICK target \in {"completed", "failed", "cancelled", "waiting"} :
           Finish(r[1], r[2], target)
      BY <1>2 DEF RunStep, Renew, LoseOutcome, RegisterWait
  <2>2. target \in Terminal \cup {"waiting"}
      BY DEF Terminal
  <2> QED BY <1>c, <2>1, <2>2 DEF Finish
<1>3. ASSUME NEW p \in Incarnations, RecoveryStep(p) \/ Crash(p) PROVE Moved
  <2>1. CASE RecoverSuspend(p)
      BY <2>1 DEF RecoverSuspend, OpenWait, SuspendRunning, TypeOK
  <2>2. CASE RecoverChatRun(p)
      BY <2>2 DEF RecoverChatRun, StillAbandoned, SameAttempt, TypeOK
  <2>3. CASE RecoverInterrupt(p)
      BY <1>c, <2>3 DEF RecoverInterrupt, Terminal
  <2> QED BY <1>3, <2>1, <2>2, <2>3 DEF RecoveryStep, FindAbandoned, RecoverPause, Crash
<1>4. ASSUME ResumeSatisfied \/ RecoverInterruptedWaits PROVE Moved
    BY <1>4 DEF ResumeSatisfied, Resumable, RecoverInterruptedWaits, RecoverableWait,
                InterruptedWait
<1>5. /\ \A s : ~ControlTeam(s)
      /\ \A i, s : ~ControlInstance(i, s)
    BY DEF ControlTeam, ControlInstance
<1> QED BY <1>1, <1>2, <1>3, <1>4, <1>5 DEF Next, Step

(* A step runs at most the one task that it claims within the capacity. *)
LEMMA CapacityStep == TypeOK /\ TeamCapacity /\ [Next]_vars => TeamCapacity'
<1> SUFFICES ASSUME TypeOK, TeamCapacity, [Next]_vars PROVE TeamCapacity'
    OBVIOUS
<1>1. IsFiniteSet(RunningTasks) /\ Cardinality(RunningTasks) \in Nat
    BY TasksAssumption, FS_Subset, FS_CardinalityType DEF RunningTasks
<1>2. load.runs \in Nat /\ load' = load
    BY WorkloadsAssumption DEF TypeOK, Next, vars
<1>3. Cardinality(RunningTasks) <= load.runs
    BY DEF TeamCapacity, RunningTasks
<1>4. CASE RunningTasks' \subseteq RunningTasks
    BY <1>1, <1>2, <1>3, <1>4, FS_Subset, FS_CardinalityType DEF TeamCapacity, RunningTasks
<1>5. CASE \E t \in Tasks, p \in up : Claim(t, p)
  <2>1. PICK t \in Tasks, p \in up : Claim(t, p)
      BY <1>5
  <2>2. RunningTasks' \subseteq RunningTasks \cup {t}
      BY <2>1 DEF Claim, TypeOK, RunningTasks
  <2>3. Cardinality(RunningTasks) < load.runs
      BY <2>1 DEF Claim, Runnable, HasCapacity, RunningTasks
  <2>4. /\ IsFiniteSet(RunningTasks \cup {t})
        /\ Cardinality(RunningTasks \cup {t}) <= Cardinality(RunningTasks) + 1
    <3> HIDE DEF RunningTasks
    <3>1. /\ IsFiniteSet(RunningTasks \cup {t})
          /\ \/ Cardinality(RunningTasks \cup {t}) = Cardinality(RunningTasks)
             \/ Cardinality(RunningTasks \cup {t}) = Cardinality(RunningTasks) + 1
        BY ONLY <1>1, FS_AddElement, Zenon
    <3> QED BY <1>1, <3>1
  <2>5. /\ Cardinality(RunningTasks') <= Cardinality(RunningTasks \cup {t})
        /\ Cardinality(RunningTasks') \in Nat /\ Cardinality(RunningTasks \cup {t}) \in Nat
      BY <2>2, <2>4, FS_Subset, FS_CardinalityType
  <2>6. Cardinality(RunningTasks') <= load'.runs
      BY <1>1, <1>2, <2>3, <2>4, <2>5
  <2> QED BY <2>6 DEF TeamCapacity, RunningTasks
<1>6. CASE ~ \E t \in Tasks, p \in up : Claim(t, p)
  <2>1. ASSUME NEW u \in Tasks, status'[u] = "running", status[u] # "running" PROVE FALSE
    <3>1. Next
        BY <2>1 DEF vars, taskVars
    <3>2. ~Enqueue(u)
        BY <2>1 DEF Enqueue, TypeOK
    <3> QED BY <1>6, <2>1, <3>1, <3>2, StatusMoves
  <2>2. RunningTasks' \subseteq RunningTasks
      BY <2>1 DEF RunningTasks
  <2> QED BY <1>4, <2>2
<1> QED BY <1>5, <1>6

(* Only a claim starts a run, with the number of the attempt it appends. *)
LEMMA RunsStep == TypeOK /\ NumberedRuns /\ [Next]_vars => NumberedRuns'
<1> SUFFICES ASSUME TypeOK, NumberedRuns, [Next]_vars PROVE NumberedRuns'
    OBVIOUS
<1> USE DEF rowVars, taskVars, procVars
<1>1. CASE runners' \subseteq runners
    BY <1>1 DEF NumberedRuns
<1>2. ASSUME NEW t \in Tasks, NEW p \in up, Claim(t, p) PROVE NumberedRuns'
  <2>1. Last(t) \in Nat
      BY DEF TypeOK, Last
  <2> QED BY <1>2, <2>1 DEF Claim, NumberedRuns
<1>3. ASSUME NEW t \in Tasks, QueueStep(t), \A p \in up : ~Claim(t, p)
      PROVE  runners' = runners
    BY <1>3 DEF QueueStep, Enqueue, CancelQueued, CancelSubtree, Retry, WakeInstance,
                LeaseExpires, DeadlinePasses, Transfer, CancelTask
<1>4. ASSUME NEW r \in runners, RunStep(r[1], r[2]) PROVE runners' \subseteq runners
    BY <1>4 DEF RunStep, Renew, LoseOutcome, RegisterWait, Finish
<1>5. ASSUME NEW p \in Incarnations, RecoveryStep(p) \/ Crash(p)
      PROVE  runners' \subseteq runners
    BY <1>5 DEF RecoveryStep, FindAbandoned, RecoverSuspend, RecoverChatRun,
                RecoverInterrupt, RecoverPause, Crash
<1>6. /\ ResumeSatisfied \/ RecoverInterruptedWaits => runners' = runners
      /\ \A s : ControlTeam(s) => runners' = runners
      /\ \A i, s : ControlInstance(i, s) => runners' = runners
    BY DEF ResumeSatisfied, RecoverInterruptedWaits, ControlTeam, ControlInstance
<1> QED BY <1>1, <1>2, <1>3, <1>4, <1>5, <1>6 DEF Next, Step, vars

-----------------------------------------------------------------------------
(* Theorems                                                                 *)

(* IInv holds in every reachable state of the queue. *)
THEOREM IInvHolds == Spec => []IInv
<1>1. Init => IInv
  <2> SUFFICES ASSUME Init PROVE IInv
      OBVIOUS
  <2>1. TypeOK
      BY TasksAssumption, WorkloadsAssumption, EmptySeq DEF Init, TypeOK
  <2>2. \A t \in Tasks : Matches(t)
      BY DEF Init, Matches, InState
  <2>3. RunningTasks = {}
      BY DEF Init, RunningTasks
  <2>4. TeamCapacity
    <3>1. load.runs \in Nat
        BY <2>1, WorkloadsAssumption DEF TypeOK
    <3>2. Cardinality(RunningTasks) = 0
        BY <2>3, FS_EmptySet
    <3> QED BY <3>1, <3>2 DEF TeamCapacity, RunningTasks
  <2> QED BY <2>1, <2>2, <2>4 DEF IInv, AttemptsMatch, NumberedRuns, Init
<1>2. IInv /\ [Next]_vars => IInv'
    BY MatchStep, CapacityStep, RunsStep DEF IInv, AttemptsMatch
<1> QED BY <1>1, <1>2, PTL DEF Spec

(* The tables of tasks and of attempts agree after every transaction: a     *)
(* running task has exactly one running attempt, its last.                  *)
THEOREM AttemptsMatched == Spec => []AttemptsMatch
<1>1. IInv => AttemptsMatch
    BY DEF IInv
<1> QED BY <1>1, IInvHolds, PTL

(* Never more running tasks than max_concurrent_runs. *)
THEOREM CapacityKept == Spec => []TeamCapacity
<1>1. IInv => TeamCapacity
    BY DEF IInv
<1> QED BY <1>1, IInvHolds, PTL

(* No task is created below a cancelled root, at any depth. *)
THEOREM SealedSubtrees == Spec => SubtreeSealed
<1> DEFINE Keeps == \A r \in sealed : \A t \in Tasks :
                       r \in Ancestors[t] /\ status[t] = "none" => status'[t] = "none"
<1>1. ASSUME TypeOK, [Next]_vars PROVE Keeps
  <2> SUFFICES ASSUME NEW r \in sealed, NEW t \in Tasks, r \in Ancestors[t],
                      status[t] = "none", status'[t] # "none"
               PROVE  FALSE
      OBVIOUS
  <2>1. Next
      BY <1>1 DEF vars, taskVars
  <2>2. Enqueue(t)
      BY <1>1, <2>1, StatusMoves DEF Claim, Runnable
  <2>3. ParentOf(t) = NoTask
      BY <2>2 DEF Enqueue, AncestorSealed
  <2>4. ClosedUpwards({}) /\ ParentOf(t) \in {} \cup {NoTask}
      BY <2>3 DEF ClosedUpwards
  <2>5. r \in {}
      BY <2>4 DEF Ancestors
  <2> QED BY <2>5
<1>2. IInv /\ [Next]_vars => [Keeps]_vars
    BY <1>1 DEF IInv, AttemptsMatch
<1> QED BY <1>2, IInvHolds, PTL DEF Spec, SubtreeSealed

(* A run whose attempt was closed cannot change its task any more. *)
THEOREM RunsFenced == Spec => FencedRuns
<1> DEFINE Keeps == \A r \in runners \ runners' :
                       attempts[r[1]][r[2]].status # "running" => status'[r[1]] = status[r[1]]
<1>1. ASSUME IInv, Next PROVE Keeps
  <2> SUFFICES ASSUME NEW r \in runners \ runners', attempts[r[1]][r[2]].status # "running"
               PROVE  status'[r[1]] = status[r[1]]
      OBVIOUS
  <2> USE DEF rowVars, taskVars, procVars
  <2>0. TypeOK /\ r[1] \in Tasks /\ r[2] \in Nat /\ r = <<r[1], r[2]>> /\ r[2] # 0
      BY <1>1 DEF IInv, AttemptsMatch, NumberedRuns, TypeOK, Runs
  <2>1. ASSUME NEW x \in runners, RunStep(x[1], x[2]) PROVE status'[r[1]] = status[r[1]]
    <3>1. CASE status' = status
        BY <3>1
    <3>2. CASE \E target \in {"completed", "failed", "cancelled", "waiting"} :
                  Finish(x[1], x[2], target)
      <4>1. x = <<x[1], x[2]>> /\ runners' = runners \ {<<x[1], x[2]>>}
          BY <2>0, <3>2 DEF Finish, TypeOK, Runs
      <4>2. x = r
          BY <4>1
      <4>3. ~(status[r[1]] = "running" /\ CanClose(r[1], r[2]))
        <5> SUFFICES ASSUME status[r[1]] = "running", CanClose(r[1], r[2]) PROVE FALSE
            OBVIOUS
        <5>1. PICK j \in Addressed(r[1], r[2]) : TRUE
            BY AddressedActive
        <5> QED BY <2>0, <5>1 DEF Addressed, InState, ActiveState
      <4> QED BY <3>2, <4>2, <4>3 DEF Finish
    <3> QED BY <2>1, <3>1, <3>2 DEF RunStep, Renew, LoseOutcome, RegisterWait
  <2>2. ASSUME NEW p \in Incarnations, Crash(p) PROVE status'[r[1]] = status[r[1]]
      BY <2>2 DEF Crash
  <2>3. ASSUME NEW p \in Incarnations, RecoveryStep(p) PROVE FALSE
      BY <2>3 DEF RecoveryStep, FindAbandoned, RecoverSuspend, RecoverChatRun,
                  RecoverInterrupt, RecoverPause
  <2>4. ASSUME NEW t \in Tasks, QueueStep(t) PROVE FALSE
      BY <2>4 DEF QueueStep, Enqueue, CancelQueued, CancelSubtree, Retry, WakeInstance,
                  LeaseExpires, DeadlinePasses, Transfer, CancelTask, Claim
  <2>5. /\ ResumeSatisfied \/ RecoverInterruptedWaits => runners' = runners
        /\ \A s : ControlTeam(s) => runners' = runners
        /\ \A i, s : ControlInstance(i, s) => runners' = runners
      BY DEF ResumeSatisfied, RecoverInterruptedWaits, ControlTeam, ControlInstance
  <2> QED BY <1>1, <2>1, <2>2, <2>3, <2>4, <2>5 DEF Next, Step
<1>2. IInv /\ [Next]_vars => [Keeps]_vars
    BY <1>1
<1> QED BY <1>2, IInvHolds, PTL DEF Spec, FencedRuns

(* A lease that was renewed between the two transactions of a recovery      *)
(* protects its attempt.                                                    *)
THEOREM RenewalProtects == Spec => RenewedNotInterrupted
<1> DEFINE Keeps == \A p \in Incarnations :
                       rec[p] # IdleRec /\ rec[p].renewed /\ rec[p].step = "closing"
                          /\ rec'[p] # rec[p] => attempts' = attempts
<1>1. ASSUME TypeOK, Next PROVE Keeps
  <2> SUFFICES ASSUME NEW p \in Incarnations, rec[p] # IdleRec, rec[p].renewed,
                      rec[p].step = "closing", rec'[p] # rec[p]
               PROVE  attempts' = attempts
      OBVIOUS
  <2> USE DEF rowVars, taskVars, procVars
  <2>1. ASSUME NEW q \in Incarnations, RecoveryStep(q) \/ Crash(q)
        PROVE  attempts' = attempts
    <3>1. ASSUME q # p PROVE rec'[p] = rec[p]
        BY <1>1, <2>1, <3>1 DEF RecoveryStep, FindAbandoned, RecoverSuspend, RecoverChatRun,
           RecoverInterrupt, RecoverPause, Crash, TypeOK
    <3>2. q = p
        BY <3>1
    <3>3. ~StillAbandoned(p) /\ rec[p].step = "closing"
        BY DEF StillAbandoned
    <3> QED BY <2>1, <3>2, <3>3 DEF RecoveryStep, FindAbandoned, RecoverSuspend,
               RecoverChatRun, RecoverInterrupt, RecoverPause, Crash
  <2>2. ASSUME NEW r \in runners, RunStep(r[1], r[2]) PROVE attempts' = attempts
      BY <2>2 DEF RunStep, Renew, LoseOutcome, RegisterWait, Finish
  <2>3. ASSUME NEW t \in Tasks, QueueStep(t) PROVE FALSE
      BY <2>3 DEF QueueStep, Enqueue, CancelQueued, CancelSubtree, Retry, WakeInstance,
                  LeaseExpires, DeadlinePasses, Transfer, CancelTask, Claim
  <2>4. /\ ResumeSatisfied \/ RecoverInterruptedWaits => rec' = rec
        /\ \A s : ControlTeam(s) => rec' = rec
        /\ \A i, s : ControlInstance(i, s) => rec' = rec
      BY DEF ResumeSatisfied, RecoverInterruptedWaits, ControlTeam, ControlInstance
  <2> QED BY <1>1, <2>1, <2>2, <2>3, <2>4 DEF Next, Step
<1>2. IInv /\ [Next]_vars => [Keeps]_vars
    BY <1>1 DEF IInv, AttemptsMatch
<1> QED BY <1>2, IInvHolds, PTL DEF Spec, RenewedNotInterrupted
=============================================================================
