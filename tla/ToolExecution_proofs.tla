------------------------ MODULE ToolExecution_proofs ------------------------
(***************************************************************************)
(* Safety of the tool lock registry for every set of runs, every set of    *)
(* batches, every path normalisation and everything hooks may do to calls. *)
(*                                                                         *)
(* The four properties are proved together: that clashing leases exclude   *)
(* each other is inductive by itself; the others need to know that a call  *)
(* does not change between its lock request and its return (only Begin     *)
(* rewrites it), and that a worker in good standing belongs to a running   *)
(* call (WorkersHaveLease).                                                *)
(*                                                                         *)
(* The order of a batch is a matter of its plan: an accepted batch is laid *)
(* out so that a call comes in a later group than the earlier calls whose  *)
(* files it conflicts with (GroupsLaid), and the groups run one by one.    *)
(***************************************************************************)
EXTENDS ToolExecution, Iteration, SequenceTheorems, TLAPS

(* The part of TypeOK that the argument needs. *)
Typed ==
    /\ pc \in [Calls -> PCs]
    /\ signalled \in [Calls -> BOOLEAN]
    /\ worker \in [Calls -> Workers]
    /\ \A a \in active : a = <<a[1], a[2]>> /\ a[1] \in Calls

(* The locks in the registry are those of the running calls, all of them. *)
Registry == \A c \in Calls : \A l : <<c, l>> \in active <=> pc[c] = "running" /\ l \in Locks(c)

WorkersHaveLease == \A c \in Calls : worker[c] = "working" => pc[c] = "running"

IInv == Typed /\ LeasesExclude /\ Registry /\ WorkersHaveLease /\ NoLostWakeup

-----------------------------------------------------------------------------
(* resources_overlap and accesses_conflict do not depend on who comes first. *)
LEMMA ClashSymmetric ==
    ASSUME NEW c, NEW l, NEW d, NEW m, Clash(c, l, <<d, m>>)
    PROVE  Clash(d, m, <<c, l>>)
  BY DEF Clash, tool_locks_share_scope, tool_resource_locks_conflict, resources_overlap,
     accesses_conflict

(* The locks of a call depend on nothing but the call. *)
LEMMA LocksOfSameCall ==
    ASSUME NEW c, call'[c] = call[c]
    PROVE  Locks(c)' = Locks(c)
  BY DEF Locks

-----------------------------------------------------------------------------
(* Acquire keeps the leases exclusive: its guard compares the new locks with
   every lock in the registry. *)
LEMMA AcquireStep ==
    ASSUME IInv, NEW c \in Calls, Acquire(c)
    PROVE  IInv'
<1> USE DEF IInv, Typed
<1>1. /\ active' = active \cup {<<c, l>> : l \in Locks(c)}
      /\ \A l \in Locks(c), a \in active : ~Clash(c, l, a)
      /\ pc[c] = "trying" /\ pc' = [pc EXCEPT ![c] = "running"]
      /\ worker' \in {worker, [worker EXCEPT ![c] = "working"]}
      /\ UNCHANGED <<call, signalled>>
    BY DEF Acquire, tool_locks_conflict_with_active
<1>2. \A d \in Calls : Locks(d)' = Locks(d)
    BY <1>1, LocksOfSameCall
<1>3. Typed'
    BY <1>1 DEF PCs, Workers
<1>4. LeasesExclude'
  <2> SUFFICES ASSUME NEW a \in active', NEW b \in active', a[1] # b[1], Clash(a[1], a[2], b)
               PROVE  FALSE
      BY DEF LeasesExclude, Clash, tool_locks_share_scope
  <2>1. b = <<b[1], b[2]>> /\ a = <<a[1], a[2]>>
      BY <1>3
  <2>2. Clash(b[1], b[2], a)
      BY <2>1, ClashSymmetric
  <2>3. CASE a \in active /\ b \in active
      BY <2>3 DEF LeasesExclude
  <2>4. CASE a \notin active
    <3>1. a[1] = c /\ a[2] \in Locks(c)
        BY <1>1, <2>4
    <3>2. b \in active
        BY <1>1, <3>1
    <3> QED BY <1>1, <3>1, <3>2
  <2>5. CASE b \notin active
    <3>1. b[1] = c /\ b[2] \in Locks(c)
        BY <1>1, <2>5
    <3>2. a \in active
        BY <1>1, <3>1
    <3> QED BY <1>1, <2>2, <3>1, <3>2
  <2> QED BY <2>3, <2>4, <2>5
<1>5. Registry'
  <2>1. ASSUME NEW d \in Calls, NEW l
        PROVE  <<d, l>> \in active' <=> pc'[d] = "running" /\ l \in Locks(d)
    <3>1. CASE d = c
        BY <1>1, <3>1 DEF Registry
    <3>2. CASE d # c
        BY <1>1, <3>2 DEF Registry
    <3> QED BY <3>1, <3>2
  <2> QED BY <1>2, <2>1 DEF Registry
<1>6. WorkersHaveLease'
    BY <1>1 DEF WorkersHaveLease
<1>7. NoLostWakeup'
  <2> SUFFICES ASSUME NEW d \in Calls, pc'[d] = "waiting", ~tool_locks_conflict_with_active(d)',
                      ~signalled'[d]
               PROVE  \E e \in Calls : pc'[e] = "notifying"
      BY DEF NoLostWakeup
  <2>1. d # c /\ pc[d] = "waiting" /\ ~signalled[d]
      BY <1>1
  <2>2. ~tool_locks_conflict_with_active(d)
      BY <1>1, <1>2 DEF tool_locks_conflict_with_active, Clash, tool_locks_share_scope
  <2>3. PICK e \in Calls : pc[e] = "notifying"
      BY <2>1, <2>2 DEF NoLostWakeup
  <2> QED BY <1>1, <2>3
<1> QED BY <1>3, <1>4, <1>5, <1>6, <1>7

(* A dropped lease: the locks of c leave the registry and, if there were any,
   c is about to notify. *)
LEMMA DropStep ==
    ASSUME IInv, NEW c \in Calls, pc[c] = "running", Drop(c),
           worker' \in [Calls -> Workers], worker'[c] # "working",
           \A d \in Calls \ {c} : worker'[d] = worker[d],
           UNCHANGED <<call, signalled>>
    PROVE  IInv'
<1> USE DEF IInv, Typed
<1>1. /\ active' = {a \in active : a[1] # c}
      /\ \A d \in Calls \ {c} : pc'[d] = pc[d]
      /\ pc'[c] = IF active' = active THEN "done" ELSE "notifying"
      /\ pc' \in [Calls -> PCs]
    BY DEF Drop, PCs
<1>2. \A d \in Calls : Locks(d)' = Locks(d)
    BY LocksOfSameCall
<1>3. Typed'
    BY <1>1
<1>4. LeasesExclude'
    BY <1>1 DEF LeasesExclude, Clash, tool_locks_share_scope
<1>5. Registry'
  <2>1. ASSUME NEW d \in Calls, NEW l
        PROVE  <<d, l>> \in active' <=> pc'[d] = "running" /\ l \in Locks(d)
    <3>1. CASE d = c
        BY <1>1, <3>1
    <3>2. CASE d # c
        BY <1>1, <3>2 DEF Registry
    <3> QED BY <3>1, <3>2
  <2> QED BY <1>2, <2>1 DEF Registry
<1>6. WorkersHaveLease'
    BY <1>1 DEF WorkersHaveLease
<1>7. NoLostWakeup'
  <2> SUFFICES ASSUME NEW d \in Calls, pc'[d] = "waiting", ~tool_locks_conflict_with_active(d)',
                      ~signalled'[d]
               PROVE  \E e \in Calls : pc'[e] = "notifying"
      BY DEF NoLostWakeup
  <2>1. CASE active' = active
    <3>1. d # c /\ pc[d] = "waiting" /\ ~signalled[d]
        BY <1>1
    <3>2. ~tool_locks_conflict_with_active(d)
        BY <1>2, <2>1 DEF tool_locks_conflict_with_active, Clash, tool_locks_share_scope
    <3>3. PICK e \in Calls : pc[e] = "notifying"
        BY <3>1, <3>2 DEF NoLostWakeup
    <3> QED BY <1>1, <3>3
  <2>2. CASE active' # active
      BY <1>1, <2>2
  <2> QED BY <2>1, <2>2
<1> QED BY <1>3, <1>4, <1>5, <1>6, <1>7

(* A step that leaves the registry alone and moves one call c between program
   points other than "running": no invariant but the wakeup one looks at it. *)
LEMMA QuietStep ==
    ASSUME IInv, NEW c \in Calls, active' = active,
           worker' \in [Calls -> Workers],
           \A d \in Calls : worker'[d] = "working" => worker[d] = "working",
           pc' \in [Calls -> PCs], signalled' \in [Calls -> BOOLEAN],
           \A d \in Calls \ {c} : pc'[d] = pc[d] /\ call'[d] = call[d],
           \/ pc'[c] = pc[c] /\ call'[c] = call[c]
           \/ pc[c] # "running" /\ pc'[c] # "running",
           NoLostWakeup'
    PROVE  IInv'
<1> USE DEF IInv, Typed
<1>1. Typed'
    OBVIOUS
<1>2. LeasesExclude'
    BY DEF LeasesExclude, Clash, tool_locks_share_scope
<1>3. Registry'
  <2>1. ASSUME NEW d \in Calls, NEW l
        PROVE  <<d, l>> \in active' <=> pc'[d] = "running" /\ l \in Locks(d)'
    <3>1. CASE pc[d] # "running" /\ pc'[d] # "running"
        BY <3>1 DEF Registry
    <3>2. CASE pc'[d] = pc[d] /\ call'[d] = call[d]
      <4>1. Locks(d)' = Locks(d)
          BY <3>2, LocksOfSameCall
      <4> QED BY <3>2, <4>1 DEF Registry
    <3> QED BY <3>1, <3>2
  <2> QED BY <2>1 DEF Registry
<1>4. WorkersHaveLease'
    BY DEF WorkersHaveLease
<1> QED BY <1>1, <1>2, <1>3, <1>4

(* When no call starts to wait, loses its signal or finishes to notify, no
   wakeup is lost. *)
LEMMA WakeupFrame ==
    ASSUME IInv, active' = active,
           \A d \in Calls : pc'[d] = "waiting" =>
               pc[d] = "waiting" /\ call'[d] = call[d] /\ (signalled[d] => signalled'[d]),
           \A d \in Calls : pc[d] = "notifying" => pc'[d] = "notifying"
    PROVE  NoLostWakeup'
<1> SUFFICES ASSUME NEW d \in Calls, pc'[d] = "waiting", ~tool_locks_conflict_with_active(d)',
                    ~signalled'[d]
             PROVE  \E e \in Calls : pc'[e] = "notifying"
    BY DEF NoLostWakeup
<1>1. pc[d] = "waiting" /\ call'[d] = call[d] /\ ~signalled[d]
    OBVIOUS
<1>2. Locks(d)' = Locks(d)
    BY <1>1, LocksOfSameCall
<1>3. ~tool_locks_conflict_with_active(d)
    BY <1>2 DEF tool_locks_conflict_with_active, Clash, tool_locks_share_scope
<1>4. PICK e \in Calls : pc[e] = "notifying"
    BY <1>1, <1>3 DEF IInv, NoLostWakeup
<1> QED BY <1>4

(* Every step preserves the invariant. *)
LEMMA IInvStep == IInv /\ [Next]_vars => IInv'
<1> SUFFICES ASSUME IInv, [Next]_vars PROVE IInv'
    OBVIOUS
<1> USE DEF PCs, Workers
<1>0. Typed
    BY DEF IInv
<1>1. CASE UNCHANGED <<pc, call, active, signalled, worker>>
  <2>1. \A c \in Calls : Locks(c)' = Locks(c)
      BY <1>1, LocksOfSameCall
  <2>2. Typed' /\ WorkersHaveLease'
      BY <1>1 DEF IInv, Typed, WorkersHaveLease
  <2>3. LeasesExclude'
      BY <1>1 DEF IInv, LeasesExclude, Clash, tool_locks_share_scope
  <2>4. Registry'
      BY <1>1, <2>1 DEF IInv, Registry
  <2>5. NoLostWakeup'
      BY <1>1, WakeupFrame
  <2> QED BY <2>2, <2>3, <2>4, <2>5 DEF IInv
<1>2. ASSUME NEW c \in Calls, NEW new, Begin(c, new) PROVE IInv'
  <2>1. NoLostWakeup'
      BY <1>0, <1>2, WakeupFrame DEF Begin, Typed
  <2> QED BY <1>0, <1>2, <2>1, QuietStep DEF Begin, Typed
<1>3. ASSUME NEW c \in Calls, Skip(c) PROVE IInv'
  <2>1. NoLostWakeup'
      BY <1>0, <1>3, WakeupFrame DEF Skip, Typed
  <2> QED BY <1>0, <1>3, <2>1, QuietStep DEF Skip, Typed
<1>4. ASSUME NEW c \in Calls, Acquire(c) PROVE IInv'
    BY <1>4, AcquireStep
<1>5. ASSUME NEW c \in Calls, Block(c) PROVE IInv'
  <2>1. NoLostWakeup'
    <3> SUFFICES ASSUME NEW d \in Calls, pc'[d] = "waiting",
                        ~tool_locks_conflict_with_active(d)', ~signalled'[d]
                 PROVE  \E e \in Calls : pc'[e] = "notifying"
        BY DEF NoLostWakeup
    <3>1. ~tool_locks_conflict_with_active(d)
        BY <1>5 DEF Block, tool_locks_conflict_with_active, Clash, tool_locks_share_scope, Locks
    <3>2. d # c /\ pc[d] = "waiting" /\ ~signalled[d]
        BY <1>0, <1>5, <3>1 DEF Block, Typed
    <3>3. PICK e \in Calls : pc[e] = "notifying"
        BY <3>1, <3>2 DEF IInv, NoLostWakeup
    <3> QED BY <1>0, <1>5, <3>3 DEF Block, Typed
  <2> QED BY <1>0, <1>5, <2>1, QuietStep DEF Block, Typed
<1>6. ASSUME NEW c \in Calls, Retry(c) PROVE IInv'
  <2>1. NoLostWakeup'
      BY <1>0, <1>6, WakeupFrame DEF Retry, Typed
  <2> QED BY <1>0, <1>6, <2>1, QuietStep DEF Retry, Typed
<1>7. ASSUME NEW c \in Calls, StopWaiting(c) PROVE IInv'
  <2>1. NoLostWakeup'
      BY <1>0, <1>7, WakeupFrame DEF StopWaiting, Typed
  <2> QED BY <1>0, <1>7, <2>1, QuietStep DEF StopWaiting, Typed
<1>8. ASSUME NEW c \in Calls, Finish(c) PROVE IInv'
    BY <1>0, <1>8, DropStep DEF Finish, Typed
<1>9. ASSUME NEW c \in Calls, Detach(c) PROVE IInv'
    BY <1>0, <1>9, DropStep DEF Detach, Typed
<1>10. ASSUME NEW c \in Calls, DetachedEnds(c) PROVE IInv'
  <2>1. NoLostWakeup'
      BY <1>0, <1>10, WakeupFrame DEF DetachedEnds, Typed
  <2> QED BY <1>0, <1>10, <2>1, QuietStep DEF DetachedEnds, Typed
<1>11. ASSUME NEW c \in Calls, Notify(c) PROVE IInv'
  <2>1. \A d \in Calls : pc'[d] = "waiting" => signalled'[d]
      BY <1>0, <1>11 DEF Notify, Typed
  <2>2. NoLostWakeup'
      BY <2>1 DEF NoLostWakeup
  <2> QED BY <1>0, <1>11, <2>2, QuietStep DEF Notify, Typed
<1> QED
    BY <1>1, <1>2, <1>3, <1>4, <1>5, <1>6, <1>7, <1>8, <1>9, <1>10, <1>11
    DEF Next, CallStep, NextGroup, Cancel, vars

(* The registry starts empty. *)
LEMMA InitIInv == Init => IInv
  BY DEF Init, IInv, Typed, LeasesExclude, Registry, WorkersHaveLease, NoLostWakeup, PCs, Workers

(* The inductive invariant holds throughout. *)
THEOREM IInvHolds == Spec => []IInv
  BY InitIInv, IInvStep, PTL DEF Spec

(* Clashing leases exclude each other (acquire_with_owner, Drop for
   ToolResourceLease), however the calls were planned or rewritten. *)
THEOREM LeaseExclusion == Spec => []LeasesExclude
  BY IInvHolds, PTL DEF IInv

(* notified() under the mutex and notify_waiters after it lose no wakeup. *)
THEOREM WakeupsReach == Spec => []NoLostWakeup
  BY IInvHolds, PTL DEF IInv

(* Locks are taken all at once and given back all at once. *)
LEMMA AllOrNothingFromIInv == IInv => AllOrNothing
<1> SUFFICES ASSUME IInv, NEW c \in Calls
             PROVE  {a[2] : a \in {b \in active : b[1] = c}}
                       = IF pc[c] = "running" THEN Locks(c) ELSE {}
    BY DEF AllOrNothing
<1>1. \A a \in active : a = <<a[1], a[2]>>
    BY DEF IInv, Typed
<1>2. \A l : (\E a \in active : a[1] = c /\ a[2] = l) <=> <<c, l>> \in active
    BY <1>1
<1> QED BY <1>2 DEF IInv, Registry

(* A call holds all its locks or none, so no call waits while it holds. *)
THEOREM AtomicAcquisition == Spec => []AllOrNothing
  BY IInvHolds, AllOrNothingFromIInv, PTL

(* A worker in good standing works under its lease. *)
LEMMA WorkersFromIInv == IInv => WorkersExclude
<1> SUFFICES ASSUME IInv, NEW c \in Calls, NEW d \in Calls, c # d,
                    worker[c] = "working", worker[d] = "working",
                    NEW l \in Locks(c), NEW m \in Locks(d)
             PROVE  ~Clash(c, l, <<d, m>>)
    BY DEF WorkersExclude
<1>1. <<c, l>> \in active /\ <<d, m>> \in active
    BY DEF IInv, Registry, WorkersHaveLease
<1> QED BY <1>1 DEF IInv, LeasesExclude

(* Workers with clashing locks never overlap unless one was left behind. *)
THEOREM WorkerExclusion == Spec => []WorkersExclude
  BY IInvHolds, WorkersFromIInv, PTL

-----------------------------------------------------------------------------
(* The plan of a batch                                                      *)

(* Of the calls that take a lock on all files of the workspace, only a      *)
(* patch that does not parse writes; it runs alone.                         *)
LEMMA WholeWorkspaceLocks ==
    ASSUME NEW c, NEW m \in NamedLocks(c), m.resource.type = "WorkspaceFiles"
    PROVE  m.access = "Read" \/ (c.tool = "apply_patch" /\ c.args = {})
<1>1. CASE c.tool = "read_file"
    BY <1>1 DEF NamedLocks, Lock, Res
<1>2. CASE c.tool = "write_file"
    BY <1>2 DEF NamedLocks, Lock, Res
<1>3. CASE c.tool = "edit_file"
    BY <1>3 DEF NamedLocks, Lock, Res
<1>4. CASE c.tool = "memory_search"
    BY <1>4 DEF NamedLocks, Lock, Res
<1>5. CASE c.tool = "memory_write"
    BY <1>5 DEF NamedLocks, Lock, Res
<1>6. CASE c.tool = "web_fetch"
    BY <1>6 DEF NamedLocks, Lock, Res
<1>7. CASE c.tool = "get_command_output"
    BY <1>7 DEF NamedLocks, Lock, Res
<1>8. CASE c.tool = "stop_command"
    BY <1>8 DEF NamedLocks, Lock, Res
<1>9. CASE c.tool = "mcp"
    BY <1>9 DEF NamedLocks, Lock, Res
<1>10. CASE c.tool = "apply_patch"
  <2> SUFFICES ASSUME c.args # {} PROVE FALSE
      BY <1>10
  <2>1. PICK p \in c.args : m = Lock(Res("File", PathKey(p)), "Write")
      BY <1>10, Zenon DEF NamedLocks
  <2> QED BY <2>1 DEF Lock, Res
<1>11. CASE c.tool = "get_plans"
  <2>1. \E k : m = Lock(Res("Plan", k), "Read")
      BY <1>11, Zenon DEF NamedLocks
  <2>2. m.resource.type = "Plan" /\ m.access = "Read"
      BY <2>1 DEF Lock, Res
  <2> QED BY <2>2
<1>12. CASE c.tool = "update_plan"
  <2>1. \E k : m = Lock(Res("Plan", k), "Write")
      BY <1>12, Zenon DEF NamedLocks
  <2>2. m.resource.type = "Plan" /\ m.access = "Write"
      BY <2>1 DEF Lock, Res
  <2> QED BY <2>2
<1>13. CASE c.tool = "read_spec"
  <2>1. \E k : m = Lock(Res("ProjectSpec", k), "Read")
      BY <1>13, Zenon DEF NamedLocks
  <2>2. m.resource.type = "ProjectSpec" /\ m.access = "Read"
      BY <2>1 DEF Lock, Res
  <2> QED BY <2>2
<1>14. CASE c.tool = "update_spec"
  <2>1. \E k : m = Lock(Res("ProjectSpec", k), "Write")
      BY <1>14, Zenon DEF NamedLocks
  <2>2. m.resource.type = "ProjectSpec" /\ m.access = "Write"
      BY <2>1 DEF Lock, Res
  <2> QED BY <2>2
<1>15. CASE c.tool = "search_text"
  <2>1. \E k : m = Lock(k, "Read")
      BY <1>15, Zenon DEF NamedLocks
  <2>2. m.access = "Read"
      BY <2>1 DEF Lock, Res
  <2> QED BY <2>2
<1>16. CASE c.tool \notin {"read_file", "write_file", "edit_file", "memory_search", "memory_write",
                           "web_fetch", "get_command_output", "stop_command", "mcp", "apply_patch",
                           "get_plans", "update_plan", "read_spec", "update_spec", "search_text"}
    BY <1>16 DEF NamedLocks
<1> QED BY <1>1, <1>2, <1>3, <1>4, <1>5, <1>6, <1>7, <1>8, <1>9,
           <1>10, <1>11, <1>12, <1>13, <1>14, <1>15, <1>16

(* An accepted batch: calls that may run in parallel and touch a file in a  *)
(* conflicting way are orderable.                                           *)
FileConflict(c, d) ==
    \E l \in FileLocks(c), m \in FileLocks(d) : tool_resource_locks_conflict(l, m)

LEMMA FileLocksNamed ==
    ASSUME NEW c, NEW l \in FileLocks(c)
    PROVE  l \in PlannedLocks(c) /\ l \in NamedLocks(c) /\ IsWorkspaceFile(l) /\ l # MutationLease
<1>1. l \in tool_resource_locks(c) /\ l \in PlannedLocks(c) /\ IsWorkspaceFile(l)
    BY DEF FileLocks, PlannedLocks
<1>2. ~IsWorkspaceFile(MutationLease)
  <2>1. \E k : MutationLease.resource = Res("WorkspaceMutationLease", k)
      BY Zenon DEF MutationLease, Lock
  <2> QED BY <2>1 DEF IsWorkspaceFile, Res
<1> QED BY <1>1, <1>2 DEF tool_resource_locks

LEMMA ConflictsOrderable ==
    ASSUME NEW c, NEW d, ~Sequential(c), ~Sequential(d), ~RejectsPair(c, d), FileConflict(c, d)
    PROVE  OrderableCalls(c, d)
<1>1. PICK l \in FileLocks(c), m \in FileLocks(d) : tool_resource_locks_conflict(l, m)
    BY DEF FileConflict
<1>2. l \in PlannedLocks(c) /\ l \in NamedLocks(c) /\ IsWorkspaceFile(l) /\ l # MutationLease
    BY FileLocksNamed
<1>3. m \in PlannedLocks(d) /\ m \in NamedLocks(d) /\ IsWorkspaceFile(m)
    BY FileLocksNamed
<1>4. Tolerated(l, c, m, d)
    BY <1>1, <1>2, <1>3 DEF RejectsPair
<1>5. CASE l.access = "Write" /\ m.access = "Write" /\ l.resource.type = "File"
  <2>1. ContextualEdit(c) /\ ContextualEdit(d)
      BY <1>2, <1>4, <1>5 DEF Tolerated
  <2>2. m.resource.type # "WorkspaceFiles"
      BY <1>3, <1>5, WholeWorkspaceLocks DEF Sequential
  <2>3. Orderable(l, c, m, d)
      BY <1>1, <1>2, <1>3, <1>5, <2>1, <2>2 DEF Orderable, IsWorkspaceFile
  <2> QED BY <1>2, <1>3, <2>3 DEF OrderableCalls
<1>6. CASE ~(l.access = "Write" /\ m.access = "Write" /\ l.resource.type = "File")
    BY <1>2, <1>3, <1>4, <1>6 DEF Tolerated, OrderableCalls
<1> QED BY <1>5, <1>6

Grouped(groups) == UNION {groups[h] : h \in DOMAIN groups}

\* Every call is placed after the earlier ones it conflicts with.
Behind(b, S, j) == \A i \in 1 .. j - 1 : FileConflict(b[i], b[j]) => i \in S

Ordered(b, groups) ==
    \A k \in DOMAIN groups : \A j \in groups[k] :
        \A i \in 1 .. j - 1 : FileConflict(b[i], b[j]) =>
            \E h \in 1 .. k - 1 : i \in groups[h]

GroupSets(n) == (SUBSET (1 .. n)) \ {{}}
Placements(n) == [groups : Seq(GroupSets(n)), pending : SUBSET (1 .. n)]

(* The state of the grouping loop after n calls. *)
Laid(b, n, st) ==
    /\ st \in Placements(Len(b))
    /\ st.pending \subseteq 1 .. n
    /\ 1 .. n \subseteq Grouped(st.groups) \cup st.pending
    /\ Ordered(b, st.groups)
    /\ \A j \in st.pending : ~Sequential(b[j]) /\ Behind(b, Grouped(st.groups), j)

LEMMA AppendGroup ==
    ASSUME NEW b, NEW n \in Nat, NEW groups \in Seq(GroupSets(n)), NEW g \in GroupSets(n),
           Ordered(b, groups), \A j \in g : Behind(b, Grouped(groups), j)
    PROVE  /\ Append(groups, g) \in Seq(GroupSets(n))
           /\ Grouped(Append(groups, g)) = Grouped(groups) \cup g
           /\ Ordered(b, Append(groups, g))
<1> DEFINE new == Append(groups, g)
<1>1. /\ new \in Seq(GroupSets(n)) /\ Len(new) = Len(groups) + 1 /\ Len(groups) \in Nat
      /\ \A i \in 1 .. Len(groups) : new[i] = groups[i]
      /\ new[Len(groups) + 1] = g
      /\ DOMAIN groups = 1 .. Len(groups) /\ DOMAIN new = 1 .. Len(groups) + 1
    BY AppendProperties
<1> HIDE DEF new
<1>2. Grouped(new) = Grouped(groups) \cup g
  <2>1. \A h \in DOMAIN new : h \in DOMAIN groups \/ h = Len(groups) + 1
      BY <1>1
  <2>2. DOMAIN groups \subseteq DOMAIN new /\ Len(groups) + 1 \in DOMAIN new
      BY <1>1
  <2> QED BY <1>1, <2>1, <2>2 DEF Grouped
<1>3. ASSUME NEW k \in DOMAIN new, NEW j \in new[k], NEW i \in 1 .. j - 1, FileConflict(b[i], b[j])
      PROVE  \E h \in 1 .. k - 1 : i \in new[h]
  <2>1. CASE k \in DOMAIN groups
    <3>1. PICK h \in 1 .. k - 1 : i \in groups[h]
        BY <1>1, <1>3, <2>1 DEF Ordered
    <3> QED BY <1>1, <2>1, <3>1
  <2>2. CASE k = Len(groups) + 1
    <3>1. i \in Grouped(groups)
        BY <1>1, <1>3, <2>2 DEF Behind
    <3> QED BY <1>1, <2>2, <3>1 DEF Grouped
  <2> QED BY <1>1, <2>1, <2>2
<1>4. Ordered(b, new)
    BY <1>3 DEF Ordered
<1> QED BY <1>1, <1>2, <1>4 DEF new

LEMMA FlushGroups ==
    ASSUME NEW b, NEW n, NEW st, Len(b) \in Nat, Laid(b, n, st)
    PROVE  /\ Flush(st.groups, st.pending) \in Seq(GroupSets(Len(b)))
           /\ Grouped(Flush(st.groups, st.pending)) = Grouped(st.groups) \cup st.pending
           /\ Ordered(b, Flush(st.groups, st.pending))
<1>1. st.groups \in Seq(GroupSets(Len(b))) /\ st.pending \in SUBSET (1 .. Len(b))
    BY DEF Laid, Placements
<1>2. CASE st.pending = {}
    BY <1>1, <1>2 DEF Flush, Laid
<1>3. CASE st.pending # {}
  <2>1. st.pending \in GroupSets(Len(b))
      BY <1>1, <1>3 DEF GroupSets
  <2>2. Flush(st.groups, st.pending) = Append(st.groups, st.pending)
      BY <1>3 DEF Flush
  <2>3. Ordered(b, st.groups) /\ \A j \in st.pending : Behind(b, Grouped(st.groups), j)
      BY DEF Laid
  <2>4. /\ Append(st.groups, st.pending) \in Seq(GroupSets(Len(b)))
        /\ Grouped(Append(st.groups, st.pending)) = Grouped(st.groups) \cup st.pending
        /\ Ordered(b, Append(st.groups, st.pending))
      BY ONLY Len(b) \in Nat, <1>1, <2>1, <2>3, AppendGroup
  <2> QED BY <2>2, <2>4
<1> QED BY <1>2, <1>3

LEMMA PlaceCallLays ==
    ASSUME NEW b, Len(b) \in Nat, ~Rejected(b), NEW n \in Nat, n < Len(b),
           NEW st, Laid(b, n, st)
    PROVE  Laid(b, n + 1, PlaceCall(b, n + 1, st))
<1> DEFINE m == n + 1
           flushed == Flush(st.groups, st.pending)
           new == PlaceCall(b, n + 1, st)
<1>1. /\ st.groups \in Seq(GroupSets(Len(b))) /\ st.pending \subseteq 1 .. n
      /\ m \in 1 .. Len(b) /\ {m} \in GroupSets(Len(b))
      /\ \A i \in 1 .. m : i \in 1 .. n \/ i = m
      /\ 1 .. m - 1 = 1 .. n
    BY DEF Laid, Placements, GroupSets
<1>2. /\ flushed \in Seq(GroupSets(Len(b))) /\ Ordered(b, flushed)
      /\ Grouped(flushed) = Grouped(st.groups) \cup st.pending
    BY FlushGroups
<1>3. 1 .. n \subseteq Grouped(flushed)
    BY <1>2 DEF Laid
<1>4. Behind(b, Grouped(flushed), m)
    BY <1>1, <1>3 DEF Behind
<1>5. CASE Sequential(b[m])
  <2>1. new = [groups |-> Append(flushed, {m}), pending |-> {}]
      BY <1>5 DEF PlaceCall
  <2>2. /\ Append(flushed, {m}) \in Seq(GroupSets(Len(b)))
        /\ Grouped(Append(flushed, {m})) = Grouped(flushed) \cup {m}
        /\ Ordered(b, Append(flushed, {m}))
    <3>1. \A j \in {m} : Behind(b, Grouped(flushed), j)
        BY <1>4
    <3> HIDE DEF flushed, m
    <3> QED BY <1>1, <1>2, <3>1, AppendGroup
  <2> HIDE DEF flushed, new
  <2>3. new.groups = Append(flushed, {m}) /\ new.pending = {} /\ new \in Placements(Len(b))
      BY <2>1, <2>2 DEF Placements
  <2>4. 1 .. m \subseteq Grouped(new.groups) \cup new.pending
      BY <1>1, <1>3, <2>2, <2>3
  <2> HIDE DEF m
  <2> QED BY <2>2, <2>3, <2>4 DEF Laid, m, new
<1>6. CASE ~Sequential(b[m]) /\ \E j \in st.pending : OrderableCalls(b[j], b[m])
  <2>1. new = [groups |-> flushed, pending |-> {m}]
      BY <1>6 DEF PlaceCall
  <2> HIDE DEF flushed, new
  <2>2. new.groups = flushed /\ new.pending = {m} /\ new \in Placements(Len(b))
      BY <1>1, <1>2, <2>1 DEF Placements
  <2>3. 1 .. m \subseteq Grouped(new.groups) \cup new.pending /\ new.pending \subseteq 1 .. m
      BY <1>1, <1>3, <2>2
  <2> HIDE DEF m
  <2> QED BY <1>2, <1>4, <1>6, <2>2, <2>3 DEF Laid, m, new
<1>7. CASE ~Sequential(b[m]) /\ ~(\E j \in st.pending : OrderableCalls(b[j], b[m]))
  <2>1. new = [groups |-> st.groups, pending |-> st.pending \cup {m}]
      BY <1>7 DEF PlaceCall
  <2>2. ASSUME NEW i \in 1 .. m - 1, FileConflict(b[i], b[m]), i \notin Grouped(st.groups)
        PROVE  FALSE
    <3>1. i \in st.pending /\ i \in 1 .. Len(b) /\ i < m
        BY <1>1, <2>2 DEF Laid
    <3>2. ~Sequential(b[i]) /\ ~OrderableCalls(b[i], b[m])
        BY <1>7, <3>1 DEF Laid
    <3>3. ~RejectsPair(b[i], b[m])
        BY <1>1, <1>7, <3>1, <3>2 DEF Rejected
    <3> QED BY <1>7, <2>2, <3>2, <3>3, ConflictsOrderable
  <2>3. Behind(b, Grouped(st.groups), m)
      BY <2>2 DEF Behind
  <2> HIDE DEF new
  <2>4. /\ new.groups = st.groups /\ new.pending = st.pending \cup {m}
        /\ new \in Placements(Len(b))
      BY <1>1, <2>1 DEF Placements
  <2>5. 1 .. m \subseteq Grouped(new.groups) \cup new.pending /\ new.pending \subseteq 1 .. m
      BY <1>1, <2>4 DEF Laid
  <2>6. \A j \in new.pending : ~Sequential(b[j]) /\ Behind(b, Grouped(new.groups), j)
      BY <1>7, <2>3, <2>4 DEF Laid
  <2>7. Ordered(b, new.groups)
      BY <2>4 DEF Laid
  <2> HIDE DEF m
  <2> QED BY <2>4, <2>5, <2>6, <2>7 DEF Laid, m, new
<1> QED BY <1>5, <1>6, <1>7

(* The groups of an accepted batch: a call comes in a later group than the  *)
(* earlier calls whose files it conflicts with.                             *)
LEMMA GroupsLaid ==
    ASSUME NEW b, Len(b) \in Nat, ~Rejected(b)
    PROVE  Groups(b) \in Seq(GroupSets(Len(b))) /\ Ordered(b, Groups(b))
<1> DEFINE N == Len(b)
           V == Placements(N)
           st0 == [groups |-> <<>>, pending |-> {}]
           D == [ns \in (1 .. N) \X V |-> PlaceCall(b, ns[1], ns[2])]
           P == CHOOSE f : f = [n \in 0 .. N |->
                   IF n = 0 THEN [groups |-> <<>>, pending |-> {}]
                   ELSE PlaceCall(b, n, f[n - 1])]
<1>1. ASSUME NEW n \in 1 .. N, NEW st \in V
      PROVE  PlaceCall(b, n, st) \in V
  <2>1. /\ st.groups \in Seq(GroupSets(N)) /\ st.pending \in SUBSET (1 .. N)
        /\ {n} \in GroupSets(N)
      BY DEF Placements, GroupSets
  <2>2. Flush(st.groups, st.pending) \in Seq(GroupSets(N))
    <3>1. st.pending # {} => st.pending \in GroupSets(N)
        BY <2>1 DEF GroupSets
    <3> QED BY <2>1, <3>1, AppendProperties DEF Flush
  <2>3. Append(Flush(st.groups, st.pending), {n}) \in Seq(GroupSets(N))
      BY <2>1, <2>2, AppendProperties
  <2>4. {n} \in SUBSET (1 .. N) /\ {} \in SUBSET (1 .. N) /\ st.pending \cup {n} \in SUBSET (1 .. N)
      BY <2>1
  <2> QED BY <2>1, <2>2, <2>3, <2>4 DEF PlaceCall, Placements
<1>2. D \in [(1 .. N) \X V -> V]
    BY <1>1
<1>3. st0 \in V
    BY DEF Placements
<1>4. PICK f \in [0 .. N -> V] : Iterates(f, st0, N, D)
  <2> HIDE DEF D, P, V, st0
  <2> QED BY <1>2, <1>3, Iteration
<1>5. f = [n \in 0 .. N |->
              IF n = 0 THEN [groups |-> <<>>, pending |-> {}] ELSE PlaceCall(b, n, f[n - 1])]
  <2>1. ASSUME NEW n \in 0 .. N, n # 0
        PROVE  f[n] = PlaceCall(b, n, f[n - 1])
    <3>1. n \in 1 .. N /\ f[n - 1] \in V
        BY <2>1
    <3>2. D[<<n, f[n - 1]>>] = PlaceCall(b, n, f[n - 1])
        BY <3>1
    <3> HIDE DEF D, V, st0, P
    <3> QED BY <1>4, <2>1, <3>2 DEF Iterates
  <2>2. f[0] = st0
    <3>1. 0 \in 0 .. N
        OBVIOUS
    <3> HIDE DEF D, V, st0, P
    <3> QED BY <1>4, <3>1 DEF Iterates
  <2> HIDE DEF D, V, P
  <2> QED BY <2>1, <2>2
<1>6. P = [n \in 0 .. N |->
              IF n = 0 THEN [groups |-> <<>>, pending |-> {}] ELSE PlaceCall(b, n, P[n - 1])]
    BY <1>5
<1>7. Groups(b) = Flush(P[N].groups, P[N].pending)
    BY DEF Groups
<1> HIDE DEF P, D
<1> DEFINE S == {n \in 0 .. N : Laid(b, n, P[n])}
<1>8. 0 \in S
  <2>1. 0 \in 0 .. N /\ P[0] = st0
      BY <1>6
  <2>2. Laid(b, 0, st0)
      BY <1>3 DEF Laid, Ordered
  <2> QED BY <2>1, <2>2
<1>9. ASSUME NEW n \in 0 .. N, n < N, n \in S PROVE n + 1 \in S
  <2>1. n + 1 \in 0 .. N /\ n + 1 # 0 /\ (n + 1) - 1 = n /\ n \in Nat
      BY <1>9
  <2>2. P[n + 1] = PlaceCall(b, n + 1, P[n])
      BY <1>6, <2>1
  <2>3. Laid(b, n, P[n])
      BY <1>9
  <2> QED BY <1>9, <2>1, <2>2, <2>3, PlaceCallLays
<1>10. Laid(b, N, P[N])
  <2>1. \A n \in 0 .. N : n < N /\ n \in S => n + 1 \in S
      BY <1>9
  <2> HIDE DEF S
  <2>2. 0 .. N \subseteq S
      BY ONLY Len(b) \in Nat, <1>8, <2>1, InductionUpTo, Zenon
  <2>3. N \in S
      BY <2>2
  <2> QED BY <2>3 DEF S
<1> QED BY <1>7, <1>10, FlushGroups

-----------------------------------------------------------------------------
(* The groups run one after the other                                       *)

Planned ==
    /\ batch \in Batches
    /\ plan \in [Runs -> Seq(GroupSets(MaxCalls))]
    /\ cancelled \in [Runs -> BOOLEAN]

Conflicts(r, i, j) == FileConflict(batch[r][i], batch[r][j])

\* What a call still in the plan conflicts with is over, or in a group before.
Queued(r) ==
    \A k \in DOMAIN plan[r] : \A j \in plan[r][k] : \A i \in 1 .. j - 1 :
        Conflicts(r, i, j) =>
            pc[<<r, i>>] = "done" \/ \E h \in 1 .. k - 1 : i \in plan[r][h]

\* What a call that has begun conflicts with is over.
Begun(r) ==
    \A j \in 1 .. MaxCalls : \A i \in 1 .. j - 1 :
        pc[<<r, j>>] # "unstarted" /\ Conflicts(r, i, j) => pc[<<r, i>>] = "done"

InOrder == Planned /\ \A r \in Runs : Queued(r) /\ Begun(r)

LEMMA InitInOrder == Init => InOrder
<1> SUFFICES ASSUME Init PROVE InOrder
    OBVIOUS
<1>1. ASSUME NEW r \in Runs
      PROVE  /\ plan[r] \in Seq(GroupSets(MaxCalls))
             /\ Ordered(batch[r], plan[r])
  <2>1. plan[r] = plan_tool_execution(batch[r]) /\ Len(batch[r]) \in 0 .. MaxCalls
      BY BatchesAssumption DEF Init
  <2>2. CASE Rejected(batch[r])
      BY <2>1, <2>2 DEF plan_tool_execution, Ordered
  <2>3. CASE ~Rejected(batch[r])
    <3>1. Len(batch[r]) \in Nat /\ MaxCalls \in Nat /\ Len(batch[r]) <= MaxCalls
        BY <2>1, MaxCallsAssumption
    <3>2. plan[r] \in Seq(GroupSets(Len(batch[r]))) /\ Ordered(batch[r], plan[r])
        BY <2>1, <2>3, <3>1, GroupsLaid DEF plan_tool_execution
    <3>3. GroupSets(Len(batch[r])) \subseteq GroupSets(MaxCalls)
        BY <3>1 DEF GroupSets
    <3> QED BY <3>2, <3>3
  <2> QED BY <2>2, <2>3
<1>2. Planned
    BY <1>1 DEF Init, Planned
<1>3. ASSUME NEW r \in Runs PROVE Queued(r)
    BY <1>1 DEF Queued, Ordered, Conflicts
<1>4. ASSUME NEW r \in Runs PROVE Begun(r)
    BY MaxCallsAssumption DEF Init, Begun, Calls
<1> QED BY <1>2, <1>3, <1>4 DEF InOrder

(* No call returns to an earlier point of execute_tool_call. *)
LEMMA CallMoves ==
    ASSUME Typed, [Next]_vars, NEW c \in Calls
    PROVE  /\ pc[c] = "done" => pc'[c] = "done"
           /\ pc[c] = "unstarted" /\ pc'[c] # "unstarted" => InGroup(c) /\ plan' = plan
<1>1. CASE UNCHANGED vars
    BY <1>1 DEF vars
<1>2. ASSUME NEW d \in Calls, CallStep(d)
      PROVE  /\ pc[c] = "done" => pc'[c] = "done"
             /\ pc[c] = "unstarted" /\ pc'[c] # "unstarted" => InGroup(c) /\ plan' = plan
  <2>1. /\ pc[d] # "done" \/ pc' = pc
        /\ pc[d] # "unstarted" \/ InGroup(d) \/ pc' = pc
        /\ c # d => pc'[c] = pc[c]
        /\ plan' = plan
      BY <1>2 DEF CallStep, Begin, Skip, Acquire, Block, Retry, StopWaiting, Finish, Detach,
         DetachedEnds, Notify, Drop, Typed
  <2> QED BY <2>1
<1>3. ASSUME NEW r \in Runs, NextGroup(r) \/ Cancel(r) PROVE pc' = pc
    BY <1>3 DEF NextGroup, Cancel
<1> QED BY <1>1, <1>2, <1>3 DEF Next

LEMMA PlanMoves ==
    ASSUME [Next]_vars, Planned
    PROVE  /\ batch' = batch
           /\ Planned'
           /\ \A r \in Runs :
                 \/ plan'[r] = plan[r]
                 \/ /\ plan[r] # <<>> /\ GroupReturned(r)
                    /\ plan'[r] = Tail(plan[r]) /\ pc' = pc
<1>1. CASE UNCHANGED vars
    BY <1>1 DEF vars, Planned
<1>2. ASSUME NEW d \in Calls, CallStep(d) PROVE UNCHANGED <<batch, plan, cancelled>>
    BY <1>2 DEF CallStep, Begin, Skip, Acquire, Block, Retry, StopWaiting, Finish, Detach,
       DetachedEnds, Notify
<1>3. ASSUME NEW r \in Runs, NextGroup(r)
      PROVE  /\ batch' = batch /\ Planned'
             /\ \A q \in Runs :
                   \/ plan'[q] = plan[q]
                   \/ /\ plan[q] # <<>> /\ GroupReturned(q)
                      /\ plan'[q] = Tail(plan[q]) /\ pc' = pc
  <2>1. /\ plan[r] # <<>> /\ plan[r] \in Seq(GroupSets(MaxCalls))
        /\ plan' = [plan EXCEPT ![r] = Tail(plan[r])]
      BY <1>3 DEF NextGroup, Planned
  <2>2. Tail(plan[r]) \in Seq(GroupSets(MaxCalls))
      BY <2>1
  <2> QED BY <1>3, <2>1, <2>2 DEF NextGroup, Planned
<1>4. ASSUME NEW r \in Runs, Cancel(r)
      PROVE  UNCHANGED <<batch, plan>> /\ Planned'
    BY <1>4 DEF Cancel, Planned
<1>5. CASE UNCHANGED <<batch, plan, cancelled>>
    BY <1>5 DEF Planned
<1> QED BY <1>1, <1>2, <1>3, <1>4, <1>5 DEF Next

LEMMA InOrderStep == IInv /\ InOrder /\ [Next]_vars => InOrder'
<1> SUFFICES ASSUME Typed, InOrder, [Next]_vars PROVE InOrder'
    BY DEF IInv
<1>1. Planned /\ Planned' /\ batch' = batch
    BY PlanMoves DEF InOrder
<1>2. ASSUME NEW r \in Runs, NEW i, NEW j, i \in Nat, j \in 1 .. MaxCalls, i \in 1 .. j - 1
      PROVE  <<r, i>> \in Calls /\ <<r, j>> \in Calls
    BY <1>2, MaxCallsAssumption DEF Calls
<1>3. ASSUME NEW r \in Runs PROVE Queued(r)'
  <2> SUFFICES ASSUME NEW k \in DOMAIN plan'[r], NEW j \in plan'[r][k], NEW i \in 1 .. j - 1,
                      Conflicts(r, i, j), pc'[<<r, i>>] # "done"
               PROVE  \E h \in 1 .. k - 1 : i \in plan'[r][h]
      BY <1>1 DEF Queued, Conflicts
  <2>1. plan'[r] \in Seq(GroupSets(MaxCalls)) /\ plan[r] \in Seq(GroupSets(MaxCalls))
      BY <1>1 DEF Planned
  <2>2. j \in 1 .. MaxCalls /\ k \in Nat
      BY <2>1 DEF GroupSets
  <2>3. pc[<<r, i>>] # "done"
    <3>1. i \in 1 .. MaxCalls
        BY <2>2, MaxCallsAssumption
    <3>2. <<r, i>> \in Calls
        BY <3>1 DEF Calls
    <3> QED BY <3>2, CallMoves
  <2>4. CASE plan'[r] = plan[r]
      BY <2>3, <2>4 DEF InOrder, Queued
  <2>5. CASE plan[r] # <<>> /\ GroupReturned(r) /\ plan'[r] = Tail(plan[r])
    <3>1. /\ k + 1 \in DOMAIN plan[r] /\ plan[r][k + 1] = plan'[r][k]
          /\ \A h \in 2 .. k : h - 1 \in 1 .. k - 1 /\ plan'[r][h - 1] = plan[r][h]
          /\ Head(plan[r]) = plan[r][1]
        BY <2>1, <2>5
    <3>2. PICK h \in 1 .. (k + 1) - 1 : i \in plan[r][h]
        BY <2>3, <3>1 DEF InOrder, Queued
    <3>3. h # 1
        BY <2>3, <2>5, <3>1, <3>2 DEF GroupReturned
    <3> QED BY <2>2, <3>1, <3>2, <3>3
  <2> QED BY <1>1, <2>4, <2>5, PlanMoves
<1>4. ASSUME NEW r \in Runs PROVE Begun(r)'
  <2> SUFFICES ASSUME NEW j \in 1 .. MaxCalls, NEW i \in 1 .. j - 1,
                      pc'[<<r, j>>] # "unstarted", Conflicts(r, i, j)
               PROVE  pc'[<<r, i>>] = "done"
      BY <1>1 DEF Begun, Conflicts
  <2>1. <<r, i>> \in Calls /\ <<r, j>> \in Calls
      BY <1>2
  <2>2. pc[<<r, i>>] = "done"
    <3>1. CASE pc[<<r, j>>] # "unstarted"
        BY <3>1 DEF InOrder, Begun
    <3>2. CASE pc[<<r, j>>] = "unstarted"
      <4>1. plan[r] # <<>> /\ j \in Head(plan[r])
          BY <2>1, <3>2, CallMoves DEF InGroup
      <4>2. 1 \in DOMAIN plan[r] /\ Head(plan[r]) = plan[r][1]
        <5>1. plan[r] \in Seq(GroupSets(MaxCalls))
            BY <1>1 DEF Planned
        <5> QED BY <4>1, <5>1
      <4> QED BY <4>1, <4>2 DEF InOrder, Queued
    <3> QED BY <3>1, <3>2
  <2> QED BY <2>1, <2>2, CallMoves
<1> QED BY <1>1, <1>3, <1>4 DEF InOrder

(* States are well formed and conflicting calls keep their order. *)
LEMMA BatchOrderFromInOrder == IInv /\ InOrder => BatchOrder
<1> SUFFICES ASSUME IInv, InOrder PROVE BatchOrder
    OBVIOUS
<1>1. TypeOK
  <2>1. ASSUME NEW a \in active
        PROVE  a \in {<<c, l>> : c \in Calls, l \in UNION {Locks(d) : d \in Calls}}
    <3>1. a = <<a[1], a[2]>> /\ a[1] \in Calls
        BY DEF IInv, Typed
    <3>2. a[2] \in Locks(a[1])
        BY <3>1 DEF IInv, Registry
    <3> QED BY <3>1, <3>2
  <2> QED BY <2>1 DEF TypeOK, IInv, Typed, InOrder, Planned, GroupSets
<1>2. ASSUME NEW r \in Runs, NEW i \in 1 .. Len(batch[r]), NEW j \in 1 .. Len(batch[r]),
             i < j, pc[<<r, j>>] # "unstarted", Conflicts(r, i, j)
      PROVE  pc[<<r, i>>] = "done"
  <2>1. Len(batch[r]) \in 0 .. MaxCalls
      BY BatchesAssumption DEF InOrder, Planned
  <2>2. j \in 1 .. MaxCalls /\ i \in 1 .. j - 1
      BY <1>2, <2>1, MaxCallsAssumption
  <2> QED BY <1>2, <2>2 DEF InOrder, Begun
<1> QED BY <1>1, <1>2 DEF BatchOrder, Conflicts, FileConflict

(* Calls of one batch that conflict on a file start in the order the model  *)
(* issued them, whatever the executor interleaves within a group and however *)
(* calls time out, are skipped, rewritten or cancelled.                     *)
THEOREM OrderKept == Spec => []BatchOrder
<1>1. IInv /\ InOrder /\ [Next]_vars => InOrder'
    BY InOrderStep
<1> QED BY <1>1, InitInOrder, BatchOrderFromInOrder, IInvHolds, PTL DEF Spec
=============================================================================
