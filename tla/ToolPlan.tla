------------------------------ MODULE ToolPlan ------------------------------
(***************************************************************************)
(* plan_tool_execution (agent/lib.rs): how a batch of tool calls that the  *)
(* model issued in one round is rejected, or cut into groups that run one  *)
(* after the other, the calls of a parallel group together.                *)
(***************************************************************************)
EXTENDS Integers, Sequences, FiniteSets, ToolResources

\* A call whose locks cannot be computed is planned as if it had none.
PlannedLocks(c) == IF MissingArgument(c) THEN {} ELSE tool_resource_locks(c)

Sequential(c) ==
    \/ c.tool \in {"ask_question", "run_command", "stop_command", "update_plan",
                   "memory_write", "mcp"}
    \/ c.tool = "apply_patch" /\ c.args = {}

\* is_contextual_file_edit(file_write_kind(..))
ContextualEdit(c) == c.tool \in {"edit_file", "apply_patch"}

IsWorkspaceFile(l) == l.resource.type \in {"WorkspaceFiles", "File"}

\* is_orderable_workspace_file_conflict: order settles the conflict.
Orderable(l, c, m, d) ==
    /\ tool_resource_locks_conflict(l, m)
    /\ IsWorkspaceFile(l) /\ IsWorkspaceFile(m)
    /\ \/ {l.access, m.access} = {"Read", "Write"}
       \/ /\ l.resource.type = "File" /\ m.resource.type = "File"
          /\ ContextualEdit(c) /\ ContextualEdit(d)

OrderableCalls(c, d) ==
    \E l \in PlannedLocks(c), m \in PlannedLocks(d) : Orderable(l, c, m, d)

\* The ways reject_conflicting_parallel_tool_calls goes on after a conflict.
Tolerated(l, c, m, d) ==
    \/ l = MutationLease /\ m = MutationLease
    \/ IF l.access = "Write" /\ m.access = "Write" /\ l.resource.type = "File"
         THEN ContextualEdit(c) /\ ContextualEdit(d)
         ELSE Orderable(l, c, m, d)

RejectsPair(c, d) ==
    \E l \in PlannedLocks(c), m \in PlannedLocks(d) :
        tool_resource_locks_conflict(l, m) /\ ~Tolerated(l, c, m, d)

Rejected(batch) ==
    \E i, j \in 1..Len(batch) :
        /\ i < j
        /\ ~Sequential(batch[i]) /\ ~Sequential(batch[j])
        /\ RejectsPair(batch[i], batch[j])

-----------------------------------------------------------------------------
\* push_parallel_group
FlushForgetting(groups, pending) == groups

Flush(groups, pending) == IF pending = {} THEN groups ELSE Append(groups, pending)

\* One turn of the grouping loop; the pending calls are a set of indices.
PlaceCallIgnoringConflicts(batch, i, st) ==
    IF Sequential(batch[i])
      THEN [groups |-> Append(Flush(st.groups, st.pending), {i}), pending |-> {}]
      ELSE [groups |-> st.groups, pending |-> st.pending \cup {i}]

PlaceCall(batch, i, st) ==
    IF Sequential(batch[i])
      THEN [groups |-> Append(Flush(st.groups, st.pending), {i}), pending |-> {}]
    ELSE IF \E j \in st.pending : OrderableCalls(batch[j], batch[i])
      THEN [groups |-> Flush(st.groups, st.pending), pending |-> {i}]
    ELSE [groups |-> st.groups, pending |-> st.pending \cup {i}]

\* The groups of a batch that is not rejected.
Groups(batch) ==
    LET Placed[n \in 0..Len(batch)] ==
            IF n = 0 THEN [groups |-> <<>>, pending |-> {}]
                     ELSE PlaceCall(batch, n, Placed[n - 1])
        last == Placed[Len(batch)]
    IN  Flush(last.groups, last.pending)

\* Groups of a rejected batch are empty: none of its calls is executed.
plan_tool_execution(batch) == IF Rejected(batch) THEN <<>> ELSE Groups(batch)
=============================================================================
