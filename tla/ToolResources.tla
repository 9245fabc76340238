--------------------------- MODULE ToolResources ----------------------------
(***************************************************************************)
(* The resource model of Foco's tool scheduler (agent/lib.rs): which locks *)
(* a tool call needs and when two locks conflict.                          *)
(*                                                                         *)
(* A tool call is a record [tool, args]: args is the set of paths, scopes  *)
(* or process ids the call names; it is empty when the argument is missing *)
(* or, for apply_patch, when the patch markers do not parse.  Tools that   *)
(* the code treats alike are represented by one of them.                   *)
(***************************************************************************)
CONSTANT PathKey(_)   \* normalize_workspace_path_key: spelling -> file key

Res(t, k) == [type |-> t, key |-> k]
Lock(r, a) == [resource |-> r, access |-> a]

WorkspaceFiles == Res("WorkspaceFiles", "")
MutationLease == Lock(Res("WorkspaceMutationLease", ""), "Exclusive")

\* memory_scope_key
ScopeKey(s) == IF s = "auto" THEN "all" ELSE s

Readers == {"read_file", "search_text", "get_plans", "read_spec", "memory_search",
            "web_fetch", "get_command_output", "sleep"}
StoreWriters == {"update_plan", "update_spec", "memory_write"}

\* required_path, memory_scope_key and required_process_id fail.
MissingArgument(c) ==
    /\ c.args = {}
    /\ c.tool \in {"read_file", "write_file", "edit_file", "memory_search", "memory_write",
                   "get_command_output", "stop_command"}

\* The match on the tool name in tool_resource_locks.
NamedLocks(c) ==
    CASE c.tool = "read_file" -> {Lock(Res("File", PathKey(p)), "Read") : p \in c.args}
      [] c.tool \in {"write_file", "edit_file"} ->
             {Lock(Res("File", PathKey(p)), "Write") : p \in c.args}
      [] c.tool = "apply_patch" ->
             IF c.args = {} THEN {Lock(WorkspaceFiles, "Write")}
             ELSE {Lock(Res("File", PathKey(p)), "Write") : p \in c.args}
      [] c.tool = "search_text" -> {Lock(WorkspaceFiles, "Read")}
      [] c.tool = "get_plans" -> {Lock(Res("Plan", ""), "Read")}
      [] c.tool = "update_plan" -> {Lock(Res("Plan", ""), "Write")}
      [] c.tool = "read_spec" -> {Lock(Res("ProjectSpec", ""), "Read")}
      [] c.tool = "update_spec" -> {Lock(Res("ProjectSpec", ""), "Write")}
      [] c.tool = "memory_search" -> {Lock(Res("Memory", ScopeKey(s)), "Read") : s \in c.args}
      [] c.tool = "memory_write" -> {Lock(Res("Memory", ScopeKey(s)), "Write") : s \in c.args}
      [] c.tool = "web_fetch" -> {Lock(Res("ExternalTool", "web_fetch"), "Read")}
      [] c.tool = "get_command_output" -> {Lock(Res("CommandProcess", p), "Read") : p \in c.args}
      [] c.tool = "stop_command" -> {Lock(Res("CommandProcess", p), "Exclusive") : p \in c.args}
      [] c.tool = "mcp" -> {Lock(Res("ExternalTool", "mcp"), "Exclusive")}
      [] OTHER -> {}

\* tool_effect and tool_requires_workspace_mutation_lease: file writers and
\* every tool with an external or unknown effect take the mutation lease.
NeedsMutationLease(c) == c.tool \notin Readers \cup StoreWriters

tool_resource_locks(c) ==
    NamedLocks(c) \cup (IF NeedsMutationLease(c) THEN {MutationLease} ELSE {})

-----------------------------------------------------------------------------
resources_overlap(r, s) ==
    \/ r.type = "WorkspaceFiles" /\ s.type = "File"
    \/ r.type = "File" /\ s.type = "WorkspaceFiles"
    \/ r.type = "Memory" /\ s.type = "Memory" /\ (r.key = "all" \/ s.key = "all")
    \/ r = s

accesses_conflict(a, b) == ~(a = "Read" /\ b = "Read")

tool_resource_locks_conflict(l, m) ==
    resources_overlap(l.resource, m.resource) /\ accesses_conflict(l.access, m.access)
=============================================================================
