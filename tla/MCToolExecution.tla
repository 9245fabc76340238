--------------------------- MODULE MCToolExecution --------------------------
(* Instances of ToolExecution for TLC. *)
EXTENDS ToolExecution

(* Two spellings of one file, as normalize_workspace_path_key maps them. *)
MCPathKey(p) == IF p = "./A.rs" THEN "a.rs" ELSE p

Tool(t, as) == [tool |-> t, args |-> as]

(* The last run works in a workspace of its own. *)
TwoWorkspaces(r) == IF r = "r3" THEN "v" ELSE "w"

(* Every pair of calls of all planning classes, and every triple of those    *)
(* that touch files or the whole workspace.                                 *)
FileCalls == {Tool("read_file", {"a.rs"}), Tool("write_file", {"./A.rs"}),
              Tool("edit_file", {"a.rs"}), Tool("apply_patch", {"a.rs", "b.rs"}),
              Tool("search_text", {}), Tool("run_command", {})}
PlanCalls == FileCalls \cup {Tool("apply_patch", {}), Tool("write_file", {}),
                             Tool("read_spec", {}), Tool("update_spec", {})}
PlanBatches == [1..1 -> PlanCalls] \cup [1..2 -> PlanCalls] \cup [1..3 -> FileCalls]

(* Batches of two runs that compete for a file and the mutation lease, and
   a hook that redirects a call to another file. *)
Patch == Tool("apply_patch", {"./A.rs", "b.rs"})
RaceBatches == <<<<Tool("edit_file", {"a.rs"}), Patch>>,
                 <<Tool("search_text", {}), Tool("agent_delegate_task", {})>>,
                 <<Tool("run_command", {}), Tool("search_text", {})>>,
                 <<Tool("get_command_output", {"p"}), Tool("stop_command", {"p"})>>>>
PatchToWrite(c) == IF c = Patch THEN {Tool("write_file", {"b.rs"})} ELSE {}

(* Single calls of three runs, one of them in another workspace. *)
ScopeBatches == <<<<Tool("write_file", {"a.rs"})>>, <<Tool("memory_write", {"global"})>>,
                  <<Tool("memory_search", {"auto"})>>>>

(* One run alone with any batch, two that race, or three in two workspaces. *)
AllRuns == {"r1", "r2", "r3"}
Share(b1, b2, b3) == [r \in AllRuns |-> CASE r = "r1" -> b1 [] r = "r2" -> b2 [] r = "r3" -> b3]
InOrder(S) == {p \in S \X S : p[1] <= p[2]}  \* r1 and r2 are alike
Alone == {Share(b, <<>>, <<>>) : b \in PlanBatches}
Racing == {Share(RaceBatches[i], RaceBatches[j], <<>>) : <<i, j>> \in InOrder(1..4)}
Apart == {Share(ScopeBatches[p[1]], ScopeBatches[p[2]], ScopeBatches[k]) :
             p \in InOrder(1..3), k \in 1..3}
MCBatches == Alone \cup Racing \cup Apart
=============================================================================
