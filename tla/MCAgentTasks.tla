---------------------------- MODULE MCAgentTasks ----------------------------
(* Instances of AgentTasks for TLC. *)
EXTENDS AgentTasks

\* "boss" owns the root tasks "parent" and "second"; "parent" delegates
\* "child" and "other" to "worker", and "child" delegates "leaf" to "helper".
MCOwner(t) == CASE t \in {"parent", "second"} -> "boss"
                [] t \in {"child", "other"}   -> "worker"
                [] t = "leaf"                 -> "helper"
MCParent(t) == CASE t \in {"parent", "second"} -> NoTask
                 [] t \in {"child", "other"}   -> "parent"
                 [] t = "leaf"                 -> "child"

Once(ts) == [t \in Tasks |-> IF t \in ts THEN 1 ELSE 0]
Twice(t, w) == [w EXCEPT !.attempts[t] = 2]

\* The delegated tasks are never claimed; one process, no operators.
Plain(ts) == [tasks |-> ts, coordinators |-> {}, runs |-> 1, lives |-> {1},
              attempts |-> Once({}), timed |-> {}, transfers |-> {}, controls |-> {}]

\* Two processes recover the attempts of a task that waits with a deadline.
Recovery == Twice("parent", [Plain({"parent", "child"}) EXCEPT
                !.lives = {1, 2}, !.timed = {"parent"}])

\* A chain of delegations, stopped by operators, its end transferred.
Chain == [Plain({"parent", "child", "leaf"}) EXCEPT
             !.attempts = Once({"parent", "child"}), !.transfers = {"leaf"},
             !.controls = {"team", "worker"} \X {"stopped"}]

\* Two tasks queue for one instance, which operators pause between the
\* attempts of one of them, or control together with its team.
PausedQueue ==
    Twice("parent", [Plain({"parent", "second"}) EXCEPT
        !.attempts = Once({"second"}), !.coordinators = {"boss"}, !.runs = 2,
        !.controls = {"boss"} \X {"idle", "paused"}])
DrainedQueue ==
    [PausedQueue EXCEPT !.attempts = Once({"parent", "second"}),
        !.controls = {"boss", "team"} \X {"active", "paused", "draining"}]

\* A waiting coordinator in a draining team, with two processes.
Draining == Twice("parent", [Plain({"parent", "child"}) EXCEPT
                !.lives = {1, 2}, !.coordinators = {"boss"}, !.runs = 2,
                !.controls = {<<"team", "draining">>}])

\* A task with two delegated tasks, one of them cancelled.
Family == Twice("parent", Plain({"parent", "child", "other"}))

TeamWork == {Recovery, Chain, PausedQueue, DrainedQueue}
DrainingOnly == {Draining}
FamilyOnly == {Family}
=============================================================================
