-------------------------- MODULE MCScheduledTasks --------------------------
(* Instances of ScheduledTasks for TLC. *)
EXTENDS ScheduledTasks

Every(s, at) == [kind |-> "interval", every |-> s, at |-> at]

RunsThrough == {<<"queued", "running">>, <<"running", "failed">>, <<"failed", "queued">>}
Anchored == {Every(1, 1)}
=============================================================================
