----------------------------- MODULE MCLlmAudit -----------------------------
(* LlmAudit for TLC: a request dump takes two cells, a response dump one.   *)
EXTENDS LlmAudit

CellsOf(b) == IF b[2] = "request" THEN 2 ELSE 1

\* Two runs at once, nothing goes wrong
TwoCalls == [calls |-> {"a", "b"}, legacy |-> {}, dumps |-> 1, faults |-> 0, crashes |-> 0,
             power |-> FALSE, rewritten |-> {}]
Overlap == {[TwoCalls EXCEPT !.crashes = 1, !.power = TRUE], [TwoCalls EXCEPT !.faults = 1]}

\* One run and whatever goes wrong; the cleanup alone, then next to a run
OneCall == [calls |-> {"a"}, legacy |-> {}, dumps |-> 2, faults |-> 2, crashes |-> 2,
            power |-> TRUE, rewritten |-> {"a"}]
Cleanup == {[calls |-> {}, legacy |-> {"a", "b"}, dumps |-> 0, faults |-> 1, crashes |-> 2,
             power |-> TRUE, rewritten |-> {"b"}],
            [calls |-> {"a"}, legacy |-> {"b"}, dumps |-> 1, faults |-> 0, crashes |-> 0,
             power |-> FALSE, rewritten |-> {}],
            [calls |-> {"a"}, legacy |-> {"b"}, dumps |-> 0, faults |-> 0, crashes |-> 1,
             power |-> TRUE, rewritten |-> {"a"}]}

MCWorkloads == Overlap \cup {OneCall} \cup Cleanup
Undisturbed == {TwoCalls}
=============================================================================
