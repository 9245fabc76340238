----------------------------- MODULE MCChatRuns -----------------------------
(* Instances of ChatRuns for TLC. *)
EXTENDS ChatRuns

Quiet == [team |-> TRUE, lives |-> 2, events |-> 0, faults |-> 0, connects |-> 0,
          clients |-> {}, messages |-> {}, children |-> {},
          names |-> [m \in Messages |-> "none"], rival |-> FALSE]

\* A plain chat whose client reconnects and lags.
Chat == [Quiet EXCEPT !.team = FALSE, !.lives = 1, !.events = 5, !.faults = 1,
                      !.connects = 2, !.clients = Clients]

\* A coordinator that waits once for a delegated task: its client reconnects,
\* or a database call fails.
Team == [Quiet EXCEPT !.events = 2, !.clients = Clients, !.connects = 2,
                      !.children = Children]
FailingTeam == [Team EXCEPT !.events = 1, !.connects = 1, !.faults = 1]

\* An agent that is sent messages, without and with failures.
Mail == [Quiet EXCEPT !.lives = 3, !.events = 2, !.messages = Messages]
FailingMail == [Mail EXCEPT !.faults = 1]

\* Messages that name different tasks, or none, with another run of the instance.
Names(n1, n2) == [m \in Messages |-> IF m = "m1" THEN n1 ELSE n2]
NamedMail == {[Mail EXCEPT !.lives = 2, !.events = 1, !.rival = TRUE, !.names = n] :
                 n \in {Names("this", "none"), Names("other", "none"), Names("this", "other")}}

\* A plain chat whose run fails, and fails to say so.
Outage == [Chat EXCEPT !.events = 1, !.faults = 2, !.connects = 1]

AllWork == {Chat, Outage, Team, FailingTeam, Mail, FailingMail} \cup NamedMail
TeamOnly == {[Team EXCEPT !.connects = 1]}
=============================================================================
