------------------------ MODULE MCBackgroundCommands ------------------------
(* Instances of BackgroundCommands for TLC. *)
EXTENDS BackgroundCommands

OneWorkspace(c) == "w"

(* Two starts compete for the slot of a workspace, in any order with exits,  *)
(* prunes and a shutdown.                                                   *)
Race == [started |-> {"c1", "c2"}, timed |-> {}, descendants |-> {},
         stopped |-> {}, awaited |-> {}, cleared |-> {}]

(* Everything that can happen to one command.                               *)
Life == [started |-> {"c1"}, timed |-> {"c1"}, descendants |-> {"piped", "detached"},
         stopped |-> {"c1"}, awaited |-> {"c1"}, cleared |-> {"w"}]

RaceAndLife == {Race, Life}
=============================================================================
