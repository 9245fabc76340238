---------------------------- MODULE CapacityGate ----------------------------
(***************************************************************************)
(* What the workspace database gate promises to the rest of Foco           *)
(* (store/workspace_gate.rs, module comment and the two capacity           *)
(* constants): at any time at most TotalCapacity openers hold a permit on  *)
(* one workspace database, at most OrdinaryCapacity of them ordinary ones, *)
(* so that critical openers always find a reserve.  How an opener waits,   *)
(* gives up or is queued is invisible at this level.                       *)
(***************************************************************************)
EXTENDS Naturals, FiniteSets

CONSTANTS Opens,             \* identities of concurrent open requests
          TotalCapacity, OrdinaryCapacity

VARIABLES ordinaryUse,       \* ordinary openers that hold a total permit
          criticalUse        \* critical openers that hold a total permit

uses == <<ordinaryUse, criticalUse>>

Init == ordinaryUse = {} /\ criticalUse = {}

AdmitOrdinary(o) ==
    /\ o \notin ordinaryUse \cup criticalUse
    /\ Cardinality(ordinaryUse) < OrdinaryCapacity
    /\ Cardinality(ordinaryUse) + Cardinality(criticalUse) < TotalCapacity
    /\ ordinaryUse' = ordinaryUse \cup {o}
    /\ UNCHANGED criticalUse

AdmitCritical(o) ==
    /\ o \notin ordinaryUse \cup criticalUse
    /\ Cardinality(ordinaryUse) + Cardinality(criticalUse) < TotalCapacity
    /\ criticalUse' = criticalUse \cup {o}
    /\ UNCHANGED ordinaryUse

Leave(o) ==
    /\ o \in ordinaryUse \cup criticalUse
    /\ ordinaryUse' = ordinaryUse \ {o}
    /\ criticalUse' = criticalUse \ {o}

Next == \E o \in Opens : AdmitOrdinary(o) \/ AdmitCritical(o) \/ Leave(o)

Spec == Init /\ [][Next]_uses
=============================================================================
