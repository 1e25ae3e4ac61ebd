---------------------------- MODULE MCLogicalPlan ----------------------------
(* An instance of LogicalPlan for TLC: nodes 1 and 2 are planned, 3 is the   *)
(* replacement of a failed tail, 4 and 5 are added by the two patches.       *)
EXTENDS LogicalPlan, TLC

CONSTANTS s1, s2, c1, c2

TailsOf == <<{3}>>
AddedBy == c1 :> {4} @@ c2 :> {5}
SlotsOf == c1 :> s1 @@ c2 :> s2
DepsOfSlots == s1 :> {1} @@ s2 :> {1}
Deps == [n \in Nodes |-> IF n \in {4, 5} THEN {1} ELSE {}]
Sends == c1 :> 2 @@ c2 :> 1
Estimates == [n \in Nodes |-> 1]

==============================================================================
