-------------------------------- MODULE DagRun --------------------------------
(***************************************************************************)
(* What a task engine promises of one job, whatever schedules it: a node   *)
(* is started only behind settled dependencies, a settled node stays       *)
(* settled, at most Width nodes are active at once, and nothing is active  *)
(* when the run is over.  A suspended run may be taken up again.           *)
(***************************************************************************)
EXTENDS Naturals, FiniteSets

CONSTANTS Nodes, Width

VARIABLES
    deps,   \* the dependency graph, fixed
    state,  \* of each node: open, active or settled
    over    \* the run has returned

vars == <<deps, state, over>>

NodeState == {"open", "active", "settled"}
ActiveIn(st) == {n \in Nodes : st[n] = "active"}

Init ==
    /\ deps \in [Nodes -> SUBSET Nodes]
    /\ state = [n \in Nodes |-> "open"]
    /\ over = FALSE

\* Some nodes start, some settle, some active ones are handed back unsettled,
\* and the run may return.
Advance ==
    /\ ~over
    /\ state' \in [Nodes -> NodeState]
    /\ \A n \in Nodes : state[n] = "settled" => state'[n] = "settled"
    /\ \A n \in Nodes : (state[n] # "active" /\ state'[n] = "active")
          => \A d \in deps[n] : state[d] = "settled"
    /\ Cardinality(ActiveIn(state')) <= Width
    /\ over' \in BOOLEAN
    /\ over' => ActiveIn(state') = {}
    /\ UNCHANGED deps

\* A suspended run is taken up again where it stopped; some of what it left
\* open may have been settled in between.
Resume ==
    /\ over
    /\ over' = FALSE
    /\ state' \in [Nodes -> {"open", "settled"}]
    /\ \A n \in Nodes : state[n] = "settled" => state'[n] = "settled"
    /\ UNCHANGED deps

Next == Advance \/ Resume

Spec == Init /\ [][Next]_vars

===============================================================================
