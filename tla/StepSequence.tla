----------------------------- MODULE StepSequence -----------------------------
(***************************************************************************)
(* What a plan that is run step by step promises: the steps are taken in   *)
(* the order of the plan, one at a time, and what is done stays done.      *)
(***************************************************************************)
EXTENDS Naturals

CONSTANT Steps      \* the steps of the plan, by position

VARIABLES
    done,           \* the steps that are done
    current         \* the steps in progress: one, or none

Init ==
    /\ done = {}
    /\ current = {}

\* The first step that is not done is taken, or taken again.
Take(s) ==
    /\ current = {}
    /\ s \notin done
    /\ \A t \in Steps : t < s => t \in done
    /\ current' = {s}
    /\ UNCHANGED done

\* It is done, or given back: refused, failed, waiting for someone.
Finish(s) ==
    /\ s \in current
    /\ current' = {}
    /\ done' \in {done, done \cup {s}}

Next == \E s \in Steps : Take(s) \/ Finish(s)

Spec == Init /\ [][Next]_<<done, current>>

===============================================================================
