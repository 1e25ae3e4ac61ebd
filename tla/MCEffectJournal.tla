---------------------------- MODULE MCEffectJournal ----------------------------
(* Instances of EffectJournal for TLC. *)
EXTENDS EffectJournal

CONSTANT k1

\* Every executor runs the same node: the first run, a rerun, a second worker.
MCKeyOf == [e \in Executors |-> k1]

===============================================================================
