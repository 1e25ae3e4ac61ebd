------------------------------- MODULE MCStepRun -------------------------------
\* Two steps, the second needs the first; three requests, the third repeats the
\* key of the first.
EXTENDS StepRun

MCDependsOn == <<{}, {1}>>
MCKeyOf == [r1 |-> "k1", r2 |-> "k2", r3 |-> "k1"]

===============================================================================
