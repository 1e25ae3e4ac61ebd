SPECIFICATION Spec
CONSTANTS
    Count = 2
    Effectful = {1}
    DependsOn <- MCDependsOn
    Requests = {"r1", "r2"}
    KeyOf <- MCKeyOf
    PlanRevision = 2
    Outcomes = {"completed", "escalated", "waiting_approval"}
    Faults = {"cancel", "disconnect", "put"}
    MaxCrashes = 1
INVARIANT EffectsOnce
CHECK_DEADLOCK FALSE
