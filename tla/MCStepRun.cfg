SPECIFICATION Spec
CONSTANTS
    Count = 2
    Effectful = {1}
    DependsOn <- MCDependsOn
    Requests = {"r1", "r2", "r3"}
    KeyOf <- MCKeyOf
    PlanRevision = 2
    Outcomes = {"completed", "failed", "waiting_approval", "waiting_resources"}
    Faults = {"cancel"}
    MaxCrashes = 1
INVARIANT KeysRunOnce
INVARIANT CheckpointNeverAhead
PROPERTY StepsInOrder
PROPERTY StepsSettle
CHECK_DEADLOCK FALSE
