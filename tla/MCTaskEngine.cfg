SPECIFICATION FairSpec
CONSTANTS
    Nodes = {1, 2, 3}
    Specs <- MCSpecs
    Concurrency = 2
    Frontier = 0
    MaxRuns = 2
INVARIANTS
    EveryNodeAccounted
    DependenciesGateLaunch
    BoundedConcurrency
    NoTaskOutlivesRun
    SkipHasCause
    ValidationIsExact
PROPERTIES
    ImplementsDagRun
    RunTerminates
CHECK_DEADLOCK FALSE
