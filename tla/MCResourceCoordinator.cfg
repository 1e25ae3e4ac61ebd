SPECIFICATION Spec
CONSTANTS
    c1 = c1
    c2 = c2
    c3 = c3
    p1 = p1
    p2 = p2
    Keys = {1}
    Calls = {c1, c2, c3}
    Procs = {p1, p2}
    ProcOf <- OneKeyProcs
    ClaimsOf <- OneKeyClaims
    TtlOf <- OneKeyTtl
    Cap = 3
    HasRedis = TRUE
    FailClosed = TRUE
    MaxFaults = 2
INVARIANTS
    LeasesExclude
    BodyKeepsLease
CHECK_DEADLOCK FALSE
