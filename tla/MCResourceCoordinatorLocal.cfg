SPECIFICATION FairSpec
CONSTANTS
    c1 = c1
    c2 = c2
    c3 = c3
    p1 = p1
    p2 = p2
    Keys = {1, 2}
    Calls = {c1, c2, c3}
    Procs = {p1}
    ProcOf <- OneProc
    ClaimsOf <- TwoKeyClaims
    TtlOf <- TwoKeyTtl
    Cap = 3
    HasRedis = FALSE
    FailClosed = FALSE
    MaxFaults = 0
INVARIANTS
    LocksExclude
    NothingLeaks
PROPERTY ClaimsEnd
CHECK_DEADLOCK FALSE
