SPECIFICATION FairSpec
CONSTANTS
    Jobs = {"a", "b"}
    Users = {"u"}
    UserOf <- MCUserOf
    Processes = {"p"}
    ProcessOf <- MCProcessOf
    InflightLimit = 1
    GlobalLimit = 2
    UserLimit = 1
    Lease = 2
    Races = {}
    MaxFaults = 1
INVARIANTS QuotasHold RunningHasSlot
PROPERTIES SlotsComeBack
CHECK_DEADLOCK FALSE
