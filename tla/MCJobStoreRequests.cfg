SPECIFICATION FairSpec
CONSTANTS
    n1 = n1
    Nodes = {n1}
    Requests = {"cancel", "pause"}
    Stores = {"worker"}
    StoreOf <- OneProcess
INVARIANTS
    SavesAreAccepted
    OnlyStuckJobsFail
PROPERTIES
    StaleSaveKeepsControl
    RequestsAreAnswered
CHECK_DEADLOCK FALSE
