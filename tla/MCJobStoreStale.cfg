SPECIFICATION Spec
CONSTANTS
    n1 = n1
    Nodes = {n1}
    Requests = {"cancel"}
    Stores = {"worker", "api"}
    StoreOf <- TwoProcesses
PROPERTY StaleSaveKeepsControl
CHECK_DEADLOCK FALSE
