SPECIFICATION Spec
CONSTANTS
    n1 = n1
    Nodes = {n1}
    Requests = {"pause", "resume"}
    Stores = {"worker", "api"}
    StoreOf <- TwoProcesses
PROPERTY RevisionsAreSerial
CHECK_DEADLOCK FALSE
