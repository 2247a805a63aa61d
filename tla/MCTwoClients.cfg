CONSTANTS
    MaxClients = 2
    QueueSize = 2
    Batch = 2
    MaxSockets = 1
    MaxHandles = 1
    MaxLocal = 1
    MaxOwner = 2
    Ids = {id1, id2}
    Ops = {"HELLO", "SOCKET", "CLOSE"}
SPECIFICATION Spec
SYMMETRY IdSymmetry
INVARIANTS
    OneOutstanding
    NoLostWakeup
CHECK_DEADLOCK FALSE
