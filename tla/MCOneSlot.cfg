CONSTANTS
    MaxClients = 1
    QueueSize = 1
    Batch = 1
    MaxSockets = 2
    MaxHandles = 2
    MaxLocal = 2
    MaxOwner = 2
    Ids = {id1, id2}
    Ops = {"HELLO", "SOCKET", "LISTEN", "ACCEPT", "CLOSE", "OTHER"}
SPECIFICATION Spec
SYMMETRY IdSymmetry
INVARIANTS
    HandlesValid
    NoOrphans
    AnswersFit
CHECK_DEADLOCK FALSE
