CONSTANTS
    MaxClients = 1
    QueueSize = 1
    Batch = 1
    MaxSockets = 1
    MaxHandles = 1
    MaxLocal = 1
    MaxOwner = 2
    Ids = {id1, id2}
    Ops = {"HELLO", "SOCKET", "CLOSE"}
SPECIFICATION FairSpec
PROPERTIES
    SessionsEnd
    StopCompletes
CHECK_DEADLOCK FALSE
