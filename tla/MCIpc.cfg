SPECIFICATION IpcSpec
CONSTANTS
    Size = 2
    Wrap = 4
    Words = 2
    Values = {0, 1}
    Zero = 0
    NoItem = NoItem
    Processes = {"parent", "child"}
    First = "parent"
    Ids = 3
    PayloadMax = 2
    DatagramHeader = 1
    Calls <- MCCalls
    MaxSessions = 2
    MaxRequests = 3
    Timeout = 3
    HeaderSize = 2
    MaxPayload = 2
    RingSize = 2
    Monitors = {m1}
    Groups = {"link", "neigh"}
    MaxEvents = 3
    Places = 2
    MaxOwners = 4
INVARIANTS
    RoomStays
    EventsAccounted
    RowsNameSessions
PROPERTIES
    ImplementsFifo
    AnswersOwn
    CallsReturn
    AbandonedReleased
    EventsReach
CHECK_DEADLOCK FALSE
