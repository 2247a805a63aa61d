SPECIFICATION FairSpec
CONSTANTS
    PendingMax = 2
    QueueMax = 2
    MaxRequests = 2
    Capacity = 1
    BurstSize = 2
    Keys = {k1, k2}
    PacketPool = 3
INVARIANTS OwnedOnce NobodyWaitsForKnown RequestsPaced
PROPERTIES ParkedLeave
