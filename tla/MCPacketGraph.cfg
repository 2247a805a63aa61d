SPECIFICATION FairSpec
CONSTANTS
    PoolSize = 3
    FrameSize = 2
    PacketPool = 4
    Ports = 2
    MaxEmits = 2
INVARIANTS OwnedOnce InOrder SendTruthful
PROPERTY GraphDrains
