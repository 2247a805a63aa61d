CONSTANTS
    BufferSize = 1
    MaxRetries = 1
    Mss = 1
    SeqMod = 16
    InitialSeq <- OneIncarnation
    MaxSend <- ClientSends1
    RouteFails = FALSE
SPECIFICATION FairSpec
PROPERTY
    SlotsComeBack
CHECK_DEADLOCK FALSE
