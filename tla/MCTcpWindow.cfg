CONSTANTS
    BufferSize = 2
    MaxRetries = 0
    Mss = 2
    SeqMod = 16
    InitialSeq <- OneIncarnation
    MaxSend <- ClientSends2
    RouteFails = FALSE
SPECIFICATION Spec
CONSTRAINT SomeEnd
INVARIANTS
    StreamTrue
    FlightCovers
CHECK_DEADLOCK FALSE
