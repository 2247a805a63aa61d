CONSTANTS
    BufferSize = 1
    MaxRetries = 1
    Mss = 1
    SeqMod = 16
    InitialSeq <- TwoIncarnations
    MaxSend <- ClientSends1
    RouteFails = TRUE
SPECIFICATION Spec
CONSTRAINT SomeEnd
INVARIANTS
    StreamTrue
    NoStall
CHECK_DEADLOCK FALSE
