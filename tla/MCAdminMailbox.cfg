SPECIFICATION FairSpec
CONSTANTS
    MaxConnections = 3
    None = None
    MaxChanges = 1
    Blocks = {b1, b2}
INVARIANTS SnapshotsOwned AnswersTrue
PROPERTIES RequestsServed StopCompletes
CHECK_DEADLOCK FALSE
