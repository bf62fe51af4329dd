SPECIFICATION FeedSpec
CONSTANTS
    Jobs = {j1}
    Workers = {w1}
    NoWorker = NoWorker
    NoJob = NoJob
    TotalAttempts = 2
    MaxStalled = 1
    FaultKinds <- NoFaults
    MaxFaults = 0
    Sockets = {s1}
    NoSocket = NoSocket
INVARIANTS
    QuietFeedIsCurrent
CHECK_DEADLOCK FALSE
