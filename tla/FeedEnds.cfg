SPECIFICATION FairFeedSpec
CONSTANTS
    Jobs = {j1}
    Workers = {w1}
    NoWorker = NoWorker
    NoJob = NoJob
    TotalAttempts = 2
    MaxStalled = 1
    FaultKinds <- FeedFaults
    MaxFaults = 1
    Sockets = {s1}
    NoSocket = NoSocket
INVARIANTS
    FeedTypeOK
PROPERTIES
    EndIsHeard
CHECK_DEADLOCK FALSE
