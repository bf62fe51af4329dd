SPECIFICATION FeedSpec
CONSTANTS
    Jobs = {j1}
    Workers = {w1}
    NoWorker = NoWorker
    NoJob = NoJob
    TotalAttempts = 1
    MaxStalled = 1
    FaultKinds <- RoomFaults
    MaxFaults = 1
    Sockets = {s1, s2}
    NoSocket = NoSocket
SYMMETRY SocketSymmetry
INVARIANTS
    RoomsAreExact
    AnnouncedRouteExists
CHECK_DEADLOCK FALSE
