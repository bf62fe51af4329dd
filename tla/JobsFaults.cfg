SPECIFICATION FairSpec
CONSTANTS
    Jobs = {j1}
    Workers = {w1, w2}
    NoWorker = NoWorker
    NoJob = NoJob
    TotalAttempts = 3
    MaxStalled = 1
    FaultKinds <- EveryFault
    MaxFaults = 3
INVARIANTS
    TypeOK
    ResultIntegrity
    RetriesBeforeFailure
    BoundedWork
    ResultStands
    LockDiscipline
PROPERTIES
    QueueSettles
CHECK_DEADLOCK FALSE
