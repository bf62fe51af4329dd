SPECIFICATION Spec
CONSTANTS
    Jobs = {j1}
    Workers = {w1, w2}
    NoWorker = NoWorker
    NoJob = NoJob
    TotalAttempts = 3
    MaxStalled = 1
    FaultKinds <- RefusalOnly
    MaxFaults = 1
INVARIANTS
    GivenUpIsFailed
CHECK_DEADLOCK FALSE
