SPECIFICATION Spec
CONSTANTS
    Jobs = {j1}
    Workers = {w1, w2}
    NoWorker = NoWorker
    NoJob = NoJob
    TotalAttempts = 3
    MaxStalled = 1
    FaultKinds <- CrashOnly
    MaxFaults = 1
PROPERTIES
    TerminalIsFinal
CHECK_DEADLOCK FALSE
