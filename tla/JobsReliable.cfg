SPECIFICATION FairSpec
CONSTANTS
    Jobs = {j1, j2}
    Workers = {w1, w2}
    NoWorker = NoWorker
    NoJob = NoJob
    TotalAttempts = 3
    MaxStalled = 1
    FaultKinds <- ReliableFaults
    MaxFaults = 2
INVARIANTS
    AnnouncementIsTrue
    SettledAgreement
PROPERTIES
    ContractSpec
    RejectedJobIsFailed
    RequestsAnswered
    AcceptedJobsSettle
CHECK_DEADLOCK FALSE
