SPECIFICATION Spec
CONSTANTS
    MinStops = 1
    MaxStops = 2
    SyncStops = 1
    Places = {home}
    NoPlace = NoPlace
    Addresses = {street}
    NoAddress = NoAddress
    NoRequest = NoRequest
    MaxInputs = 4
    JobIds = {j1, j2}
    NoJob = NoJob
    MaxRepeats = 1
INVARIANTS
    VisitPositionsMatchMap
CHECK_DEADLOCK FALSE
