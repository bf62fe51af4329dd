SPECIFICATION FairSpec
CONSTANTS
    MinStops = 1
    MaxStops = 2
    SyncStops = 1
    Places = {home, work}
    NoPlace = NoPlace
    Addresses = {street, square}
    NoAddress = NoAddress
    NoRequest = NoRequest
    MaxInputs = 3
    JobIds = {j1, j2}
    NoJob = NoJob
    MaxRepeats = 1
INVARIANTS
    JobPageTypeOK
    RouteAnswersRequest
PROPERTIES
    WatchEnds
    SearchesEnd
CHECK_DEADLOCK FALSE
