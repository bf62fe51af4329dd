SPECIFICATION FairSpec
CONSTANTS
    MinStops = 2
    MaxStops = 4
    NoRoute = NoRoute
    Extracts <- MCExtracts
    InsertBatchSize = 2
    Situations <- MCSituations
    SyncStopLimit = 3
    SnapRadius = 12
    CandidateLimit = 2
    Precision = 2
INVARIANTS
    RequestsTypeOK
    NoImprovingSwapLeft
    SnappedPointsHaveRoutes
    RouteIsDrivable
    ReplacementIsAtomic
PROPERTIES
    TourSpec
    SnapsToNearestRoad
    RequestsAreAnswered
    IngestionEnds
CHECK_DEADLOCK FALSE
