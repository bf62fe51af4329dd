CONSTANTS
    Nodes <- MCNodes
    NoNode = NoNode
    Queries <- MCQueries
SPECIFICATION Spec
INVARIANTS
    SearchTypeOK
    QueueIsOrdered
    RoutableIsLargestComponent
    Shortest
    OnlyPromising
    RoutablePairsHaveRoutes
CHECK_DEADLOCK FALSE
