CONSTANTS
    maxBufLen = 200
    minRequestHeaderBuffer = 8
    minResponseHeaderBuffer = 2
    freelistMaxDepth = 1
    MaxWaits = 2
    MaxGoros = 4
    Paths <- MCPaths
    Scenarios <- Used
SPECIFICATION Spec
INVARIANTS
    ResponseIsWhole
    RequestIsExact
    BodyInOrder
    RoutedRightly
    EveryConnectionHasItsExchange
PROPERTIES
    EveryConnectionEnds
CHECK_DEADLOCK FALSE
