SPECIFICATION FairBridgeSpec
CONSTANTS
    Thread = {u1, u2}
    NoThread = NoThread
    Result = {0, 1}
    Distance <- MCDistance
    MaxRequests = 3
    MaxStarts = 2
INVARIANTS
    BridgeTypeOK
    ResponseIsOwn
    CacheIsLatestOrCleared
PROPERTIES
    EveryRequestEnds
    RefinesService
CHECK_DEADLOCK FALSE
