SPECIFICATION Spec
CONSTANTS
    MaxRetries = 3
    Models <- ThreeModels
    Limit = 2
    Loop = {"b1", "b2"}
    MaxTests = 1
    MaxOrders = 3
    MaxAsks = 2
    MaxSessions = 2
    MaxPieces = 2
    MaxLines = 3
    DataCap = 1
    Request = {"a", "b"}
    MaxNum = 2
    Duration = 2
    Expiry = 2
    MaxTime = 3
INVARIANTS
    TypeOK ScreensTrue StreamComplete LimitsHold
PROPERTIES
    WaitsEnd
CHECK_DEADLOCK FALSE
