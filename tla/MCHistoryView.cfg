SPECIFICATION ClientsSpec
CONSTANTS
    MaxEvents = 3
    MaxClears = 1
    MaxDrops = 1
    MaxFailures = 1
    MaxAsked = 2
    MaxMacAsked = 1
    MaxMacFailures = 1
INVARIANTS
    ListIsCurrent
    ClearsHold
PROPERTIES
    AllSettle
CHECK_DEADLOCK FALSE
