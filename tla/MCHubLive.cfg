SPECIFICATION FairSpec
CONSTANTS
    laptop = laptop
    desktop = desktop
    laptop1 = laptop1
    laptop2 = laptop2
    desktop1 = desktop1
    k = k
    NoConn = NoConn
    Devices = {laptop, desktop}
    Conns = {laptop1, laptop2, desktop1}
    Device <- MCDevice
    Keys = {k}
    Policies <- MCPolicies
    Targets <- MCTargets
    MaxQueued = 0
    MaxEvents = 0
    MaxClears = 0
PROPERTIES
    ConnectionsEnd
CHECK_DEADLOCK FALSE
