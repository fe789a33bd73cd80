SPECIFICATION Spec
CONSTANTS
    laptop = laptop
    desktop = desktop
    laptop1 = laptop1
    laptop2 = laptop2
    desktop1 = desktop1
    k = k
    NoConn = NoConn
    Devices = {laptop, desktop}
    Conns = {laptop1, laptop2, desktop1}
    Device <- MCDevice
    Keys = {k}
    Policies <- MCPolicies
    Targets <- MCTargets
    MaxQueued = 1
    MaxEvents = 1
    MaxClears = 1
INVARIANTS
    RegistryConsistent
    DevicesFresh
    ClearedIsGone
    QueueExact
PROPERTIES
    StaleNeverEvicts
    RefusedNeverSent
    LiveIsInHistory
SYMMETRY MCSymmetry
CHECK_DEADLOCK FALSE
