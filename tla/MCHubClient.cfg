SPECIFICATION Spec
CONSTANTS
    first = first
    second = second
    strict = strict
    loose = loose
    mac = mac
    Sockets = {first, second}
    NoSocket = NoSocket
    Policies = {strict, loose}
    NoPolicy = NoPolicy
    Peers = {mac}
    MaxAttempts = 2
    MaxSlow = 1
    MaxRefused = 1
    MaxFaults = 1
    MaxWakes = 1
    MaxChanges = 2
    MaxMoves = 0
    MaxEvents = 1
SYMMETRY MCSymmetry
INVARIANTS
    EnforcedWhenReady
    FilteredOnceSettled
CHECK_DEADLOCK FALSE
