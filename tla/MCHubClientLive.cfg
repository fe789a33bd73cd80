SPECIFICATION FairSpec
CONSTANTS
    first = first
    second = second
    strict = strict
    loose = loose
    mac = mac
    Sockets = {first, second}
    NoSocket = NoSocket
    Policies = {strict}
    NoPolicy = NoPolicy
    Peers = {mac}
    MaxAttempts = 2
    MaxSlow = 0
    MaxRefused = 1
    MaxFaults = 1
    MaxWakes = 1
    MaxChanges = 0
    MaxMoves = 1
    MaxEvents = 0
PROPERTIES
    BecomesConnected
CHECK_DEADLOCK FALSE
