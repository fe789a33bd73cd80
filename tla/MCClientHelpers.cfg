SPECIFICATION HelpersSpec
CONSTANTS
    Hubs = {a, b}
    Direct = Direct
    MaxChanges = 3
    MaxAccidents = 4
    MaxWindows = 2
    MaxRequests = 2
    MaxLines = 2
    MaxMishaps = 2
    MaxTries = 2
    MaxWrites = 2
    MaxCopies = 1
INVARIANTS
    OneProcess
    FollowsSettings
    NeverOlder
    PastedOnce
PROPERTIES
    StaysStopped
    PastesAsMeant
    HelpersRecover
CHECK_DEADLOCK FALSE
