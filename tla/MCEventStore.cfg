SPECIFICATION FairSpec
CONSTANTS
    a = a
    x = x
    y = y
    z = z
    Identities = {a}
    NoIdentity = NoIdentity
    Signatures = {x, y, z}
    Size <- MCSize
    MaxEntries = 2
    MaxBytes = 3
    MaxAge = 1
    ReceiptAge = 0
    MaxReceipts = 1
    MaxQueued = 2
    MaxClock = 2
    MaxJobs = 3
    MaxFaults = 2
    MaxCrashes = 1
INVARIANTS
    TypeOK
    Durable
    AckedSurvives
    NoResurrection
    FileSound
PROPERTIES
    RefinesLog
    StoreGoesOn
