SPECIFICATION Spec
CONSTANTS
    text = text
    png = png
    encoded = encoded
    Contents = {text, png, encoded}
    Nothing = Nothing
    Look <- MCLook
    ReadsAs <- MCReadsAs
    MaxAttempts = 2
    MaxUnconfirmed = 2
    MaxActs = 2
    MaxPeers = 1
    MaxLate = 1
    MaxFaults = 1
    MaxDrops = 1
    MaxChanges = 1
INVARIANTS
    GuardExact
    Converges
CONSTRAINT FewTroubles
CHECK_DEADLOCK FALSE
