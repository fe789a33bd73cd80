SPECIFICATION LiveSpec
CONSTANTS
    text = text
    png = png
    encoded = encoded
    Contents = {text, encoded}
    Nothing = Nothing
    Look <- MCLook
    ReadsAs <- MCReadsAs
    MaxAttempts = 2
    MaxUnconfirmed = 2
    MaxActs = 1
    MaxPeers = 1
    MaxLate = 1
    MaxFaults = 1
    MaxDrops = 1
    MaxChanges = 0
PROPERTIES
    Settles
CHECK_DEADLOCK FALSE
