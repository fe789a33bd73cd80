SPECIFICATION FairSpec
CONSTANTS
    text = text
    png = png
    jpeg = jpeg
    large = large
    Nothing = Nothing
    Contents = {text, png, jpeg, large}
    Large = {large}
    ReadsAs <- MCReadsAs
    MaxAttempts = 2
    MaxActs = 2
    MaxPeers = 1
    MaxMishaps = 2
INVARIANTS
    NoEcho
    StoredOnce
    Converges
    Delivered
PROPERTY Settles
CHECK_DEADLOCK FALSE
