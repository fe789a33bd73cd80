SPECIFICATION Spec
CONSTANTS
    text = text
    png = png
    jpeg = jpeg
    large = large
    Nothing = Nothing
    Contents = {text, png}
    Large = {}
    ReadsAs <- MCReadsAs
    MaxAttempts = 6
    MaxActs = 2
    MaxPeers = 0
    MaxMishaps = 2
INVARIANT RepeatsHarmless
CHECK_DEADLOCK FALSE
