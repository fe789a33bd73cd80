SPECIFICATION Spec
CONSTANTS
    self = self
    p = p
    q = q
    i = i
    j = j
    Self = self
    Peers = {p, q}
    Ips = {i, j}
    Hidden = Hidden
    Home = i
    Addresses = {i, j, Hidden}
    MaxLists = 2
    MaxClicks = 2
    MaxFaults = 2
INVARIANTS
    ChoicesStand
    SendsAsChosen
    HubAgrees
    ShownAsApplied
CHECK_DEADLOCK FALSE
SYMMETRY Symmetry
