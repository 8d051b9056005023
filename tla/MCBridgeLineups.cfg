CONSTANTS
    Channels = {c1, c2}
    Events = {e1, e2}
    None = None
    MaxLineups = 3
SPECIFICATION LineupsSpec
SYMMETRY Symmetry
INVARIANTS
    LineupsTypeOK
    StaleLineupNeverShown
    FreshLineupShown
