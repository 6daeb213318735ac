CONSTANTS
    Providers = {p1, p2}
    Clients = {e1}
    NumVersions = 3
    MaxDraws = 4
    MaxErrors = 1
    MaxRestarts = 1
    NoKey = NoKey
SPECIFICATION Spec
SYMMETRY RotationSymmetry
INVARIANTS
    EnvelopesOpen
    ActiveIsNewest
    RotationLeavesKey
    RevocationSticks
CHECK_DEADLOCK FALSE
