CONSTANTS
    Callers = {c1, c2}
    NumEvents = 3
    MaxTime = 6
    Resolution = 2
    Floor = 1
    NoHash = NoHash
SPECIFICATION Spec
SYMMETRY ChainSymmetry
INVARIANTS
    BreaksAreLocal
    PurgeIsRecorded
CHECK_DEADLOCK FALSE
