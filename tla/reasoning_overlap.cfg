CONSTANTS
    Drivers = {d1, d2}
    NumStages = 3
    MaxStarts = 2
    MaxCalls = 3
    MaxErrors = 1
    MaxFaults = 1
    MaxDeletes = 1
    MayExpire = FALSE
    NoRun = NoRun
    NoCheckpoint = NoCheckpoint
SPECIFICATION Spec
SYMMETRY DriverSymmetry
INVARIANTS
    TypeOK
    SkippedAreReadable
    InputsAreReal
    OutputsBelongTogether
    PaidOnce
CHECK_DEADLOCK FALSE
