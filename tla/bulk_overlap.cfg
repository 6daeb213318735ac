CONSTANTS
    Callers = {c1, c2}
    NumRecords = 3
    Keys = {k1, k2}
    Invalid = Invalid
    Blank = Blank
    BatchSizes = {1, 2}
    MaxCalls = 6
    MaxErrors = 2
    NoRecord = NoRecord
SPECIFICATION Spec
SYMMETRY ImportSymmetry
INVARIANTS
    NothingSkipped
    ImportedOnce
    SettledJobAddsUp
    RollbackIsFinal
CHECK_DEADLOCK FALSE
