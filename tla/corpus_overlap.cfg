CONSTANTS
    Callers = {c1, c2}
    Jobs = {j1}
    Existing = {t1}
    Fresh = {t2}
    NumAmendments = 2
    MaxErrors = 1
    NoTarget = NoTarget
    NoJob = NoJob
    Absent = Absent
    Blank = Blank
    Original = Original
    Rows <- MCRows
SPECIFICATION Spec
SYMMETRY CorpusSymmetry
INVARIANTS
    RollbackRestores
    AppliedWasValidated
    AppliedIsComplete
CHECK_DEADLOCK FALSE
