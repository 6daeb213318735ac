CONSTANTS
    Callers = {c1}
    Jobs = {j1}
    Existing = {t1}
    Fresh = {t2}
    NumAmendments = 1
    MaxErrors = 0
    NoTarget = NoTarget
    NoJob = NoJob
    Absent = Absent
    Blank = Blank
    Original = Original
    Rows <- MCRows
SPECIFICATION Spec
INVARIANTS
    AddedIsEmptied
CHECK_DEADLOCK FALSE
