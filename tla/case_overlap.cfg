CONSTANTS
    Workers = {w1, w2}
    Keys = {k1}
    MaxOps = 5
    NoRecord = NoRecord
    NoCase = NoCase
SPECIFICATION Spec
SYMMETRY WorkerSymmetry
CHECK_DEADLOCK FALSE
INVARIANTS
    TypeOK
    ArchivedStamped
    NoStageSkipped
    LogIsTruthful
    HistoryReplaysState
PROPERTIES
    UncontendedWritesAreLegal
    ImplementsCaseMachine
