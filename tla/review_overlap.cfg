CONSTANTS
    Workers = {w1, w2}
    Keys = {k1}
    MaxCaseOps = 2
    NoRecord = NoRecord
    NoCase = NoCase
    Handlers = {h1}
    Poller = poller
    MaxVersion = 3
    MaxOps = 1
    MaxFails = 1
    NoSignoff = NoSignoff
    NoJob = NoJob
    NoView = NoView
SPECIFICATION ReviewSpec
CHECK_DEADLOCK FALSE
SYMMETRY WorkerSymmetry
INVARIANTS
    GateShowsReviewedContent
PROPERTIES
    ImplementsSignoff
