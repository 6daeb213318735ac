CONSTANTS
    Handlers = {h1, h2}
    Poller = poller
    MaxVersion = 3
    MaxOps = 2
    MaxFails = 1
    NoSignoff = NoSignoff
    NoJob = NoJob
SPECIFICATION Spec
SYMMETRY HandlerSymmetry
INVARIANTS
    TypeOK
    ReReviewSettles
    RecordIsExplained
    ReversionIsAnnounced
PROPERTIES
    UncontendedWritesRespectDecisions
