CONSTANTS
    Drivers = {d1}
    NumStages = 8
    MaxStarts = 1
    MaxCalls = 3
    MaxErrors = 1
    MaxFaults = 1
    MaxDeletes = 0
    MayExpire = TRUE
    NoRun = NoRun
    NoCheckpoint = NoCheckpoint
SPECIFICATION FairSpec
PROPERTIES
    CompletedGrows
    ResumedRunEnds
CHECK_DEADLOCK FALSE
