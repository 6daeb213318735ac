CONSTANTS
    Jobs = {j1}
    Workers = {w1}
    Callers = {c1}
    Submitters = {s1}
    Last = 3
    Capacity = 1
    MaxAttempts = 2
    MaxEnqueues = 1
    MaxCalls = 1
    MaxRestarts = 1
    NoStage = NoStage
    NoJob = NoJob
SPECIFICATION FairSpec
INVARIANTS
    AcceptedIsTaken
    CheckpointIsBacked
    FailedIsRecoverable
    RetriesAreBounded
PROPERTIES
    JobsSettle
CHECK_DEADLOCK FALSE
