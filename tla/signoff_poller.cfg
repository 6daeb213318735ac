CONSTANTS
    Handlers = {h1}
    Poller = poller
    MaxVersion = 3
    MaxOps = 3
    MaxFails = 1
    NoSignoff = NoSignoff
    NoJob = NoJob
SPECIFICATION FairSpec
PROPERTIES
    StaleApprovalIsReverted
