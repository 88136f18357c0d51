SPECIFICATION FairSpec
CONSTANTS
    c1 = c1
    c2 = c2
    None = None
    Job = {j1}
    ApprovalId = {a1, a2, a3, a4}
    Change <- Changes
    Proposal <- Rivals
    Redacted <- Deep
    MaxConcurrent = 1
    StoreLimit = 1
    ApprovalTimeout = FALSE
    DiskMayFail = FALSE
    MaxCycle = 1
    MaxCrashes = 0
PROPERTIES
    DecisionsTakeEffect
    AttemptsEnd
CHECK_DEADLOCK FALSE
