SPECIFICATION Spec
CONSTANTS
    c1 = c1
    c2 = c2
    None = None
    Job = {j1, j2}
    ApprovalId = {a1, a2}
    Change <- Changes
    Proposal <- Single
    Redacted <- Deep
    MaxConcurrent = 2
    StoreLimit = 1
    ApprovalTimeout = TRUE
    DiskMayFail = TRUE
    MaxCycle = 0
    MaxCrashes = 1
SYMMETRY Interchangeable
PROPERTIES
    KeepsContract
    FinishedStaysFinished
    StopIsFinal
CHECK_DEADLOCK FALSE
