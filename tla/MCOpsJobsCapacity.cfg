SPECIFICATION Spec
CONSTANTS
    c1 = c1
    c2 = c2
    None = None
    Job = {j1, j2, j3}
    ApprovalId = {a1}
    Change <- Changes
    Proposal <- Single
    Redacted <- Deep
    MaxConcurrent = 2
    StoreLimit = 3
    ApprovalTimeout = FALSE
    DiskMayFail = FALSE
    MaxCycle = 0
    MaxCrashes = 1
SYMMETRY Interchangeable
INVARIANTS
    ConcurrencyBound
    StatusTracksTask
    UnfinishedJobsSaved
CHECK_DEADLOCK FALSE
