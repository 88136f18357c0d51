SPECIFICATION Spec
CONSTANTS
    c1 = c1
    c2 = c2
    None = None
    Job = {j1}
    ApprovalId = {a1, a2, a3}
    Change <- Changes
    Proposal <- Mixed
    Redacted <- Deep
    MaxConcurrent = 1
    StoreLimit = 1
    ApprovalTimeout = TRUE
    DiskMayFail = FALSE
    MaxCycle = 1
    MaxCrashes = 1
SYMMETRY Interchangeable
INVARIANTS
    TypeOK
    ApprovalInv
    ConsentedSubmission
    PendingIsLive
PROPERTIES
    OneShotApproval
CHECK_DEADLOCK FALSE
