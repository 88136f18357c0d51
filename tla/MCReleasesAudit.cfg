SPECIFICATION Spec
CONSTANTS
    None = None
    Release = {r1}
    Job = {k1, k2, k3}
    Candidate <- Files
    StoreLimit = 1
    MaxApprovals = 2
    MaxCrashes = 1
SYMMETRY Interchangeable
INVARIANTS
    TypeOK
    BlockedNeverRuns
    HistoryHappened
    RunsArePaid
CHECK_DEADLOCK FALSE
