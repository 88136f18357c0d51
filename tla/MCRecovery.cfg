SPECIFICATION MCSpec
CONSTANTS
    Grace = 1
    Timeout = 2
    Interval = 1
    Look = 1
    Stabilities = {0, 4}
    Assessed = 2
    Namesakes = {"absent", "ready"}
    Plans <- MCPlans
    MaxMoves = 2
INVARIANTS CheckTypeOK RecoveredWasProven RelapseWithdraws
CHECK_DEADLOCK FALSE
PROPERTIES VerificationEnds
