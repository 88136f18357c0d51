SPECIFICATION FairSpec
CONSTANTS
    Timeout = 3
    Heartbeat = 2
    MaxTime = 5
INVARIANTS
    TypeOK
    OutcomeIsTrue
PROPERTIES
    NoLateStart
    StageEnds
CHECK_DEADLOCK FALSE
