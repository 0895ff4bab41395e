CONSTANTS
    MaxEpoch = 2
    MaxLanes = 1
    MaxSessions = 2
    MaxTurns = 2
    MaxRuns = 2
    MaxClaims = 2
SPECIFICATION SessionSpec
INVARIANTS
    ClosedIsComplete
    LearnedOnce
PROPERTIES
    NothingUnsummarised
    ImplementsSessions
CHECK_DEADLOCK FALSE
