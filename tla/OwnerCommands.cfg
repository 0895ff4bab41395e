CONSTANTS
    Actions <- CommandActions
    TTL = 1
    MaxTokens = 2
    MaxTime = 2
    MaxRecords = 3
    MaxSessions = 2
    MaxEpoch = 2
    MaxFaults = 1
    None = None
SPECIFICATION LiveCommandSpec
INVARIANTS
    OneDecision
    OneDeedPerReceipt
PROPERTIES
    ClosesWhatWasAsked
    ConfirmedIsAnswered
CHECK_DEADLOCK FALSE
