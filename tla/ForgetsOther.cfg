CONSTANTS
    Actions <- CommandActions
    TTL = 1
    MaxTokens = 2
    MaxTime = 1
    MaxRecords = 3
    MaxSessions = 1
    MaxEpoch = 1
    MaxFaults = 0
    None = None
SPECIFICATION CommandSpec
PROPERTY ForgetsWhatWasShown
CHECK_DEADLOCK FALSE
