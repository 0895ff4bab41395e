CONSTANTS
    MaxEpoch = 2
    Plans <- OncePlan
    ActionTokens <- TwoTokens
    MaxTokens = 2
    TTL = 1
    MaxTime = 3
    MaxTasks = 1
    LeaseSeconds = 1
    RetryDelay = 1
    SnoozeDelay = 1
    MaxAttempts = 1
    PollLimit = 1
    Unresolvable = Unresolvable
    None = None
SPECIFICATION ActionsSpec
INVARIANTS
    RunsOnlyIfConfirmed
    EffectsLast
    SnoozeOnce
PROPERTIES
    KeepsStoreContract
    KeepsReceiptContract
CHECK_DEADLOCK FALSE
