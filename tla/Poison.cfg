CONSTANTS
    MaxEpoch = 1
    Plans <- MixedPlans
    ActionTokens = {}
    MaxTime = 3
    MaxTasks = 2
    LeaseSeconds = 1
    RetryDelay = 1
    SnoozeDelay = 2
    MaxAttempts = 1
    PollLimit = 2
    MaxAbandons = 0
    Unresolvable = Unresolvable
    None = None
SPECIFICATION LiveDeliverySpec
PROPERTY SoundJobsAdvance
CHECK_DEADLOCK FALSE
