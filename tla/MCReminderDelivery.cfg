CONSTANTS
    MaxEpoch = 2
    Plans <- OneOfEach
    ActionTokens = {tok}
    MaxTime = 3
    MaxTasks = 1
    LeaseSeconds = 1
    RetryDelay = 1
    SnoozeDelay = 3
    MaxAttempts = 2
    PollLimit = 1
    MaxAbandons = 1
    Unresolvable = Unresolvable
    None = None
SPECIFICATION LiveDeliverySpec
INVARIANTS
    BoundedMessages
    DeliveredWasAccepted
PROPERTIES
    StoreContract
    SendsOnlyOpenRuns
    AcceptedIsRecorded
    RunSettlesOrStrands
    DueJobsAdvance
    ResetCompletesOrRaised
CHECK_DEADLOCK FALSE
