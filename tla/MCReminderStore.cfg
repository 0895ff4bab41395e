CONSTANTS
    MaxEpoch = 2
    Plans <- AllPlans
    ActionTokens = {tok}
    MaxTime = 4
    MaxTasks = 2
    LeaseSeconds = 2
    RetryDelay = 1
    SnoozeDelay = 2
    MaxAttempts = 2
    PollLimit = 1
    Unresolvable = Unresolvable
    None = None
SPECIFICATION Spec
INVARIANTS
    RunOutboxAgree
    FinishedTaskIsQuiet
    CursorExact
    StoreInvariant
PROPERTIES
    OutcomeIsFinal
    ImplementsLedger
CONSTRAINT FewPairs
CHECK_DEADLOCK FALSE
