CONSTANTS
    MaxEpoch = 1
    MaxAttempts = 2
    MaxLanes = 1
    MaxSessions = 2
    MaxTurns = 4
    MaxRuns = 2
    MaxClaims = 8
    Handlers = {h1}
    Closers = {c1}
    Boot = Boot
    MaxMessages = 2
    MaxCloses = 1
    MaxFaults = 0
    MaxCrashes = 0
SPECIFICATION MemorySpec
INVARIANT WorkedAfterDelivery
CHECK_DEADLOCK FALSE
