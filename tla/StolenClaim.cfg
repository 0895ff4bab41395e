CONSTANTS
    MaxEpoch = 1
    MaxAttempts = 3
    MaxLanes = 1
    MaxSessions = 2
    MaxTurns = 2
    MaxRuns = 1
    MaxClaims = 8
    Handlers = {h1}
    Closers = {c1}
    Boot = Boot
    MaxMessages = 1
    MaxCloses = 1
    MaxFaults = 0
    MaxCrashes = 0
SPECIFICATION MemorySpec
INVARIANT OnlyFailuresExhaust
CHECK_DEADLOCK FALSE
