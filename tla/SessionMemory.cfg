CONSTANTS
    MaxEpoch = 1
    MaxAttempts = 2
    MaxLanes = 1
    MaxSessions = 2
    MaxTurns = 4
    MaxRuns = 2
    MaxClaims = 8
    Handlers = {h1, h2}
    Closers = {c1}
    Boot = Boot
    MaxMessages = 2
    MaxCloses = 1
    MaxFaults = 1
    MaxCrashes = 1
SPECIFICATION LiveMemorySpec
INVARIANTS
    SoleWorker
    QuietMeansReleased
    ExhaustedHasCause
PROPERTIES
    KeepsSessionContract
    ExhaustedStays
    ComesToRest
CHECK_DEADLOCK FALSE
