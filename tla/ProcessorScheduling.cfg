SPECIFICATION Spec
CONSTANTS
    a = a
    b = b
    Nobody = Nobody
    Instances <- OneInstance
    r1 = r1
    r2 = r2
    NoRun = NoRun
    NoTimer = NoTimer
    Jobs <- TwoJobs
    Runs <- TwoRuns
    BatchSize = 2
    MaxAttempts = 2
    MaxFaults = 1
    MaxRestarts = 1
INVARIANTS
    TypeOK
    OneLoop
    RetryTimerIsPending
    SetBackHasTimer
    AtMostOneLateClaim
PROPERTIES
    ProcessorLives
    ScanReachesJob
CHECK_DEADLOCK FALSE
