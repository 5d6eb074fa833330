SPECIFICATION Spec
CONSTANTS
    a = a
    b = b
    Nobody = Nobody
    Instances <- TwoInstances
    r1 = r1
    r2 = r2
    NoRun = NoRun
    NoTimer = NoTimer
    Jobs <- TwoJobs
    Runs <- OneRun
    BatchSize = 1
    MaxAttempts = 1
    MaxFaults = 0
    MaxRestarts = 0
PROPERTIES
    ScanReachesJob
    EveryLoopEnds
CHECK_DEADLOCK FALSE
