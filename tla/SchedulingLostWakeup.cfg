SPECIFICATION Spec
CONSTANTS
    a = a
    b = b
    Nobody = Nobody
    Instances <- OneInstance
    r1 = r1
    r2 = r2
    NoRun = NoRun
    NoTimer = NoTimer
    Jobs <- OneJob
    Runs <- TwoRuns
    BatchSize = 2
    MaxAttempts = 1
    MaxFaults = 0
    MaxRestarts = 0
PROPERTY JobIsConsumed
CHECK_DEADLOCK FALSE
