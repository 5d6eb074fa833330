SPECIFICATION Spec
CONSTANTS
    w1 = w1
    w2 = w2
    u1 = u1
    u2 = u2
    Jobs <- OneJob
    Workers <- OneWorker
    Users <- TwoUsers
    Founders <- OneFounder
    Skew <- InStep
    LeaseDuration = 3
    RenewInterval = 1
    RetryDelays <- Delays
    MaxAttempts = 3
    MaxClock = 6
INVARIANT AttemptsBounded
CHECK_DEADLOCK FALSE
