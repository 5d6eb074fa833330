SPECIFICATION Spec
CONSTANTS
    w1 = w1
    w2 = w2
    u1 = u1
    u2 = u2
    Jobs <- OneJob
    Workers <- TwoWorkers
    Users <- TwoUsers
    Founders <- OneFounder
    Skew <- Ahead
    LeaseDuration = 2
    RenewInterval = 1
    RetryDelays <- Delays
    MaxAttempts = 2
    MaxClock = 3
INVARIANTS
    TypeOK
    OneHolder
    CompletedReachedAudience
    NoEarlyGiveUp
PROPERTIES
    ReleasedByHolder
    TerminalIsFinal
    LiveLeaseNotStolen
    ImplementsDelivery
CHECK_DEADLOCK FALSE
