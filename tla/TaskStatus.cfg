SPECIFICATION Spec
CONSTANTS
    t1 = t1
    a = a
    b = b
    c = c
    Tasks <- OneTask
    Requests <- ThreeRequests
    NoRequest = NoRequest
    MaxExpected = 3
INVARIANTS
    TypeOK
    HistoryIsChain
    OutboxMatchesHistory
    RepliesAreTrue
PROPERTIES
    DoneIsFinal
    UpdatesAreAtomic
    EveryRequestIsAnswered
CHECK_DEADLOCK FALSE
