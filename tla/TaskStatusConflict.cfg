SPECIFICATION Spec
CONSTANTS
    t1 = t1
    a = a
    b = b
    c = c
    Tasks <- OneTask
    Requests <- TwoRequests
    NoRequest = NoRequest
    MaxExpected = 1
PROPERTY LoserGetsConflict
CHECK_DEADLOCK FALSE
