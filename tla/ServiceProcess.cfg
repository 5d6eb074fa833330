CONSTANTS
    r1 = r1
    r2 = r2
    NoHash = NoHash
    NoId = NoId
    Requests <- TwoRequests
    Shapes <- MCShapes
    PasswordOf <- MCPasswordOf
    DummyPassword = "dummy"
    StoredKinds = {"scrypt"}
    Environments <- MCEnvironments
    MaxOutages = 1
    MaxStops = 1
SPECIFICATION Spec
INVARIANTS
    TypeOK
    AnswersAgree
    LoginsAreTrue
    PasswordsKeepWorking
    LoginUpgradesHash
PROPERTIES
    EveryRequestEnds
    SignalEndsProcess
    ServiceComesBack
CHECK_DEADLOCK FALSE
