CONSTANTS
    r1 = r1
    r2 = r2
    NoHash = NoHash
    NoId = NoId
    Requests <- OneRequest
    Shapes <- Probes
    PasswordOf <- MCPasswordOf
    DummyPassword = "dummy"
    StoredKinds = {"argon2id_old"}
    Environments <- MCEnvironments
    MaxOutages = 0
    MaxStops = 1
SPECIFICATION Spec
INVARIANTS
    StoppingIsNotReady
CHECK_DEADLOCK FALSE
