SPECIFICATION Spec
CONSTANTS
    RetryCount = 2
    Timeout = 5
    MinTimeout = 4
    Rounds = 2
    MaxEvents = 3
INVARIANTS
    TypeOK
    IInv
    WithinTime
