SPECIFICATION Spec
CONSTANTS
    r1 = r1
    r2 = r2
    r3 = r3
    p1 = p1
    p2 = p2
    Requests = {r1, r2}
    Processes = {p1, p2}
    Home <- MCHome
    RateLimit = 2
    RunLimit = 1
    Minute = 2
    RateTtl = 3
    LeaseTtl = 2
    MaxRun = 3
    Production = {p1, p2}
    MaxTime = 3
    MaxOutages = 0
CHECK_DEADLOCK FALSE
INVARIANTS
    NeverAboveRunLimit
