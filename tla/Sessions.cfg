SPECIFICATION Spec
CONSTANTS
    t1 = t1
    t2 = t2
    p1 = p1
    Tabs = {t1, t2}
    Requests = {p1}
    MaxRows = 3
    MaxFaults = 1
    None = None
SYMMETRY Symmetry
INVARIANTS
    ExchangedOnce
    NoneFromEnded
    CookieIsLive
    SomethingToWaitFor
CHECK_DEADLOCK FALSE
