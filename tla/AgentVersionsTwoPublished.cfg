SPECIFICATION Spec
CONSTANTS
    c1 = c1
    c2 = c2
    t1 = t1
    Clients = {c1, c2}
    Tools = {}
    MaxVersions = 2
    NoTool = NoTool
SYMMETRY Symmetry
CHECK_DEADLOCK FALSE
INVARIANTS
    OnePublishedVersion
