SPECIFICATION Spec
CONSTANTS
    r1 = r1
    r2 = r2
    t1 = t1
    c1 = c1
    c2 = c2
    Rows = {r1, r2}
    MaxClicks = 3
    MaxRevision = 1
    None = None
    Texts = {t1}
    Connections = {c1, c2}
    Blank = Blank
    New = New
    Missing = Missing
    MaxEdits = 5
    MaxTurns = 3
    Nobody = Nobody
SYMMETRY Symmetry
INVARIANTS
    ReadsItsWrites
    BusyIsUnderWay
    SavedAsClicked
    ClearedStaysCleared
CHECK_DEADLOCK FALSE
