SPECIFICATION Spec
CONSTANTS
    b1 = b1
    b2 = b2
    d1 = d1
    d2 = d2
    Bases = {b1}
    Docs = {d1, d2}
    Lengths = {0, 5, 9}
    Size = 4
    Overlap = 1
    MaxChunks = 2
    Passages = 1
    MaxFaults = 2
    None = None
SYMMETRY Symmetry
INVARIANTS
    TypeOK
    IInv
    FilesStay
    ReadyIsWhole
    ProcessingEnds
CHECK_DEADLOCK FALSE
