SPECIFICATION RSpec
SYMMETRY Symmetry
CONSTANTS
    r1 = r1
    r2 = r2
    x = x
    Cids = {r1, r2, x}
    Links <- MCLinks
    Stores <- MCStores
    Threads = {t1, t2}
    PinOps = {"Direct", "Recursive", "unpin", "clear", "put"}
    MaxCalls = 3
    MaxBlocks = {2}
    MaxGcs = 1
    MaxEvents = 4
INVARIANTS
    GTypeOK
    IndirectIsUnion
    CoveredUntilLoad
    ReachableSurvives
    SavedPinsProtect
CHECK_DEADLOCK FALSE
