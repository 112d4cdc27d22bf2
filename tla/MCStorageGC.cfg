SPECIFICATION SgSpec
SYMMETRY Symmetry
CONSTANTS
    r = r
    x = x
    Cids = {r, x}
    Links <- MCLinks
    Threads = {t1}
    MaxCalls = 2
    Tasks = {g1, g2, g3}
    Direct = {g2}
    Configs <- MCConfigs
    Stores <- MCStores
    MaxRuns = 2
INVARIANTS
    SgTypeOK
    CollectedBounded
    PinnedRetained
    FlagIsKept
CHECK_DEADLOCK FALSE
