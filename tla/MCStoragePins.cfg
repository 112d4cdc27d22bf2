SPECIFICATION SpSpec
CONSTANTS
    r = r
    s = s
    x = x
    Cids = {r, s, x}
    Links <- MCLinks
    Threads = {t1, t2}
    MaxCalls = 6
INVARIANTS
    HeldIsPinned
    ReferenceIsKept
CHECK_DEADLOCK FALSE
