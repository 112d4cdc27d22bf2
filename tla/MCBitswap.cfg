SPECIFICATION BsSpec
CONSTANTS
    Peers = {p1, p2}
    Cids = {c1, c2}
    MaxFailures = 2
    MaxConcurrent = 1
    LongBan = 2
    ShortBan = 1
    ManualBans = {}
    Forever = Forever
    Absent = Absent
    MaxActive = 3
    MaxClock = 1
    Threads = {t1, t2}
    Dispatchers = {t1, t2}
    Ops = {"want", "update", "cancel", "next", "request", "block", "failure", "have", "dontHave", "cleanup"}
    Priorities = {1, 2}
    MaxWants = 1
    MaxPeers = 1
    StoreFails = TRUE
    MaxCalls = 4
CHECK_DEADLOCK FALSE
INVARIANTS
    BsTypeOK
    OwedIsKept
    LoadBounded
