SPECIFICATION PSpec
CONSTANTS
    Peers = {p1, p2}
    Cids = {c1}
    MaxFailures = 2
    MaxConcurrent = 1
    LongBan = 2
    ShortBan = 1
    ManualBans = {3, Forever}
    Forever = Forever
    Absent = Absent
    MaxActive = 2
    MaxClock = 3
SYMMETRY Symmetry
INVARIANTS
    BannedAreGone
PROPERTIES
    BansStand
