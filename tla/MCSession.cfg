SPECIFICATION SSpec
CONSTANTS
    t1 = t1
    t2 = t2
    t3 = t3
    c1 = c1
    c2 = c2
    Threads = {t1, t2, t3}
    Cids = {c1, c2}
    Ops <- AnyOps
    Usages <- AnyUsages
    MaxCalls = 5
INVARIANTS
    STypeOK
    NoLostWakeup
    CompletedMeansReported
    CompletesOnce
    AllReportedCompletes
PROPERTIES
    WaitersReturn
