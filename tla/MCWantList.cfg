SPECIFICATION Spec
CONSTANTS
    c1 = c1
    c2 = c2
    c3 = c3
    Nil = Nil
    Cids = {c1, c2, c3}
    Priorities = {0, 250}
    MaxWants = 2
    Timeout = 1
    Deadlines = {1, 3}
    UrgentWindow = 2
    HighWindow = 3
    MaxBatch = 2
    MaxVersion = 3
    MaxAttempts = 1
    MaxTime = 1
SYMMETRY Sym
INVARIANTS
    NoLostWant
    ScheduleFaithful
PROPERTIES
    BoostSynchronises
    ImplementsQueue
