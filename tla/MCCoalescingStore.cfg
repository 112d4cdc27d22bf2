SPECIFICATION CsSpec
CONSTANTS
    Blocks = {b1, b2, b3}
    Callers = {c1, c2}
    Background = bg
    max_batch_size = 2
    MaxCalls = 3
    MaxCrashes = 1
INVARIANTS
    AcceptedIsHeld
PROPERTIES
    PendingIsFlushed
CHECK_DEADLOCK FALSE
