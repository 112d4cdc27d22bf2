SPECIFICATION QSpec
CONSTANTS
    Callers = {u1, u2, u3, u4}
    max_waiters_per_request = 3
    Workers = 2
    MaxCalls = 5
INVARIANTS
    PendingIsFetched
    WaiterHasSender
PROPERTIES
    WaitersAreAnswered
CHECK_DEADLOCK FALSE
