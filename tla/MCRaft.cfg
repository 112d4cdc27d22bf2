SPECIFICATION RSpec
CONSTANTS
    a = a
    b = b
    k = k
    Self = self
    NoNode = none
    Peers <- MCPeers
    Keys = {k}
    MaxTerm = 3
    Histories <- MCHistories
    CappedCommit = TRUE
INVARIANTS
    LogIsALeaders
    CommitIsCommitted
    OneGrantPerTerm
    StoreIsReplay
    ConflictHintSound
PROPERTIES
    CommittedStays
    CommittedIsApplied
