SPECIFICATION RSpec
CONSTANTS
    a = a
    b = b
    k = k
    Self = self
    NoNode = none
    Peers <- MCPeers
    Keys = {k}
    MaxTerm = 3
    Histories <- MCHistories
    CappedCommit = FALSE
INVARIANTS
    CommitIsCommitted
