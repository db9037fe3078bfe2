SPECIFICATION FairSpec
CONSTANTS
    t1 = t1
    t2 = t2
    t3 = t3
    None = None
    Publishers <- MCPublishers
    Readers <- MCReaders
    MaxSize = 2
    PeekSizes <- MCPeekSizes
    MaxEnvelopes = 3
INVARIANTS
    EnvelopesAccountedFor
PROPERTIES
    ImplementsBoundedLog
    EveryThreadReturns
