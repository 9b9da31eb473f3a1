CONSTANTS
    a = a
    b = b
    Nodes <- MCNodes
    MaxStarts <- MCMaxStartsRestart
    MaxResponses = 2
    MaxCopies = 1
    TimeoutTicks = 3
    NoKey = NoKey
    Unknown = Unknown
SPECIFICATION Spec
INVARIANT TypeOK
PROPERTY PeerEvictedByRunningNode
