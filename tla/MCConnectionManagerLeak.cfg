CONSTANTS
    p1 = p1
    t1 = t1
    t2 = t2
    i1 = i1
    NoPeer = NoPeer
    Peers <- MCPeers
    Tasks <- MCTasks
    Incoming <- MCIncoming
SPECIFICATION Spec
INVARIANT NoLeakedTransport
CHECK_DEADLOCK FALSE
