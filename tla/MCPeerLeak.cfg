CONSTANTS
    p1 = p1
    t1 = t1
    t2 = t2
    i1 = i1
    k1 = k1
    k2 = k2
    NoServer = NoServer
    Bootstrap = FALSE
    FixedPort = FALSE
    NoPeer = NoPeer
    Peers <- MCPeers
    Tasks <- MCTasks
    Incoming <- MCIncoming
    Servers <- MCServers
SPECIFICATION PeerSpec
INVARIANT NoLeakedTransport
CHECK_DEADLOCK FALSE
