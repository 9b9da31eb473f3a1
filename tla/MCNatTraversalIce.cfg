\* NATTraversal with STUN and ICE enabled; checks NoOrphanIceConnection.
CONSTANTS
    c1 = c1
    c2 = c2
    x1 = x1
    x2 = x2
    x3 = x3
    a1 = a1
    n1 = n1
    n2 = n2
    Calls <- MCCalls
    Conns <- MCConns
    Addrs <- MCAddrs
    Nodes <- MCNodes
    NoConn = NoConn
    NoAddr = NoAddr
    EnableStun = TRUE
    EnableIce = TRUE
INIT NatInit
NEXT NatNext
CHECK_DEADLOCK FALSE
INVARIANT NatTypeOK
INVARIANT NoOrphanIceConnection
