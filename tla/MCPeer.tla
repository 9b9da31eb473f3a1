------------------------------- MODULE MCPeer -------------------------------
(* One peer id to connect to, two calling tasks, one inbound connection,   *)
(* and two DHT Server objects: the current one and one it replaces.        *)
EXTENDS Peer

CONSTANTS p1, t1, t2, i1, k1, k2

MCPeers == {p1}
MCTasks == {t1, t2}
MCIncoming == {i1}
MCServers == {k1, k2}

=============================================================================
