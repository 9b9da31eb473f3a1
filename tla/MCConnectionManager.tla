------------------------ MODULE MCConnectionManager ------------------------
EXTENDS ConnectionManager

CONSTANTS p1, t1, t2, i1

MCPeers == {p1}
MCTasks == {t1, t2}
MCIncoming == {i1}
=============================================================================
