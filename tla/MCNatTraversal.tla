-------------------------- MODULE MCNatTraversal --------------------------
(* Two calling tasks, three aioice Connections (enough for each call to   *)
(* open one and for a second establish), one STUN answer, two nodes.       *)
EXTENDS NatTraversal

CONSTANTS c1, c2, x1, x2, x3, a1, n1, n2

MCCalls == {c1, c2}
MCConns == {x1, x2, x3}
MCAddrs == {a1}
MCNodes == {n1, n2}
=============================================================================
