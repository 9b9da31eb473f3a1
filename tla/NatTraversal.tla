---------------------------- MODULE NatTraversal ----------------------------
(***************************************************************************)
(* NATTraversal (src/beenet/discovery/nat_traversal.py): the cached       *)
(* external address, the aioice Connections that establish_ice_connection *)
(* and get_local_candidates open, cleanup, and UDP hole punching between   *)
(* two nodes.                                                              *)
(*                                                                         *)
(* Each call is a task of one event loop; a step runs from one await to    *)
(* the next.  pystun3.get_ip_info and socket.recvfrom are blocking calls   *)
(* with no await, so discover_external_address and perform_hole_punching  *)
(* are each one step.  An aioice Connection is a model value; `opened`     *)
(* holds those created and not closed.  Server lists, candidates and SDP   *)
(* are left out: parsing them either succeeds or raises, at the step       *)
(* where the code does it.                                                 *)
(***************************************************************************)
EXTENDS FiniteSets

CONSTANTS Conns,      \* aioice.Connection objects
          Calls,      \* tasks calling establish_ice_connection or get_local_candidates
          Addrs,      \* external addresses a STUN server may report
          Nodes,      \* two nodes punching a hole towards each other
          NoConn,     \* None
          NoAddr,     \* None, or every STUN server failed
          EnableStun, \* config.enable_stun (and pystun3 importable)
          EnableIce   \* config.enable_ice (and aioice importable)

ASSUME {EnableStun, EnableIce} \subseteq BOOLEAN /\ NoConn \notin Conns

VARIABLES
    extAddr,    \* _external_address
    ice,        \* _ice_connection
    opened,     \* Connections created and not closed
    used,       \* every Connection ever created
    call,       \* Calls -> [pc, conn]: where a call is and its Connection
    closing,    \* the Connection an unfinished cleanup() is closing, or NoConn
    punch,      \* Nodes -> the send_punch_packets task: "none", "scheduled",
                \* "cancelled" or "sending"
    net,        \* nodes whose punch packets are in flight
    punched     \* nodes whose perform_hole_punching returned an address

natVars == <<extAddr, ice, opened, used, call, closing, punch, net, punched>>

Pcs == {"idle", "gather", "connect", "local", "done"}

NatTypeOK ==
    /\ extAddr \in Addrs \cup {NoAddr}
    /\ ice \in Conns \cup {NoConn}
    /\ opened \subseteq used /\ used \subseteq Conns
    /\ call \in [Calls -> [pc : Pcs, conn : Conns \cup {NoConn}]]
    /\ closing \in Conns \cup {NoConn}
    /\ punch \in [Nodes -> {"none", "scheduled", "cancelled", "sending"}]
    /\ net \subseteq Nodes /\ punched \subseteq Nodes

NatInit ==
    /\ extAddr = NoAddr /\ ice = NoConn
    /\ opened = {} /\ used = {}
    /\ call = [c \in Calls |-> [pc |-> "idle", conn |-> NoConn]]
    /\ closing = NoConn
    /\ punch = [n \in Nodes |-> "none"]
    /\ net = {} /\ punched = {}

\* Call c ends: the Connection it made is no longer referenced by it.
EndCall(c) == call' = [call EXCEPT ![c] = [pc |-> "done", conn |-> NoConn]]

-----------------------------------------------------------------------------
(* External address                                                        *)

\* discover_external_address: None when STUN is off; the cached address
\* when there is one; otherwise the first server that answers, or None.
DiscoverExternalAddress ==
    /\ EnableStun /\ extAddr = NoAddr
    /\ \E a \in Addrs \cup {NoAddr} : extAddr' = a
    /\ UNCHANGED <<ice, opened, used, call, closing, punch, net, punched>>

-----------------------------------------------------------------------------
(* ICE                                                                     *)

\* A new aioice.Connection, opened by call c, which then awaits `next`.
Create(c, next) ==
    \E x \in Conns \ used :
        /\ used' = used \cup {x}
        /\ opened' = opened \cup {x}
        /\ call' = [call EXCEPT ![c] = [pc |-> next, conn |-> x]]

\* establish_ice_connection, when ICE is enabled: a Connection is made and
\* the STUN and TURN servers added, then gather_candidates is awaited.
EstablishIceBegin(c) ==
    /\ EnableIce /\ call[c].pc = "idle"
    /\ Create(c, "gather")
    /\ UNCHANGED <<extAddr, ice, closing, punch, net, punched>>

\* gather_candidates returns and the remote candidates are added, and
\* wait_for(connect()) is awaited; or one of them raises, and the except
\* returns None without closing the Connection.
IceGathered(c) ==
    /\ call[c].pc = "gather"
    /\ \/ call' = [call EXCEPT ![c].pc = "connect"]
       \/ EndCall(c)
    /\ UNCHANGED <<extAddr, ice, opened, used, closing, punch, net, punched>>

\* connect() completes and the Connection replaces _ice_connection, whose
\* previous value is not closed; or it raises or times out (wait_for
\* cancels connect()), and None is returned with the Connection open.
IceConnected(c) ==
    /\ call[c].pc = "connect"
    /\ ice' \in {call[c].conn, ice}
    /\ EndCall(c)
    /\ UNCHANGED <<extAddr, opened, used, closing, punch, net, punched>>

\* get_local_candidates: a temporary Connection gathers candidates, which
\* are returned (or [] on an exception); the Connection is never closed.
LocalCandidatesBegin(c) ==
    /\ EnableIce /\ call[c].pc = "idle"
    /\ Create(c, "local")
    /\ UNCHANGED <<extAddr, ice, closing, punch, net, punched>>

LocalCandidatesEnd(c) ==
    /\ call[c].pc = "local"
    /\ EndCall(c)
    /\ UNCHANGED <<extAddr, ice, opened, used, closing, punch, net, punched>>

\* cleanup(): `await self._ice_connection.close()` closes the Connection
\* read before the await ...
CleanupBegin ==
    /\ closing = NoConn /\ ice # NoConn
    /\ closing' = ice
    /\ UNCHANGED <<extAddr, ice, opened, used, call, punch, net, punched>>

\* ... and after it `self._ice_connection = None` drops whatever the field
\* holds by then.
CleanupEnd ==
    /\ closing # NoConn
    /\ opened' = opened \ {closing}
    /\ ice' = NoConn /\ closing' = NoConn
    /\ UNCHANGED <<extAddr, used, call, punch, net, punched>>

-----------------------------------------------------------------------------
(* Hole punching                                                           *)

\* perform_hole_punching(peer) by node n, when STUN is enabled: the socket
\* is bound, send_punch_packets is scheduled with create_task, and the
\* blocking recvfrom waits up to hole_punch_timeout without yielding to the
\* loop; it returns the local address if the peer's packet is there, and
\* finally cancels the task, which has not started.
PerformHolePunching(n) ==
    /\ EnableStun /\ punch[n] = "none"
    /\ punch' = [punch EXCEPT ![n] = "cancelled"]
    /\ punched' = IF \E m \in net : m # n THEN punched \cup {n} ELSE punched
    /\ UNCHANGED <<extAddr, ice, opened, used, call, closing, net>>

\* The event loop runs send_punch_packets of node n: its packets go out.
PunchTaskRuns(n) ==
    /\ punch[n] = "scheduled"
    /\ punch' = [punch EXCEPT ![n] = "sending"]
    /\ net' = net \cup {n}
    /\ UNCHANGED <<extAddr, ice, opened, used, call, closing, punched>>

NatNext ==
    \/ DiscoverExternalAddress \/ CleanupBegin \/ CleanupEnd
    \/ \E c \in Calls :
          \/ EstablishIceBegin(c) \/ IceGathered(c) \/ IceConnected(c)
          \/ LocalCandidatesBegin(c) \/ LocalCandidatesEnd(c)
    \/ \E n \in Nodes : PerformHolePunching(n) \/ PunchTaskRuns(n)

NatSpec == NatInit /\ [][NatNext]_natVars

-----------------------------------------------------------------------------
(* Properties                                                              *)

\* Every aioice Connection still open is held by _ice_connection, by the
\* cleanup closing it, or by the call that is setting it up: none is left
\* open unreferenced.  A connect that fails or times out, a second
\* establish, get_local_candidates, and an establish that completes while
\* cleanup awaits close() each leave one.
NoOrphanIceConnection ==
    opened \subseteq {ice, closing} \cup {call[c].conn : c \in Calls}

\* Two nodes that punch towards each other while both run the loop get a
\* hole: at least one of them receives the other's packet.  The send task
\* is cancelled before the loop ever runs it, so no packet is sent.
HolePunchingMeets ==
    (\A n \in Nodes : punch[n] # "none") => punched # {}

=============================================================================
