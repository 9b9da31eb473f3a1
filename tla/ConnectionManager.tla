------------------------- MODULE ConnectionManager -------------------------
(***************************************************************************)
(* ConnectionManager (src/beenet/core/connection.py): the _connections     *)
(* map, the listening server, the Connection objects and their transports, *)
(* with concurrent callers of connect_to_peer, disconnect_peer,            *)
(* handle_key_rotation and stop, and the server's _handle_client tasks.    *)
(*                                                                         *)
(* Every `async with self._lock` section awaits only coroutines that never *)
(* suspend (Connection.close, NoiseChannel.start_handshake, encrypt), so   *)
(* each is one step and the lock is free whenever another task runs.  The  *)
(* suspensions that matter are asyncio.open_connection in connect_to_peer  *)
(* and the gap between the server accepting a client and the task it       *)
(* spawns running _handle_client.  Event emission changes no state here.   *)
(* send_to_peer changes nothing: the channel never gets past              *)
(* start_handshake, so encrypt always raises.                              *)
(***************************************************************************)
EXTENDS FiniteSets

CONSTANTS Peers,     \* peer ids callers connect to
          Tasks,     \* connect_to_peer calls; each creates at most one Connection
          Incoming,  \* inbound TCP connections; each is its own "incoming_host_port" id
          NoPeer     \* model value: a call that has not chosen its peer

ASSUME Peers \cap Incoming = {} /\ Tasks \cap Incoming = {}

\* A Connection object is named by the call that made it.
Conns == Tasks \cup Incoming

VARIABLES
    listening,  \* _servers holds a server that accepts
    conns,      \* _connections: peer id -> Connection
    opened,     \* Connection objects made, each with its transport
    closed,     \* Connection objects whose _closed is set (transport closed)
    pending,    \* inbound connections accepted whose _handle_client has not run
    pc,         \* Tasks -> "idle", "opening" (in open_connection) or "done"
    target      \* Tasks -> the peer id the call connects to

vars == <<listening, conns, opened, closed, pending, pc, target>>

PeerIds == Peers \cup Incoming

TypeOK ==
    /\ listening \in BOOLEAN
    /\ DOMAIN conns \subseteq PeerIds
    /\ \A p \in DOMAIN conns : conns[p] \in opened
    /\ opened \subseteq Conns /\ closed \subseteq opened
    /\ pending \subseteq Incoming
    /\ pc \in [Tasks -> {"idle", "opening", "done"}]
    /\ target \in [Tasks -> Peers \cup {NoPeer}]

Init ==
    /\ listening = FALSE
    /\ conns = [p \in {} |-> NoPeer]
    /\ opened = {}
    /\ closed = {}
    /\ pending = {}
    /\ pc = [t \in Tasks |-> "idle"]
    /\ target = [t \in Tasks |-> NoPeer]

\* _connections without peer p, and with p mapped to c.
Without(p) == [q \in DOMAIN conns \ {p} |-> conns[q]]
With(p, c) == [q \in DOMAIN conns \cup {p} |-> IF q = p THEN c ELSE conns[q]]

\* is_connected.
IsConnected(p) == p \in DOMAIN conns /\ conns[p] \notin closed

\* Connection.close of each Connection in cs: _closed set, transport closed.
CloseAll(cs) == closed' = closed \cup cs

\* stop_server: every server closed and _servers cleared.
StopServer == listening' = FALSE

\* start (start_server): a server is added to _servers.  Nothing guards
\* a second call; the servers are abstracted to "some server listens".
Start ==
    /\ listening' = TRUE
    /\ UNCHANGED <<conns, opened, closed, pending, pc, target>>

\* stop: under the lock every tracked Connection is closed and the map
\* cleared; stop_server then closes the server.  Handler tasks already
\* spawned and connect_to_peer calls in open_connection are not waited for.
Stop ==
    /\ CloseAll({conns[p] : p \in DOMAIN conns})
    /\ conns' = [p \in {} |-> NoPeer]
    /\ StopServer
    /\ UNCHANGED <<opened, pending, pc, target>>

\* connect_to_peer(p), up to open_connection: under the lock an open
\* Connection to p is returned as it is, and a closed one is dropped.
ConnectBegin(t, p) ==
    /\ pc[t] = "idle"
    /\ target' = [target EXCEPT ![t] = p]
    /\ IF IsConnected(p)
       THEN /\ pc' = [pc EXCEPT ![t] = "done"]
            /\ UNCHANGED conns
       ELSE /\ pc' = [pc EXCEPT ![t] = "opening"]
            /\ conns' = IF p \in DOMAIN conns THEN Without(p) ELSE conns
    /\ UNCHANGED <<listening, opened, closed, pending>>

\* open_connection returns: a NoiseChannel is started, the Connection made
\* and, under the lock, stored as _connections[p], whatever is there now.
ConnectOpened(t) ==
    /\ pc[t] = "opening"
    /\ opened' = opened \cup {t}
    /\ conns' = With(target[t], t)
    /\ pc' = [pc EXCEPT ![t] = "done"]
    /\ UNCHANGED <<listening, closed, pending, target>>

\* open_connection raises: NetworkError, nothing stored.
ConnectFailed(t) ==
    /\ pc[t] = "opening"
    /\ pc' = [pc EXCEPT ![t] = "done"]
    /\ UNCHANGED <<listening, conns, opened, closed, pending, target>>

\* The listening server accepts inbound connection c and spawns its
\* _handle_client task; the transport exists from here on.
Accept(c) ==
    /\ listening
    /\ c \notin opened
    /\ opened' = opened \cup {c}
    /\ pending' = pending \cup {c}
    /\ UNCHANGED <<listening, conns, closed, pc, target>>

\* _handle_client runs: a responder NoiseChannel is started and the
\* Connection stored under its "incoming_host_port" id.
HandleClient(c) ==
    /\ c \in pending
    /\ pending' = pending \ {c}
    /\ conns' = With(c, c)
    /\ UNCHANGED <<listening, opened, closed, pc, target>>

\* disconnect_peer(p) and handle_key_rotation(p): under the lock the
\* Connection to p, if any, is closed and removed.
DisconnectPeer(p) ==
    /\ p \in DOMAIN conns
    /\ CloseAll({conns[p]})
    /\ conns' = Without(p)
    /\ UNCHANGED <<listening, opened, pending, pc, target>>

HandleKeyRotation(p) ==
    /\ p \in DOMAIN conns
    /\ CloseAll({conns[p]})
    /\ conns' = Without(p)
    /\ UNCHANGED <<listening, opened, pending, pc, target>>

Next ==
    \/ Start \/ Stop
    \/ \E t \in Tasks, p \in Peers : ConnectBegin(t, p)
    \/ \E t \in Tasks : ConnectOpened(t) \/ ConnectFailed(t)
    \/ \E c \in Incoming : Accept(c) \/ HandleClient(c)
    \/ \E p \in PeerIds : DisconnectPeer(p) \/ HandleKeyRotation(p)

Spec == Init /\ [][Next]_vars

-----------------------------------------------------------------------------
(* Properties                                                              *)

\* Every transport the manager has opened is either closed or reachable
\* through _connections (or about to be stored by its _handle_client), so
\* disconnect_peer or stop can still close it.  Two connect_to_peer calls
\* for one peer both pass the lock check before either stores its
\* Connection; the second overwrites the first.
NoLeakedTransport ==
    \A c \in opened \ (closed \cup pending) :
        \E p \in DOMAIN conns : conns[p] = c

=============================================================================
