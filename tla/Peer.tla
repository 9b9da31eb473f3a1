-------------------------------- MODULE Peer --------------------------------
(***************************************************************************)
(* Peer (src/beenet/core/peer.py) composed with its ConnectionManager: the *)
(* lifecycle (start, stop) and the callers of connect_to_peer and          *)
(* send_file, each a task of the event loop.                               *)
(*                                                                         *)
(* KademliaDiscovery is the Kademlia module, instantiated on the peer's    *)
(* own variables: start awaits its start, stop its stop, and find_peer     *)
(* answers only while it runs.  Keystore, BeeQuiet, NAT and resilience are *)
(* their own modules; here they are the places where start may raise and   *)
(* where stop suspends.  One lifecycle caller starts and     *)
(* stops the peer, as the demo and the tests do; any number of tasks call  *)
(* connect_to_peer and send_file, and the application may call            *)
(* disconnect_peer and handle_key_rotation on the manager.                *)
(***************************************************************************)
EXTENDS ConnectionManager

CONSTANTS Servers, NoServer, Bootstrap, FixedPort

VARIABLES
    running,    \* self._running
    stage,      \* lifecycle: "down", "up"; inside start(): "kad" (in
                \* kademlia.start), "rest" (after it); inside stop():
                \* "stopping", "closing"
    call,       \* Tasks -> "idle", "lookup" (in find_peer), "connect", "done"
    kind,       \* Tasks -> "send" (send_file) or "connect" (connect_to_peer)
    transfers,  \* self._transfers: the send_file calls that registered one
    kRunning, kDht, kBound, kStage   \* self.kademlia

K == INSTANCE Kademlia WITH running <- kRunning, dht <- kDht, bound <- kBound,
                            stage <- kStage

kademliaVars == <<kRunning, kDht, kBound, kStage>>
peerVars == <<running, stage, call, kind, transfers, kademliaVars>>
allVars == <<vars, peerVars>>

PeerTypeOK ==
    /\ TypeOK
    /\ K!KadTypeOK
    /\ running \in BOOLEAN
    /\ stage \in {"down", "kad", "rest", "up", "stopping", "closing"}
    /\ call \in [Tasks -> {"idle", "lookup", "connect", "done"}]
    /\ kind \in [Tasks -> {"send", "connect"}]
    /\ transfers \subseteq Tasks

PeerInit ==
    /\ Init
    /\ K!KadInit
    /\ running = FALSE /\ stage = "down"
    /\ call = [t \in Tasks |-> "idle"]
    /\ kind = [t \in Tasks |-> "connect"]
    /\ transfers = {}

\* start: keystore, identity and static key, then connection_manager.start,
\* then kademlia.start(actual_port + 1) up to its first await.  A failure
\* before the manager's start changes nothing modelled here.
PeerStart ==
    /\ stage = "down" /\ ~running
    /\ Start
    /\ K!KadStartBegin
    /\ stage' = "kad"
    /\ UNCHANGED <<running, call, kind, transfers>>

\* A step of kademlia.start.  When it raises, the except calls stop(),
\* which returns at once because _running is still False: the manager's
\* server, and a Kademlia transport already bound, stay open.
PeerKademlia ==
    /\ stage = "kad"
    /\ K!KadStartStep
    /\ stage' = IF kStage' # "idle" THEN "kad"
                ELSE IF kRunning' THEN "rest" ELSE "down"
    /\ UNCHANGED <<vars, running, call, kind, transfers>>

\* register_peer, BeeQuiet, NAT and resilience: either all succeed and
\* _running is set, or one raises and stop() again returns at once,
\* leaving the server and the DHT node running.
PeerStartRest ==
    /\ stage = "rest"
    /\ \/ running' = TRUE /\ stage' = "up"
       \/ stage' = "down" /\ UNCHANGED running
    /\ UNCHANGED <<vars, call, kind, transfers, kademliaVars>>

\* stop, up to the manager: transfer states saved, BeeQuiet stopped and
\* kademlia.stop; both await, so other tasks run in between.
PeerStopBegin ==
    /\ stage = "up" /\ running
    /\ K!KadStop
    /\ stage' = "stopping"
    /\ UNCHANGED <<vars, running, call, kind, transfers>>

\* connection_manager.stop(); then NAT cleanup and resilience stop, which
\* await.
PeerStopConnections ==
    /\ stage = "stopping"
    /\ Stop
    /\ stage' = "closing"
    /\ UNCHANGED <<running, call, kind, transfers, kademliaVars>>

\* _transfers cleared and _running reset.
PeerStopEnd ==
    /\ stage = "closing"
    /\ transfers' = {} /\ running' = FALSE /\ stage' = "down"
    /\ UNCHANGED <<vars, call, kind, kademliaVars>>

\* send_file(p): refused unless running; a connected peer gets its
\* transfer at once, otherwise connect_to_peer(p) looks p up in Kademlia.
SendFile(t, p) ==
    /\ running /\ call[t] = "idle"
    /\ kind' = [kind EXCEPT ![t] = "send"]
    /\ IF IsConnected(p)
       THEN /\ call' = [call EXCEPT ![t] = "done"]
            /\ transfers' = transfers \cup {t}
            /\ UNCHANGED target
       ELSE /\ call' = [call EXCEPT ![t] = "lookup"]
            /\ target' = [target EXCEPT ![t] = p]
            /\ UNCHANGED transfers
    /\ UNCHANGED <<listening, conns, opened, closed, pending, pc, running, stage, kademliaVars>>

\* A call that got a Connection back: send_file registers its transfer.
Registered(t) ==
    transfers' = IF kind[t] = "send" THEN transfers \cup {t} ELSE transfers

\* The manager's connect_to_peer(p) entered by call t: an open Connection
\* is returned at once, else the call waits in open_connection.
EnterManager(t, p) ==
    /\ ConnectBegin(t, p)
    /\ IF IsConnected(p)
       THEN call' = [call EXCEPT ![t] = "done"] /\ Registered(t)
       ELSE call' = [call EXCEPT ![t] = "connect"] /\ UNCHANGED transfers

\* connect_to_peer(p, address): refused unless running; with an address
\* Kademlia is bypassed.
ConnectCall(t, p) ==
    /\ running /\ call[t] = "idle"
    /\ kind' = [kind EXCEPT ![t] = "connect"]
    /\ EnterManager(t, p)
    /\ UNCHANGED <<running, stage, kademliaVars>>

\* find_peer returns: raises unless Kademlia runs, or finds nothing
\* (connect_to_peer returns False, send_file raises ConnectionError), or
\* finds the address and the manager is entered.
Lookup(t) ==
    /\ call[t] = "lookup"
    /\ \/ /\ call' = [call EXCEPT ![t] = "done"]
          /\ UNCHANGED <<vars, transfers>>
       \/ /\ K!Answers
          /\ EnterManager(t, target[t])
    /\ UNCHANGED <<running, stage, kind, kademliaVars>>

\* open_connection returns (the Connection is stored) or raises.
Opened(t) ==
    /\ call[t] = "connect"
    /\ ConnectOpened(t)
    /\ call' = [call EXCEPT ![t] = "done"]
    /\ Registered(t)
    /\ UNCHANGED <<running, stage, kind, kademliaVars>>

Failed(t) ==
    /\ call[t] = "connect"
    /\ ConnectFailed(t)
    /\ call' = [call EXCEPT ![t] = "done"]
    /\ UNCHANGED <<running, stage, kind, transfers, kademliaVars>>

PeerNext ==
    \/ PeerStart \/ PeerKademlia \/ PeerStartRest \/ PeerStopBegin \/ PeerStopConnections \/ PeerStopEnd
    \/ \E t \in Tasks, p \in Peers : SendFile(t, p) \/ ConnectCall(t, p)
    \/ \E t \in Tasks : Lookup(t) \/ Opened(t) \/ Failed(t)
    \/ /\ \E c \in Incoming : Accept(c) \/ HandleClient(c)
       /\ UNCHANGED peerVars
    \/ /\ \E p \in PeerIds : DisconnectPeer(p) \/ HandleKeyRotation(p)
       /\ UNCHANGED peerVars

PeerSpec == PeerInit /\ [][PeerNext]_allVars

-----------------------------------------------------------------------------
(* Properties                                                              *)

\* Once stop() has returned, the peer holds no server, no Connection and
\* no DHT transport: its docstring says it cleans up resources.  A start
\* that fails after the manager's start leaves the server up (and the DHT
\* transport, when kademlia.start raised after listen), and a connect_to_peer whose
\* open_connection returns after the manager stopped stores a live
\* Connection into the stopped manager.
StoppedPeerHoldsNothing ==
    stage = "down" => ~listening /\ DOMAIN conns = {} /\ kBound = {}

\* The peer's DHT node holds no transport but that of its running Server
\* (Kademlia's NoOrphanServer, on the peer's own calls): a start whose
\* bootstrap raises after listen leaves one that no stop() closes.
KademliaNoOrphanServer == K!NoOrphanServer

=============================================================================
