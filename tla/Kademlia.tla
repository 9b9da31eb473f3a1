------------------------------ MODULE Kademlia ------------------------------
(***************************************************************************)
(* KademliaDiscovery (src/beenet/discovery/kademlia.py): the lifecycle of  *)
(* the DHT node that BeenetPeer starts and stops, and the guard of its     *)
(* queries.                                                                *)
(*                                                                         *)
(* A kademlia.network.Server is a model value; `bound` holds the Servers   *)
(* whose UDP transport is open.  Server() makes a new object: any model    *)
(* value no live reference holds.  The DHT's routing and storage are the   *)
(* library's and are not modelled: a query of a running node may find a   *)
(* record or not.  Each action runs from one await to the next.            *)
(***************************************************************************)
EXTENDS FiniteSets

CONSTANTS Servers,     \* Server objects
          NoServer,    \* _dht is None
          Bootstrap,   \* bootstrap_nodes is non-empty
          FixedPort    \* start is called with the same port every time

ASSUME {Bootstrap, FixedPort} \subseteq BOOLEAN /\ NoServer \notin Servers

VARIABLES
    running,    \* _running
    dht,        \* _dht
    bound,      \* Servers whose transport is open
    stage       \* where start() is: "idle", "restart" (in the sleep of
                \* the stop it calls), "listen" (in Server.listen) or
                \* "bootstrap" (in Server.bootstrap)

kadVars == <<running, dht, bound, stage>>

KadTypeOK ==
    /\ running \in BOOLEAN
    /\ dht \in Servers \cup {NoServer}
    /\ bound \subseteq Servers
    /\ stage \in {"idle", "restart", "listen", "bootstrap"}

KadInit ==
    /\ running = FALSE
    /\ dht = NoServer
    /\ bound = {}
    /\ stage = "idle"

\* self._dht = Server(): a fresh object replaces the reference.
NewServer == \E s \in Servers \ (bound \cup {dht}) : dht' = s

\* stop(), when _dht is set and _running: Server.stop closes the transport,
\* _running is cleared and _dht dropped, before the await of sleep(0.1).
StopNode ==
    /\ running /\ dht # NoServer
    /\ bound' = bound \ {dht}
    /\ running' = FALSE
    /\ dht' = NoServer

\* stop() as a whole: the sleep changes nothing here, and otherwise it
\* returns at once.
KadStop ==
    /\ stage = "idle"
    /\ \/ StopNode
       \/ /\ ~(running /\ dht # NoServer)
          /\ UNCHANGED <<running, dht, bound>>
    /\ UNCHANGED stage

\* start(port) up to its first await: a running node is stopped first
\* (the await of stop's sleep follows); otherwise a new Server is made and
\* start awaits its listen.
KadStartBegin ==
    /\ stage = "idle"
    /\ IF running /\ dht # NoServer
       THEN StopNode /\ stage' = "restart"
       ELSE NewServer /\ stage' = "listen" /\ UNCHANGED <<running, bound>>

\* stop's sleep ends inside start: a new Server, and the await of listen.
KadRestarted ==
    /\ stage = "restart"
    /\ NewServer
    /\ stage' = "listen"
    /\ UNCHANGED <<running, bound>>

\* Server.listen returns or raises.  It binds the port, which an earlier
\* Server of this node still holds when the port is fixed.  After a
\* successful listen the node runs unless there are bootstrap nodes; the
\* parsing of the node list (split(":"), int(port)) may raise before the
\* await of bootstrap.  Any exception leaves start with _dht set and
\* _running False.
KadListen ==
    /\ stage = "listen"
    /\ \/ /\ ~(FixedPort /\ bound # {})
          /\ bound' = bound \cup {dht}
          /\ IF Bootstrap
             THEN stage' \in {"bootstrap", "idle"} /\ UNCHANGED running
             ELSE stage' = "idle" /\ running' = TRUE
       \/ /\ stage' = "idle"
          /\ UNCHANGED <<running, bound>>
    /\ UNCHANGED dht

\* Server.bootstrap returns, and _running is set, or raises.
KadBootstrapped ==
    /\ stage = "bootstrap"
    /\ stage' = "idle"
    /\ running' \in {running, TRUE}
    /\ UNCHANGED <<dht, bound>>

\* The steps of a start in progress.
KadStartStep == KadRestarted \/ KadListen \/ KadBootstrapped

\* The guard of register_peer, find_peer and bootstrap_from_known_peers:
\* "DHT not running" is raised unless _dht is set and _running.
Answers == dht # NoServer /\ running

-----------------------------------------------------------------------------
(* Properties                                                              *)

\* A node that is not running holds no open transport, and a running one
\* only that of _dht: stop() releases whatever start() bound.  A start that
\* raises after listen leaves its Server bound with _running False, so the
\* next stop() skips it, and the next start() drops the reference.
NoOrphanServer ==
    /\ bound \subseteq {dht}
    /\ (stage = "idle" /\ ~running) => bound = {}

=============================================================================
