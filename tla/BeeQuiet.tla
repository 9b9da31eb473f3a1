----------------------------- MODULE BeeQuiet -----------------------------
(***************************************************************************)
(* BeeQuiet LAN discovery (src/beenet/discovery/beequiet.py): a set of     *)
(* nodes, each a BeeQuietDiscovery bound to its own address, exchanging    *)
(* WHO_IS_HERE / I_AM_HERE / HEARTBEAT / GOODBYE datagrams over UDP.       *)
(*                                                                         *)
(* A node's address stands for both its peer_id and its "host:port" key.  *)
(* Each datagram is delivered at most MaxCopies times, in any order, or   *)
(* lost.  Time advances in ticks of 30 s, the sleep of both the heartbeat *)
(* and the cleanup loop; PEER_TIMEOUT is TimeoutTicks ticks.  A node may   *)
(* be stopped and started again up to MaxStarts times: start() on the    *)
(* same object, as BeenetPeer does, or a fresh object on the address.  Nonces and responses are fresh values <<node, k>>; *)
(* the HKDF session key is the pair <<nonce, response>>, and AEAD opens a  *)
(* datagram exactly when it was sealed under the key the receiver holds.  *)
(***************************************************************************)
EXTENDS Integers, FiniteSets, TLC

CONSTANTS Nodes,         \* addresses of the nodes on the LAN
          MaxStarts,     \* bound on start() calls, per address
          MaxResponses,  \* bound on fresh responses generated per node
          MaxCopies,     \* bound on deliveries of one datagram (duplication)
          TimeoutTicks,  \* PEER_TIMEOUT / 30 s
          NoKey,         \* model value: no entry in _session_keys
          Unknown        \* model value: no entry in _discovered_peers

ASSUME MaxStarts \in [Nodes -> Nat \ {0}] /\ MaxResponses >= 1 /\ MaxCopies >= 1 /\ TimeoutTicks >= 1

VARIABLES
    phase,       \* "off", "running", "leaving" (inside stop(), transport
                 \* open) or "stopped" (transport closed)
    leaving,     \* self.state == LEAVING: set by stop(), never reset
    loops,       \* the object has a live _heartbeat_loop / _cleanup_loop task
    starts,      \* start() calls so far at each address
    keys,        \* _session_keys: address -> session key or NoKey
    discovered,  \* _discovered_peers: address -> ticks since last_seen, or Unknown
    hbDue,       \* the heartbeat loop's sleep has ended and its round is due
    cleanupDue,  \* the cleanup loop's sleep has ended and its round is due
    responses,   \* fresh responses generated so far by each node
    net          \* datagrams in flight: message -> deliveries still possible

vars == <<phase, leaving, loops, starts, keys, discovered, hbDue, cleanupDue, responses, net>>

Stale == TimeoutTicks + 1
Phases == {"off", "running", "leaving", "stopped"}

\* The transport is open: datagram_received schedules _handle_message.
Receiving(n) == phase[n] \in {"running", "leaving"}

Nonce(n, k) == <<n, k>>
Response(n, k) == <<n, k>>

\* _derive_session_key(nonce, response): HKDF with salt=nonce, ikm=response.
DeriveKey(nonce, resp) == <<nonce, resp>>

KeyValues ==
    UNION {{DeriveKey(Nonce(x, i), Response(y, j)) :
                i \in 1..MaxStarts[x], j \in 1..MaxResponses} : x, y \in Nodes}

WhoIsHere(src, dst, nonce) == [type |-> "who", src |-> src, dst |-> dst, nonce |-> nonce]
IAmHere(src, dst, resp) == [type |-> "iam", src |-> src, dst |-> dst, resp |-> resp]
\* A HEARTBEAT or GOODBYE: _encrypt_payload under key.
Sealed(type, src, dst, key) == [type |-> type, src |-> src, dst |-> dst, key |-> key]

\* Datagrams msgs handed to transport.sendto, on top of the network f.
WithSent(f, msgs) ==
    [m \in DOMAIN f \cup msgs |-> IF m \in msgs THEN MaxCopies ELSE f[m]]

\* m with every copy gone leaves the network.
Removed(m) == [x \in DOMAIN net \ {m} |-> net[x]]

\* One copy of m taken off the network by datagram_received.
Consumed(m) == IF net[m] = 1 THEN Removed(m) ELSE [net EXCEPT ![m] = @ - 1]

KnownPeers(n) == {p \in Nodes : discovered[n][p] # Unknown}

\* _send_heartbeat_to_peer / send_heartbeat for every discovered peer: the
\* ones without a session key are skipped.
Heartbeats(n) ==
    {Sealed("heartbeat", n, p, keys[n][p]) : p \in {q \in KnownPeers(n) : keys[n][q] # NoKey}}

\* _send_goodbye_to_peer / send_goodbye for every discovered peer, likewise.
Goodbyes(n) ==
    {Sealed("goodbye", n, p, keys[n][p]) : p \in {q \in KnownPeers(n) : keys[n][q] # NoKey}}

\* AEAD opens a datagram sealed under m.key at n with n's key for the sender.
Opens(n, m) == keys[n][m.src] # NoKey /\ keys[n][m.src] = m.key

TypeOK ==
    /\ phase \in [Nodes -> Phases]
    /\ leaving \in [Nodes -> BOOLEAN] /\ loops \in [Nodes -> BOOLEAN]
    /\ \A n \in Nodes : starts[n] \in 0..MaxStarts[n]
    /\ responses \in [Nodes -> 0..MaxResponses]
    /\ keys \in [Nodes -> [Nodes -> {NoKey} \cup KeyValues]]
    /\ discovered \in [Nodes -> [Nodes -> {Unknown} \cup 0..Stale]]
    /\ \A n \in Nodes : keys[n][n] = NoKey /\ discovered[n][n] = Unknown
    /\ hbDue \in [Nodes -> BOOLEAN]
    /\ cleanupDue \in [Nodes -> BOOLEAN]
    /\ \A m \in DOMAIN net : net[m] \in 1..MaxCopies

Init ==
    /\ phase = [n \in Nodes |-> "off"]
    /\ leaving = [n \in Nodes |-> FALSE]
    /\ loops = [n \in Nodes |-> FALSE]
    /\ starts = [n \in Nodes |-> 0]
    /\ keys = [n \in Nodes |-> [p \in Nodes |-> NoKey]]
    /\ discovered = [n \in Nodes |-> [p \in Nodes |-> Unknown]]
    /\ hbDue = [n \in Nodes |-> FALSE]
    /\ cleanupDue = [n \in Nodes |-> FALSE]
    /\ responses = [n \in Nodes |-> 0]
    /\ net = [m \in {} |-> 0]

-----------------------------------------------------------------------------
(* Node lifecycle                                                          *)

\* start() up to its end: the transport opened, the two loop tasks created,
\* and send_who_is_here multicasting a WHO with a fresh nonce to every
\* member of the group, the sender itself included (multicast loopback).
Started(n) ==
    /\ starts[n] < MaxStarts[n]
    /\ phase' = [phase EXCEPT ![n] = "running"]
    /\ starts' = [starts EXCEPT ![n] = @ + 1]
    /\ net' = WithSent(net, {WhoIsHere(n, d, Nonce(n, starts[n] + 1)) :
                                d \in {d \in Nodes : Receiving(d)} \cup {n}})

\* start() on the object, first or again (BeenetPeer keeps one object and
\* restarts it; a start on a running object opens a second transport).
\* Neither table nor state is reset: after a stop() the new loop tasks
\* find state LEAVING at their `while` test and end at once.
Start(n) ==
    /\ phase[n] \in {"off", "running", "stopped"}
    /\ Started(n)
    /\ loops' = [loops EXCEPT ![n] = @ \/ ~leaving[n]]
    /\ UNCHANGED <<leaving, keys, discovered, hbDue, cleanupDue, responses>>

\* A new BeeQuietDiscovery on the address of a stopped one (a new process):
\* __init__ gives empty tables and state DISCOVERING, then start().
Recreate(n) ==
    /\ phase[n] = "stopped"
    /\ Started(n)
    /\ leaving' = [leaving EXCEPT ![n] = FALSE]
    /\ loops' = [loops EXCEPT ![n] = TRUE]
    /\ keys' = [keys EXCEPT ![n] = [p \in Nodes |-> NoKey]]
    /\ discovered' = [discovered EXCEPT ![n] = [p \in Nodes |-> Unknown]]
    /\ UNCHANGED <<hbDue, cleanupDue, responses>>

\* stop() up to its first await: state LEAVING, the GOODBYEs, and the
\* heartbeat task cancelled.
StopBegin(n) ==
    /\ phase[n] = "running"
    /\ phase' = [phase EXCEPT ![n] = "leaving"]
    /\ leaving' = [leaving EXCEPT ![n] = TRUE]
    /\ net' = WithSent(net, Goodbyes(n))
    /\ hbDue' = [hbDue EXCEPT ![n] = FALSE]
    /\ UNCHANGED <<loops, starts, keys, discovered, cleanupDue, responses>>

\* stop() after its two awaits: the cleanup task is cancelled once the
\* heartbeat task has finished, and the transport is closed once the
\* cleanup task has.  Handlers that run between the cancel and the close
\* commute with the cancel, so the two steps are taken as one.
StopEnd(n) ==
    /\ phase[n] = "leaving"
    /\ phase' = [phase EXCEPT ![n] = "stopped"]
    /\ loops' = [loops EXCEPT ![n] = FALSE]
    /\ cleanupDue' = [cleanupDue EXCEPT ![n] = FALSE]
    /\ UNCHANGED <<leaving, starts, keys, discovered, hbDue, responses, net>>

-----------------------------------------------------------------------------
(* Message handlers: _handle_message(data, addr) on node n for datagram m *)
(* from m.src; each handler has no suspending await, so it is one step.   *)

\* Mutant of HandleWhoIsHere: the `peer_id == self.peer_id` check left out,
\* so a node answers its own looped-back WHO.
HandleWhoIsHereNoSelfCheck(n, m) ==
    /\ m.type = "who"
    /\ LET r == Response(n, responses[n] + 1) IN
       /\ responses[n] < MaxResponses
       /\ responses' = [responses EXCEPT ![n] = @ + 1]
       /\ keys' = [keys EXCEPT ![n][m.src] = DeriveKey(m.nonce, r)]
       /\ net' = WithSent(Consumed(m), {IAmHere(n, m.src, r)})
    /\ UNCHANGED discovered

\* _handle_who_is_here + send_i_am_here: a WHO from another peer_id gets a
\* fresh response; the session key derived from the WHO's nonce and that
\* response is cached under the sender's address, and an IAM is unicast.
HandleWhoIsHere(n, m) ==
    /\ m.type = "who"
    /\ IF m.src = n
       THEN /\ net' = Consumed(m)
            /\ UNCHANGED <<keys, responses>>
       ELSE LET r == Response(n, responses[n] + 1) IN
            /\ responses[n] < MaxResponses
            /\ responses' = [responses EXCEPT ![n] = @ + 1]
            /\ keys' = [keys EXCEPT ![n][m.src] = DeriveKey(m.nonce, r)]
            /\ net' = WithSent(Consumed(m), {IAmHere(n, m.src, r)})
    /\ UNCHANGED discovered

\* _handle_i_am_here: the sender is recorded with a fresh last_seen.  No
\* session key is derived or installed, and the IAM is not matched
\* against any WHO this node sent.
HandleIAmHere(n, m) ==
    /\ m.type = "iam"
    /\ discovered' = IF m.src = n THEN discovered
                     ELSE [discovered EXCEPT ![n][m.src] = 0]
    /\ net' = Consumed(m)
    /\ UNCHANGED <<keys, responses>>

\* _handle_heartbeat: without a key for the address, or when decryption
\* fails, nothing happens; otherwise a discovered peer's last_seen is reset.
HandleHeartbeat(n, m) ==
    /\ m.type = "heartbeat"
    /\ discovered' = IF Opens(n, m) /\ m.src \in KnownPeers(n)
                     THEN [discovered EXCEPT ![n][m.src] = 0]
                     ELSE discovered
    /\ net' = Consumed(m)
    /\ UNCHANGED <<keys, responses>>

\* _handle_goodbye: a GOODBYE that opens removes the peer and its key.
HandleGoodbye(n, m) ==
    /\ m.type = "goodbye"
    /\ IF Opens(n, m)
       THEN /\ discovered' = [discovered EXCEPT ![n][m.src] = Unknown]
            /\ keys' = [keys EXCEPT ![n][m.src] = NoKey]
       ELSE UNCHANGED <<discovered, keys>>
    /\ net' = Consumed(m)
    /\ UNCHANGED responses

\* A copy of m reaches n's open socket and is handled.
Deliver(m) ==
    LET n == m.dst IN
    /\ Receiving(n)
    /\ \/ HandleWhoIsHere(n, m)
       \/ HandleIAmHere(n, m)
       \/ HandleHeartbeat(n, m)
       \/ HandleGoodbye(n, m)
    /\ UNCHANGED <<phase, leaving, loops, starts, hbDue, cleanupDue>>

\* The network loses every remaining copy of m.
Drop(m) ==
    /\ net' = Removed(m)
    /\ UNCHANGED <<phase, leaving, loops, starts, keys, discovered, hbDue, cleanupDue, responses>>

-----------------------------------------------------------------------------
(* The two loops of a running node, and time                              *)

\* One round of _heartbeat_loop after its sleep.
HeartbeatRound(n) ==
    /\ hbDue[n]
    /\ phase[n] = "running"
    /\ hbDue' = [hbDue EXCEPT ![n] = FALSE]
    /\ net' = WithSent(net, Heartbeats(n))
    /\ UNCHANGED <<phase, leaving, loops, starts, keys, discovered, cleanupDue, responses>>

StaleAfter(n, f) == {p \in Nodes : f[n][p] # Unknown /\ f[n][p] > TimeoutTicks}

\* Mutant of CleanupRound: stale peers looked up among the session keys
\* rather than among the discovered peers.
CleanupRoundKeyedOnly(n) ==
    LET stale == {p \in StaleAfter(n, discovered) : keys[n][p] # NoKey} IN
    /\ cleanupDue[n]
    /\ cleanupDue' = [cleanupDue EXCEPT ![n] = FALSE]
    /\ loops' = [loops EXCEPT ![n] = ~leaving[n]]
    /\ discovered' = [discovered EXCEPT ![n] =
                         [p \in Nodes |-> IF p \in stale THEN Unknown ELSE @[p]]]
    /\ keys' = [keys EXCEPT ![n] = [p \in Nodes |-> IF p \in stale THEN NoKey ELSE @[p]]]
    /\ UNCHANGED <<phase, leaving, starts, hbDue, responses, net>>

\* One round of _cleanup_loop after its sleep: every discovered peer whose
\* last_seen is more than PEER_TIMEOUT old is removed with its session key.
\* A round ending in the middle of stop() still runs; the `while` test after
\* it ends the loop once state is LEAVING.
CleanupRound(n) ==
    LET stale == StaleAfter(n, discovered) IN
    /\ cleanupDue[n]
    /\ cleanupDue' = [cleanupDue EXCEPT ![n] = FALSE]
    /\ loops' = [loops EXCEPT ![n] = ~leaving[n]]
    /\ discovered' = [discovered EXCEPT ![n] =
                         [p \in Nodes |-> IF p \in stale THEN Unknown ELSE @[p]]]
    /\ keys' = [keys EXCEPT ![n] = [p \in Nodes |-> IF p \in stale THEN NoKey ELSE @[p]]]
    /\ UNCHANGED <<phase, leaving, starts, hbDue, responses, net>>

\* 30 s pass once every due round has run: the sleeps of the live loops end
\* (the heartbeat loop's only while state is not LEAVING, as stop() has
\* cancelled it) and every last_seen ages by one tick (ages past Stale are
\* not told apart).
Tick ==
    /\ \A n \in Nodes : ~hbDue[n] /\ ~cleanupDue[n]
    /\ hbDue' = [n \in Nodes |-> loops[n] /\ ~leaving[n]]
    /\ cleanupDue' = loops
    /\ discovered' = [n \in Nodes |-> [p \in Nodes |->
                         IF discovered[n][p] = Unknown THEN Unknown
                         ELSE IF discovered[n][p] < Stale THEN discovered[n][p] + 1
                         ELSE Stale]]
    /\ UNCHANGED <<phase, leaving, loops, starts, keys, responses, net>>

Next ==
    \/ \E n \in Nodes : Start(n) \/ Recreate(n) \/ StopBegin(n) \/ StopEnd(n)
    \/ \E m \in DOMAIN net : Deliver(m) \/ Drop(m)
    \/ \E n \in Nodes : HeartbeatRound(n) \/ CleanupRound(n)
    \/ Tick

\* Time passes and the event loop runs each loop whose sleep has ended.
\* Callers (start, stop) and the network (delivery) get no fairness: UDP
\* may lose any datagram.
Fairness ==
    /\ WF_vars(Tick)
    /\ \A n \in Nodes : WF_vars(HeartbeatRound(n)) /\ WF_vars(CleanupRound(n))

Spec == Init /\ [][Next]_vars /\ Fairness

-----------------------------------------------------------------------------
(* Properties                                                              *)

Retired(a) == phase[a] = "stopped" /\ starts[a] = MaxStarts[a]

\* The node's cleanup loop is live: it runs and has never been stopped.
Cleaning(b) == phase[b] = "running" /\ ~leaving[b]

\* An address that has stopped for the last time drops out of the
\* discovered peers of every node whose cleanup loop runs, and stays out,
\* although delayed and duplicated I_AM_HERE datagrams it sent earlier may
\* re-add it with a fresh last_seen, it may have been restarted on the same
\* or a new object, and no GOODBYE reaches a node that holds no key:
\* _cleanup_loop's PEER_TIMEOUT eviction alone guarantees it.
PeerEvictedAfterStop ==
    \A a, b \in Nodes :
        Retired(a) ~> [](discovered[b][a] = Unknown \/ ~Cleaning(b))

\* The same for every running node, a BeenetPeer restarted after a stop
\* included.  start() leaves state LEAVING, so the restarted object's new
\* loops end at once and its table keeps the retired address forever.
PeerEvictedByRunningNode ==
    \A a, b \in Nodes :
        Retired(a) ~> [](discovered[b][a] = Unknown \/ phase[b] # "running")

\* Spec 4.5 step 3 and scenario S3: once a node has recorded a peer from its
\* I_AM_HERE, the two hold the same session key for each other, so the
\* peer's HEARTBEATs decrypt.  _handle_i_am_here installs no key.
SessionKeysAgree ==
    \A a, b \in Nodes :
        (discovered[a][b] # Unknown /\ keys[b][a] # NoKey) => keys[a][b] = keys[b][a]

=============================================================================
