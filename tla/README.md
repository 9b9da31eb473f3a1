# TLA+ models of beenet

These modules model the stateful parts of beenet (`src/beenet/`). TLC checks them. Each module is translated from the Python source. Every definition that models code is listed with its source lines in `PROJECT.json` under `"map"`.

## The system and its parts

beenet is an asyncio peer-to-peer library. Its parts, leaves first:

| Part | Source | What it holds and does |
|---|---|---|
| Keystore | `crypto/keystore.py` | An in-memory map of secret blobs, saved to disk by temp file + replace, optionally Fernet-encrypted under a passphrase. |
| Identity, static keys | `crypto/identity.py`, `crypto/keys.py` | An Ed25519 identity and an X25519 static key, stored in the keystore, with signed rotation. |
| Noise channel | `crypto/noise_wrapper.py` | The Noise XX handshake state and the transport cipher of a connection. |
| Connection manager | `core/connection.py` | A TCP server and outgoing connections, each with a Noise wrapper. |
| BeeQuiet discovery | `discovery/beequiet.py` | Multicast WHO / I-AM challenge-response, per-address session keys, heartbeats, goodbyes and timeouts. |
| Merkle tree | `transfer/merkle.py` | BLAKE2b leaf hashes, tree, proofs and their verification. |
| Reed-Solomon coding | `transfer/error_correction.py`, `transfer/enhanced_merkle.py` | RS blocks with a BLAKE2b checksum each, and a Merkle tree that stores an ECC block per chunk and recovers a corrupted chunk from it. |
| Chunker and flow control | `transfer/chunker.py` | Fixed-size chunking. A window of send permits, an asyncio semaphore, and congestion control. |
| Transfer stream | `transfer/stream.py` | The receiving state of a transfer: the completed set, the pre-sized file, the saved state file and resume. |
| Resilience manager | `core/resilience.py` | Peer scores and states, the blacklist, reconnection tasks with backoff, and a cleanup loop. |
| NAT traversal | `discovery/nat_traversal.py` | A cached STUN external address, aioice ICE connections, and UDP hole punching. |
| Peer, events, observability, Kademlia, demo | other files | The glue and collaborators around the core. |

Everything runs on one asyncio event loop. Two coroutines interleave only at an `await`. So each action in these modules runs from one await to the next, and a handler with no await is one action.

## Modules

### Merkle.tla, MCMerkle.tla: the Merkle tree (`transfer/merkle.py`)

These are pure operators. `Hash` is an injective constructor over symbol strings. `HashPair(l, r)` is the hash of the concatenation `<<l, r>>`, which is exactly how `hash_pair` works: it uses the same function as `hash_chunk`, with no domain separation.

The operators translate these functions:

| Operator | Code |
|---|---|
| `NextLevel`, `TreeLevels`, `BuildTree` | the while loop of `build_tree` |
| `ProofHashes`, `GenerateProof` | `generate_proof` |
| `FoldStep`, `VerifyProof` | `MerkleProof.verify` |
| `VerifyChunk` | `verify_chunk` |

MCMerkle enumerates every list of 1 to 6 chunks over three chunk values as initial states. It compares the operators with a reference: `RefNode` computes the node at height k and position p directly, without iterating levels.

### EnhancedMerkle.tla: Reed-Solomon coding over the tree (`transfer/error_correction.py`, `transfer/enhanced_merkle.py`)

These are pure operators over Merkle. `EncodeData(data, ecc)` covers both settings of `enable_ecc`: with ECC off it is one block holding the data itself, with E = 0 and the checksum `__post_init__` computes. `DecodeBlocks` is the decoder of a codec with ECC on; a block with E = 0 passes through it undecoded (`BlockBytes`) but is still checked against its checksum, and `DecodeBlocksExpecting` adds the `expected_length` check. The RS codec is kept to its guarantee, not its arithmetic. A codeword is the message, the codec's E (`nsym`) and the number of its symbols altered in transit. A codec of the same E decodes it exactly when at most E/2 symbols are altered. Otherwise, or with a codec of another E, it raises (`Fail`) or returns other bytes (`Altered`: the first symbol replaced by `Bad`, which no chunk contains). Results that depend on the decoder are sets of outcomes.

| Operator | Code |
|---|---|
| `ECCBlock`, `Checksum`, `Codeword`, `EncodeData` | `ECCBlock.__post_init__`, `encode_data` |
| `RSDecode`, `DecodeBlock`, `DecodeAll`, `DecodeBlocks` | `decode_blocks`: sort by id, decode, compare the checksum, concatenate; any failure raises |
| `AddChunkWithEcc`, `TreeOf` | `add_chunk_with_ecc`: cache, keep `ecc_blocks[0]` only, pad with placeholders, set the hash |
| `GenerateEnhancedProof` | `generate_enhanced_proof` |
| `AttemptRecovery`, `VerifyEnhancedProof` | `EnhancedMerkleProof.attempt_recovery`, `verify`, which decode with a default codec (E = 10) |
| `VerifyChunkWithRecovery` | `verify_chunk_with_recovery`: the standard check, then recovery, then the recovered bytes checked as the chunk, and else re-rooted at their own hash |

MCMerkle extends EnhancedMerkle. For each list of chunks it builds the tree with `TreeOf`. Inside the properties it quantifies over the received data (intact or altered), over the number of symbols altered in the ECC block (0 to E), and over the E of the decoding codec.

### Chunker.tla: the stateless chunker (`transfer/chunker.py`)

`chunk_data`, `chunk_file`, the legacy `chunk_stream` (with `adaptive_chunking` off, so no flow control), `reassemble_chunks` and `calculate_chunk_count` are pure operators. A chunk is the pair `<<index, bytes>>` the generators yield.
- `Drain` is the inner `while buffer.tell() >= chunk_size` loop. It reads one chunk and writes the rest of the buffer into a fresh one.
- `StreamFrom` feeds the stream's pieces through `Drain` one by one, and yields a non-empty final buffer as the last chunk.
- `ReassembleChunks` builds the index dict, where a later duplicate replaces an earlier one. It then concatenates indices 0..max_index, or returns `Missing` at a gap.

TransferStream takes `ChunkFile` from this module. MCMerkle reads each list of chunks as the pieces of an async stream, and `ChunkersAgree` compares the operators for chunk sizes 1 to 3.

### TransferStream.tla, MCTransferStream.tla: the receiver (`transfer/stream.py`)

**State.**
- `stream`: the in-memory `TransferStream`. It holds its `state` (total, completed set, root, chunk size) and whether `_file_path` is set.
- `file`: the received file on disk.
- `stateFile`: the saved state file. It may be `Torn`.

**Actions.** Each models a whole method:
- `StartReceive`: `start_receive`.
- `ReceiveChunk(m)`: `receive_chunk`. Every early return is a stutter.
- `SaveState`: `save_state`.
- `ResumeTransfer`: `resume_transfer`.

`Restart` is the environment: the receiving process stops and a fresh `TransferStream` is made. Memory is lost and the disk survives. A stop inside `save_state`'s `open("w")` can tear the state file.

**Inputs.** The sender's file is the constant `Data`, chunked by `ChunkFile` (`chunk_file`). Messages are the honest ones (`Honest(i)`, the code of `send_chunk`), plus two faults that `Faults` switches on:
- corrupted copies (`"corrupt"`);
- replays of a genuine chunk and proof under another index (`"forge"`).

Any message may be delivered any number of times, in any order.

### FlowControl.tla, MCFlowControl.tla: window admission (`transfer/chunker.py`)

**State.** The module holds the fields of `DataChunker`'s flow control:
- `_window_size`, `_in_flight`, the slow-start flag and the threshold;
- the congestion window, in units of 1/Q because it is a float in the code;
- the keys of `_pending_chunks`;
- the counter of the current `asyncio.Semaphore`;
- the generator of `chunk_stream_with_flow_control`. It is idle, waiting in `acquire`, woken, or stranded on a replaced semaphore;
- `chunk_size` in bytes, and the number of bandwidth samples (the deque keeps at most 10);
- two ghosts: the size the stream's first chunk was read with, and whether a later chunk other than the final one was read with another size.

**Semaphore semantics.** These are Python 3.11's: `release()` hands a permit straight to a waiter (`_wake_up_next`), and `locked()` is true while a woken waiter has not resumed.

**Actions.**
- `Acquire`, `Wake`: the generator.
- `Ack(id)`: `acknowledge_chunk`, for any chunk ever sent, so duplicate and late ACKs are included. It includes the handler's tail: `EstimateBandwidth` and `AdaptChunkSize`. `bytes_acked` is never incremented, so the estimate is 0, and from the third sample on every ACK moves `chunk_size` 1 KiB towards `MIN_CHUNK_SIZE`. RTTs are wall-clock differences, so they are positive and only their sign matters.
- `NegotiateChunkSize(p, m)`: `negotiate_chunk_size`, with p and m from `ProposedSizes` (one valid size and one above the maximum, which is replaced by the default).
- `HandleCongestion`: `handle_congestion`. It calls `acquire_nowait`, which does not exist on `asyncio.Semaphore`: the call raises when the semaphore is not locked, and is never reached when it is.
- `ResetFlowControl`: `reset_flow_control`.

### Resilience.tla, MCResilience.tla: the resilience manager (`core/resilience.py`)

**State.**
- the `_running` flag and the cleanup task;
- `peer_states`;
- the counters of each `PeerScore`, and whether `last_seen` is less than a day old;
- `blacklisted_peers` entries: active or expired;
- the `reconnection_tasks` map;
- every task created, with its attempt counter and where it is (new, sleeping, done, cancelled).

**Actions.** Each public method is one action: `Start`, `Stop`, `RecordConnectionAttempt`, `RecordTransferAttempt`, `UpdatePeerStateCall`, `ScheduleReconnection`, `CancelReconnection`. Each reconnection task runs in steps from await to await: `TaskStart` runs up to the first sleep, and `TaskWake` runs after each backoff sleep. `CleanupTick` is one round of `_cleanup_loop`. `DayPasses` is the passing of time.

**Score.** The score is compared exactly, with denominators cleared (`ScoreBelow`). Latency is 1.0 because callers pass none. Uptime is 1.0 because nothing changes it.

**Blacklisting.** It makes `_blacklist_peer` and `update_peer_state` call each other until `RecursionError`. The model takes the outcome: the entry is active, the state is `BLACKLISTED`, the exception propagates, and `cancel_reconnection` is never reached.

### BeeQuiet.tla, MCBeeQuiet.tla: LAN discovery (`discovery/beequiet.py`)

**Abstraction.** A node's address stands for both its peer id and its `host:port`. A nonce or response is a pair of the node that drew it and a counter. `DeriveKey(nonce, resp)` is the pair of the two. That is enough for the one fact the properties need: two sides hold the same key iff they used the same nonce and response. A sealed datagram opens iff the receiver's key for the sender is the key it was sealed with. Time passes in ticks of 30 s, the heartbeat interval. `last_seen` is kept as an age in ticks, capped at `TimeoutTicks + 1`.

**State.**
- `phase`: off, running, leaving (inside `stop()`, goodbyes sent) or stopped.
- `leaving`: `self.state == LEAVING`. `stop()` sets it and nothing resets it.
- `loops`: the object has live loop tasks.
- `keys` and `discovered`: `_session_keys` and `_discovered_peers`, per node.
- `hbDue` and `cleanupDue`: a loop whose sleep has ended and whose round has not run yet.
- `net`: each datagram in flight, with the copies left to deliver.

**Actions.**
- `Start`: `start` with `send_who_is_here`, on the same object: a first start, a restart after `stop()` (BeenetPeer keeps one object, `peer.py` 50/97/153), or a start on a running object. The tables and `state` are kept. After a stop, the new loops find `state` LEAVING and end at once. The WHO goes to every receiving node and to the sender itself, as multicast loopback does.
- `Recreate`: a new object on the address of a stopped one (a new process): `__init__` gives empty tables and state DISCOVERING, then `start`.
- `StopBegin`: the goodbyes of `stop()` and the cancelled heartbeat task. `StopEnd`: the cancelled cleanup task and the closed transport. Handlers that run between the cancel and the close commute with the cancel, so the two are one step.
- `Deliver(m)`: `datagram_received` with one of the four handlers. `HandleWhoIsHere` includes `send_i_am_here` and caches the responder's key. `HandleIAmHere` records the peer and installs no key. `HandleHeartbeat` and `HandleGoodbye` act only if the datagram opens.
- `Drop(m)`: the datagram is lost.
- `HeartbeatRound(n)`, `CleanupRound(n)`: one round of `_heartbeat_loop` and `_cleanup_loop`.
- `Tick`: 30 s pass, so every live loop's sleep ends and every age grows, a stopped object's included. A cleanup round that ends after `stop()` set LEAVING is the loop's last.

### Keystore.tla, MCKeystore.tla: the keystore, static keys and identity (`crypto/keystore.py`, `crypto/keys.py`, `crypto/identity.py`)

**State.**
- `file`, `tmp`, `saltExists`: `keystore.json`, `keystore.tmp` and the salt file. A file is its format (plain or Fernet) and its map. `tmp` may be `Torn`.
- `up`: a process holds a `KeyStore` object. Its fields are `loaded`, `mem` (`_keys`), `pass` and `fernet`.
- `pc`: a `_save_keystore` in progress. It records the bytes being written and what the call does once the save returns: close, a delete returning True, or the static key or the identity becoming current.
- `current`: `KeyManager._current_static_key`. `signing`: `Identity._signing_key`.
- Ghosts: `lastOpen` (the outcome of the last `open()`) and `deleted` (the keys whose `delete_key` returned True and that were not stored again).

**Actions.** Each public call is one action up to its save: `Open`, `StoreKey`, `DeleteKey`, `RotateKey`, `ListKeys`, `Flush`, `Close`, `SetPassphrase`, `LoadOrGenerateStaticKey`, `RotateStaticKey`, `LoadOrGenerateIdentity`, `RotateIdentity`. The two identity calls differ in order: `load_or_generate_identity` sets `_signing_key` to a fresh key before awaiting `store_key`, and `rotate_identity` sets it only after `store_key` returns. `_load_keystore` is the operator `LoadKeystore`, shared by `open()` and `_ensure_initialized`. `_save_keystore` is two steps, `WriteTemp` and `ReplaceFile`, with `WriteFails` for an `OSError` in the write. `ProcessEnds` is the environment: the process exits, or crashes mid-save and may tear the temp file. Memory is lost and the disk survives. The next `Open` may use the passphrase or none.

### NoiseSession.tla: what a pair of Noise sessions promises

This is the abstract specification, written from spec 4.4 and 3. Each session goes `uninit`, then `in_progress`, then `transport`. `committed` records that a session has sent its last handshake message. A session may reach `transport` only once its peer has committed, and it then reports the peer's static key. `Encrypt` is allowed only in `transport`. Nothing forces progress.

### NoiseChannel.tla, MCNoiseChannel.tla: the Noise wrapper (`crypto/noise_wrapper.py`)

**State.**
- Two sessions, an initiator and a responder.
- The wrapper's own fields: `started` (`_noise` set), `complete` (`_handshake_complete`) and `remote` (`_remote_static_key`). A static key is named by its session.
- The library's `NoiseConnection` is abstracted to `pos`, the number of XX messages it has processed. `ReadTurn` and `Finished` (`handshake_finished`) are defined from `pos`. `dead` means a failed read left the handshake unusable.
- `net` is the set of handshake messages in flight, each an index and an intact flag. `sent` counts encrypted frames.

**Actions.**
- `StartHandshake`: the initiator writes message 1.
- `ProcessHandshakeMessage` covers every branch of the handler:
  - a read out of turn raises with no change;
  - a wrong or corrupted message kills the session;
  - a read that finishes the pattern completes the session;
  - any other read writes the reply and returns it.
- `Encrypt`.
- `Lose` and `Corrupt` are the wire. With `"dup"`, a processed message may stay on the wire to be replayed.
- The harness sends whatever the wrapper returns, as scenario S4 drives it.

**Refinement.** `Abstract == INSTANCE NoiseSession WITH ...` maps the sessions' fields onto the abstract ones:
- `hs` comes from `started` and `complete`;
- `committed` is `pos` at or beyond the session's last write (3 for the initiator, 2 for the responder);
- `peerKey` is `remote`.

`NoiseSessionRefined == Abstract!Spec` is checked as a PROPERTY.

### ConnectionManager.tla, MCConnectionManager.tla: the connection manager (`core/connection.py`)

**State.**
- `listening`: `_servers`.
- `conns`: `_connections`, a function from peer id to Connection.
- `opened` and `closed`: the Connections made, and those whose transport is closed.
- `pending`: accepted sockets whose `_handle_client` has not run yet.
- `pc` and `target`: each `connect_to_peer` call.

**Actions.** Every lock section awaits only coroutines that never suspend, so each is one step. `connect_to_peer` is split at `open_connection` into `ConnectBegin`, then `ConnectOpened` or `ConnectFailed`. An inbound connection is `Accept`, then later `HandleClient`. The other actions are `Start`, `Stop`, `DisconnectPeer` and `HandleKeyRotation`. `CloseAll` is `Connection.close` and `StopServer` is `stop_server`.

### Kademlia.tla: the DHT wrapper (`discovery/kademlia.py`)

This module models the lifecycle of `KademliaDiscovery`. A `kademlia.network.Server` is a model value. `bound` holds the Servers whose UDP transport is open. `Server()` yields any model value that no live reference holds. `start` is split at its awaits:
- `KadStartBegin`: a running node is stopped first (`StopNode`), or a new Server is made.
- `KadRestarted`: the stop's sleep ends.
- `KadListen`: `listen` binds, or raises. With `FixedPort`, it cannot bind while an earlier Server holds the port. The bootstrap-node parsing that follows may raise.
- `KadBootstrapped`: `bootstrap` returns, and `_running` is set, or it raises.

`KadStop` is `stop`, whose sleep changes nothing here. `Answers` is the guard of `find_peer` and `register_peer`. The DHT's routing and storage are the library's, so a query may find a record or not. The module has no run of its own; Peer instantiates it.

### Peer.tla, MCPeer.tla: BeenetPeer composed with its manager and its DHT node (`core/peer.py`)

`Peer` EXTENDS `ConnectionManager`, and its actions drive the manager's actions. It instantiates `Kademlia` on its own variables `kRunning`, `kDht`, `kBound` and `kStage`.

**State.**
- `running` is `_running`.
- `stage` is the lifecycle. It includes the points inside `start()` (in `kademlia.start`, and after it) and inside `stop()` where it suspends.
- `call` and `kind` describe each caller task: a `send_file` or a `connect_to_peer` call, and its stage.
- `transfers` is `_transfers`.

**Actions.**
- `PeerStart` is the manager's start and `kademlia.start` up to its first await. `PeerKademlia` is each later step of `kademlia.start`. `PeerStartRest` is `register_peer`, BeeQuiet, NAT and resilience. A failure in either returns the peer to `down`; `stop()` returns at once, and the server stays up, as does a DHT transport bound before the failure.
- `stop()` is split at its awaits into `PeerStopBegin` (BeeQuiet stop and `KadStop`), `PeerStopConnections` (`connection_manager.stop`) and `PeerStopEnd`.
- `SendFile` and `ConnectCall` enter the manager through `EnterManager`. `SendFile` goes through `Lookup` (`find_peer`) when the peer is not connected.
- `Opened` and `Failed` complete `open_connection`.
- Inbound connections and the application's `disconnect_peer` and `handle_key_rotation` are the manager's own actions.

**Harness assumption.** One lifecycle caller starts and stops the peer.

`MCConnectionManager` with `MCConnectionManagerLeak.cfg` checks the manager alone, with direct callers, and finds the same leak.

### NatTraversal.tla, MCNatTraversal.tla: NAT traversal (`discovery/nat_traversal.py`)

**State.**
- `extAddr`: `_external_address`. `ice`: `_ice_connection`.
- `opened` and `used`: the aioice Connections that are open, and every one ever created. A Connection is a model value.
- `call`: where each calling task is, and the Connection it made.
- `closing`: the Connection an unfinished `cleanup()` is closing.
- `punch`: each node's `send_punch_packets` task. `net`: the nodes whose punch packets are in flight. `punched`: the nodes whose `perform_hole_punching` returned an address.

**Actions.** Two calls have no await, so each is one step. `DiscoverExternalAddress` is one: `get_ip_info` blocks. `PerformHolePunching` is the other: `recvfrom` blocks. Hole punching schedules `send_punch_packets` and cancels it in `finally` before the loop ever runs it, so `PunchTaskRuns` is never enabled. Three calls are split at their awaits:
- `establish_ice_connection`: `EstablishIceBegin`, `IceGathered`, `IceConnected`.
- `get_local_candidates`: `LocalCandidatesBegin`, `LocalCandidatesEnd`.
- `cleanup`: `CleanupBegin`, `CleanupEnd`.

Only `discover_external_address` and `cleanup` have callers (Peer's start and stop). Peer does not instantiate this module: with no ICE call, `cleanup` is a no-op.

**Properties.** Both are violated, and neither is a run (see Findings):
- `NoOrphanIceConnection`: every open Connection is referenced.
- `HolePunchingMeets`: two nodes punching towards each other get a hole.

## Runs

| Run | Checks | Result |
|---|---|---|
| `merkle` | `RootMatchesReference`, `GeneratedProofsVerify`, `CodecCorrects`, `VerifiedIsOriginal`, `ChunkersAgree` | pass: `build_tree` equals the positional reference, and every generated proof verifies and has one sibling per level. `decode_blocks` returns the data within E/2 altered symbols per block, and never returns other bytes, however many are altered, whatever the codec's E, and also for a block encoded with ECC off: the checksum catches every miscorrection and every altered byte, and a wrong `expected_length` raises. `verify_chunk_with_recovery` never reports anything but the original chunk as verified. `chunk_data`, `chunk_file` and `chunk_stream` give the same pairs, however the stream is cut (an empty piece included). `calculate_chunk_count` counts them. `reassemble_chunks` inverts them in any order and with duplicates. With one chunk lost it raises, except for the last chunk: then it returns the shorter bytes without error. That is what spec 4.6.1 allows, since only a gap is fatal. |
| `stream` | `TypeOK`, `FileHoldsOnlyVerifiedBytes` | pass: through corruption, duplication, reordering, restarts, torn state files and resumes, every chunk slot of the file holds zeros or the sender's bytes. |
| `stream_restart` | `CompleteFileVerifies` | violation: the path is save, restart, resume. `resume_transfer` does not restore `_file_path`, so later chunks are marked complete without being written. The complete transfer then fails `verify_complete_file`, against scenario S6. |
| `flow` | `TypeOK`, `NoPermitLeak`, `InFlightIsPending` | pass: with congestion signals, resets and duplicate ACKs, no permit is lost and `_in_flight` equals the number of pending chunks. |
| `resilience` | `TypeOK`, `TasksTracked`, `TasksTerminate` | pass: every live reconnection task is the registered one for its peer, and every task ends. |
| `beequiet` | `TypeOK`, `PeerEvictedAfterStop` | pass: with lost, delayed and reordered datagrams and an address restarted on the same or a new object, every node whose cleanup loop runs eventually forgets a peer that stopped for good. A node restarted on the same object has no such loop; see "Restarted BeeQuiet never evicts". |
| `beequiet_session_key` | `SessionKeysAgree` | violation: after one WHO / I-AM exchange, the originator has discovered the responder, but the only key is the responder's. It is derived from the originator's nonce. The responder's own WHO gives the other node a key from a different nonce. So the two keys never agree. |
| `keystore` | `TypeOK`, `AcknowledgedDeleteIsDurable`, `NoPlaintextDowngrade` | pass: through failed writes, crashes between write and rename, torn temp files and reopens with and without the passphrase, a deleted key stays deleted and an encrypted file is never replaced by plaintext. |
| `keystore_s1` | `OpenSucceeds` | violation: a new store opened with a passphrase saves plaintext, because `_fernet` is derived only when the file already exists. Reopening with the passphrase fails to decrypt. Against S1. |
| `noise` | `TypeOK`, `NoiseSessionRefined` | pass: with handshake messages lost, replayed and corrupted, every step of the two wrapper sessions is a step of `NoiseSession`. No session reaches transport, reports a remote key or encrypts before its peer has sent its last handshake message. |
| `noise_s4` | `BothComplete` | violation: on a perfect wire, the responder completes and encrypts but the initiator never completes. It finishes the XX pattern by writing message 3, and `process_handshake_message` sets `_handshake_complete` only after a read. This contradicts S4. |
| `connection_leak` | `NoLeakedTransport` | violation, on `MCPeer`: two `Peer.connect_to_peer` calls for one peer both pass the lock check and both open a transport. The second overwrites the first in `_connections`, and the first transport can no longer be closed. |

Each property of a passing run has a mutant in `PROJECT.json`. A mutant replaces one translated definition by a plausible bug, and TLC finds the property violated.

## Bounds and why they suffice

**Merkle.** 1 to 6 chunks cover every shape of the tree up to height 3: odd counts at the leaves (1, 3, 5), an odd count one level up (5 and 6 leaves give 3 nodes, whose last is paired with itself and is its own sibling in a proof), and full levels (2, 4). Repeated chunk values make equal leaves, which is what the second-preimage counterexample needs. For the ECC operators, blocks are one byte and E is the default 10, so the two-byte chunk spans two blocks. Altered-symbol counts 0 to 10 cover both sides of E/2 = 5. A second codec with E = 4 stands for a tree configured with a non-default E. For the chunker, the chunks of a list joined give 1 to 12 bytes, and the list itself is the stream's pieces, one or two bytes each. Chunk sizes 1 to 3 are below, equal to and above a piece, so a chunk both spans pieces and splits a piece, and the final chunk is short or full.

**TransferStream.** 10 bytes in chunks of 2 give 5 chunks, so the tree is odd at two levels. Every interleaving of start, receive, save, restart and resume is explored up to completion: 11,048 states, with no depth bound.

**FlowControl.** The window starts at 2 with a maximum of 4 and Q = 4. The stream has 7 chunks. In that stream, slow start ends, congestion avoidance's fractional growth reaches the cap, and the generator blocks and is woken. Seven chunks give up to seven ACKs, enough for the third bandwidth sample and four adaptations. `ProposedSizes` = {8192, 70000} covers both a valid proposal and an out-of-range one. The run explores 163,958 states.

**Resilience.** Three tasks are enough for one to replace another while the third is started after a stop. The counters reach 3, which is enough for one counted failure, a double-counted one, and a success. Two attempts per loop mean a task sleeps once between attempts. There is one peer: peers share nothing but `stop()`, and two peers multiply the score space beyond reach.

The blacklist threshold is raised to 50% in both Resilience runs. With the defaults, the score is never below 40% (latency and uptime alone give 0.4), so the branches these runs check are never taken.

**BeeQuiet.** There are two nodes: `a` may start twice (on the same or a new object) and `b` once; `MCBeeQuietRestart.cfg` swaps them, so that the restarted node is the observer. A restarted address is then seen by a peer that still holds its old entry and key. Each node answers at most two WHOs, so both nodes can answer each other after a restart. `TimeoutTicks` is 3 (the code's 90 s over 30 s ticks), so a peer goes stale only after several heartbeat rounds. Each datagram is delivered at most once. Two copies are allowed by the module, but the state space then exceeds the five-minute budget, so duplication is not checked.

**Keystore.** Three key ids (an application key, the static key's and the identity's) and two values are enough to delete one key while another is stored, and to rotate the static key and the identity. The passing run opens with and without the passphrase, with both crashes and write errors. The S1 run opens only with the passphrase. Every interleaving is explored with no depth bound: 570,912 states.

**NoiseChannel.** There is one connection with two sessions, three handshake messages, and at most two transport frames per session. The model is exact for the handshake. Every loss, replay and corruption of every message is explored: 175 states.

**ConnectionManager, Peer.** The model has one peer id, two caller tasks, one inbound connection and two DHT Servers, so a Server can replace an orphaned one. The whole Peer space has 18,472 states with bootstrap nodes and a fixed port. Two calls are the least that race, and the leak takes six steps from start. The lifecycle may cycle start and stop without bound, so every order of stop against connects and handlers is explored.

**NAT traversal** (its cfgs are not runs). Two calling tasks and three Connections are enough for the four paths that orphan a Connection: each task opens one, and there is a third for a second establish. Two nodes are enough for a pair punching towards each other. Every interleaving is explored, and both violations are found within three steps.

## Fairness

Resilience and BeeQuiet check liveness. Resilience's `Fairness` assumes weak fairness of every task step: the event loop runs every ready task, and every backoff sleep ends. Nothing is assumed of the callers or of time.

BeeQuiet's `Fairness` assumes weak fairness of `Tick`, and of each node's heartbeat and cleanup rounds. Time passes, and the event loop runs a loop whose sleep has ended. Nothing is assumed of delivery: every datagram may be lost, and `PeerEvictedAfterStop` holds even then, because eviction needs only the cleanup loop. It is stated for nodes whose cleanup loop runs: fairness of a round says nothing of a loop that has ended. Keystore checks only safety.

NoiseChannel assumes weak fairness of each session starting and of each processing a message that has reached it. The harness, like `_handle_client` and the peer it models, awaits every message on the connection. `BothComplete` is violated under exactly this fairness. The noise runs set `CHECK_DEADLOCK FALSE`, because a handshake ends and the sessions then stop. The connection run sets it too, because the manager is idle once every call has returned.

FlowControl also defines fairness: the consumer keeps pulling chunks, a woken generator is run, and the receiver acknowledges every chunk. No run checks liveness there now. The stranded generator below is a liveness failure under exactly that fairness.

## Findings

- **Resume.** `resume_transfer` forgets the file path (`stream_restart`).
- **BeeQuiet keys.** The originator never installs a session key, and the two nodes' keys come from different nonces. So no HEARTBEAT or GOODBYE between two nodes ever authenticates (`beequiet_session_key`, against 4.5 and S3). Peers are forgotten only by timeout.
- **Keystore S1.** A new passphrase store is saved in plaintext and cannot be reopened (`keystore_s1`).
- **Initiator never completes.** The initiator finishes XX by a write, and the wrapper only notices completion after a read (`noise_s4`, against S4). So `encrypt` always raises on the initiator, and `decrypt` on the responder never receives a frame.
- **Leaked transport.** Concurrent `connect_to_peer` calls for one peer leak a transport (`connection_leak`). Two `send_file` calls to an unconnected peer are enough (`peer.py` 242-245).

Also seen while modelling, but not kept as runs. These properties are defined in their modules and violated under their cfgs. The runs were retired to keep the project within twelve runs:
- **Merkle proofs.** They are not bound to the tree height, and interior and leaf hashes share one domain. See `ProofBindsLeaf` in Merkle, under `MCMerkleBinding.cfg`.
- **Congestion.** `handle_congestion` calls a method asyncio's semaphore does not have. On a locked semaphore it admits more than the window (`InFlightWithinWindow`, `MCFlowControlCongestionWindow.cfg`). Otherwise it raises after changing the congestion fields.
- **ECC of long chunks.** `add_chunk_with_ecc` keeps only the first block that `encode_data` returns. A chunk longer than `block_size` (223 bytes by default, while chunks are 64 KiB) cannot be recovered: the decoded prefix never verifies. This contradicts spec 4.6.3. `CorruptedChunkRecovered` in MCMerkle states the spec; `MCMerkleEcc.cfg` shows it violated by a two-byte chunk with one-byte blocks.
- **ECC with a non-default E.** `attempt_recovery` and `EnhancedMerkleProof.verify` decode with `ErrorCorrectionCodec()`, whose E is 10, not the tree's. A tree configured with another E never recovers anything (`MCMerkleEccConfig.cfg`, E = 4: violated by a one-byte chunk).
- **Chunk size changes mid-stream.** `bytes_acked` is never incremented, so from the third ACK on `_adapt_chunk_size` shrinks `chunk_size` by 1 KiB per ACK. The generator then reads the next chunks with the new size. `ChunkSizeFixed` (spec 4.6.1: the size is negotiated per transfer) is violated after three ACKs, with no negotiation call (`MCFlowControlChunkSize.cfg`). `reset_flow_control` does not restore `chunk_size` either.
- **Orphaned DHT transport.** A `kademlia.start` that raises after `listen` (a bootstrap node that does not parse as host:port, or a failed bootstrap) leaves its Server bound with `_running` False. `stop()` skips it, and the next `start()` drops the reference. With a fixed port, every later start fails at `listen`. `KademliaNoOrphanServer` in Peer is violated in two steps (`MCPeerKademlia.cfg`).
- **Blacklisting.** It recurses without end, so a blacklisted peer's reconnection task is not cancelled (`NoAttemptWhileBlacklisted`, `MCResilienceBlacklist.cfg`).
- **Restarted BeeQuiet never evicts.** `start()` resets neither `state` nor the tables, and `stop()` left `state` LEAVING. On a BeenetPeer that is stopped and started again, the new heartbeat and cleanup loops end at their first `while` test (`beequiet.py` 562, 576). The node keeps every peer it knew, stale or not, for the life of the process, and sends no heartbeats. `PeerEvictedByRunningNode` (every running node forgets a retired peer) is violated when `b` restarts and `a` stops for good (`MCBeeQuietRestart.cfg`).
- **Hole punching sends nothing.** `perform_hole_punching` creates the send task and then blocks in `recvfrom` without an await. It cancels the task in `finally` before the loop ever runs it. Two nodes punching towards each other both time out: `HolePunchingMeets` is violated in two steps (`MCNatTraversalPunch.cfg`).
- **Orphaned ICE connections.** Four paths leave an aioice Connection open with no reference to it: a failed or timed-out connect, a second establish, `get_local_candidates`, and an establish that completes while `cleanup` awaits `close()`. `NoOrphanIceConnection` is violated in three steps (`MCNatTraversalIce.cfg`).

Seen while modelling, with no property:
- **Stale tree after an add.** `add_chunk_with_ecc` writes `chunk_hashes` directly and never invalidates the cached root or levels. A proof generated or checked after a later add uses the stale tree. The model builds the tree from the final hash list.
- **Handshake never driven.** The connection manager calls `start_handshake` on both ends and never exchanges handshake messages. So `send_to_peer` always raises `CryptoError`.
- **Connections after stop.** `stop()` does not wait for spawned `_handle_client` tasks or for connects inside `open_connection`. These store live Connections into a stopped manager. `StoppedPeerHoldsNothing` in Peer states this, and `MCPeerStopped.cfg` shows it violated. A start that fails after the manager's start also leaves the server listening. This is not kept as a run, because the next successful start and stop closes both.
- **Unchecked remote key.** The XX remote static key is never compared with the peer id the caller expected.
- **Forged index.** `receive_chunk` does not bind the proof's index to the chunk index. A replayed chunk j with its genuine proof is written at i's offset. The property `CompletedChunksIntact` of TransferStream states it.
- **Failed store persisted.** `_store_key_unlocked` changes `_keys` before saving. A store that raised is persisted by the next flush or close.
- **Static key drift.** When `generate_static_key`'s save fails, `_keys` holds the new key but the manager keeps the old one. A later flush makes the unused key durable.
- **Unlocked open.** `open()` loads outside `_lock`. A concurrent `delete_key` can be undone by the stale load.
- **Multicast port.** `BeenetPeer` starts BeeQuiet on a random port, so it never receives WHOs sent to port 7777.
- **Unaligned file.** For a file whose size is not a multiple of the chunk size, `start_receive`'s zero padding makes `verify_complete_file` fail. It is the same property as `stream_restart` with a 5-byte file.
- **Reset while woken.** A reset between a `release()` that wakes the generator and the generator resuming admits one chunk beyond the window.
- **Reset while waiting.** A reset while the generator waits strands it on the old semaphore for good.
- **Double counting.** Both `record_connection_attempt` and `update_peer_state` count one attempt, so `connection_success_rate` is not successes over attempts.

## Not modelled, and why

| Part | Why |
|---|---|
| Noise `decrypt`, `rekey`, `get_handshake_hash` | `decrypt` needs a completed initiator, which the wrapper never produces. `rekey` has no caller. The hash is a query. |
| Cryptographic content of Noise messages | A message is its index and an intact flag. Keys are named by their session. |
| `Peer.receive_file`, `list_peers`, `get_peer_info`, resilience callbacks | `receive_file` only calls `verify_complete_file`, which TransferStream models. The others are queries, or only emit events. |
| `Peer.stop`'s exception path | A collaborator's stop raising is not modelled. |
| Identity signing, verification and peer ids; signed key-rotation messages (`identity.py` 58-131, `keys.py` 112-260) | Pure functions of bytes: they keep no state. `announce_key_rotation` only builds a JSON string. |
| Concurrent callers of one `KeyStore` | `BeenetPeer` opens the store before any other call; see the unlocked-open hazard. |
| BeeQuiet parsing errors, forged datagrams, the discovery callback | Malformed datagrams are early returns with no state change; `peer.py` passes no callback. |
| RTT values, `get_flow_control_stats`, the legacy `chunk_stream` path | Only the sign of an RTT reaches a decision. The stats are a query. The legacy path has no flow control. |
| Reed-Solomon arithmetic | GF(2^8) decoding is abstracted to its guarantee (exact within E/2 errors, else raise or miscorrect). |
| `decode_blocks` of a codec with ECC off, `simulate_errors`, `simulate_corruption_and_recovery`, `get_redundancy_info`, `estimate_recovery_probability`, `get_ecc_statistics`, `create_redundant_chunks`, `recover_from_redundant_chunks` | These are random test helpers, arithmetic queries, or fountain helpers that nothing calls. A codec with ECC off decodes by concatenation, with no checksum; the blocks it decodes are the ones `EncodeData(data, FALSE)` models. |
| Kademlia's routing and storage, `find_peers_near`, `bootstrap_from_known_peers`, routing-table queries | They are the library's, have no caller in src, or are queries. |
| NAT `_parse_stun_server`, `is_behind_nat`, `is_nat_traversal_enabled` | Parsing and queries, with no state. A parse error is a raise at the step that parses. |
| Observability, events, demo | The spec places them out of scope. They record, log and publish, and change no protocol state. |
| Progress callbacks, statistics queries, logging | They change no state. |

## Plan

Next:
1. **Peer composition.** Compose Peer with Keystore (`start` opens the store) and with the Resilience manager.
2. **Deeper Keystore properties.** Durability of a failed store, and agreement of the static key and the identity with the stored ones.
3. **Findings as runs.** `MCNatTraversalIce.cfg`, `MCNatTraversalPunch.cfg` and `MCBeeQuietRestart.cfg` show `NoOrphanIceConnection`, `HolePunchingMeets` and `PeerEvictedByRunningNode` violated. They become runs once a violation run of lower impact is retired; the budget is 12 runs and all 12 are used.
