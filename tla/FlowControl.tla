---------------------------- MODULE FlowControl ----------------------------
(***************************************************************************)
(* The windowed flow control of DataChunker (src/beenet/transfer/         *)
(* chunker.py): the send semaphore and in-flight accounting of            *)
(* chunk_stream_with_flow_control, and the congestion window of           *)
(* acknowledge_chunk, handle_congestion and reset_flow_control.            *)
(*                                                                         *)
(* One stream of NumChunks chunks is sent.  Acknowledgements for any chunk *)
(* ever sent arrive any number of times, in any order.  The congestion    *)
(* window is a float in the code; here it is kept in units of 1/Q, so the  *)
(* 1/cwnd increase of congestion avoidance is rounded down to 1/Q.         *)
(* The tail of acknowledge_chunk, bandwidth estimation and chunk-size      *)
(* adaptation, is kept: metrics.bytes_acked is never incremented, so the   *)
(* estimate is always 0.  Send times are positive wall-clock differences,  *)
(* so the average RTT is positive and only its sign matters.               *)
(***************************************************************************)
EXTENDS Integers, FiniteSets

CONSTANTS InitialWindow,      \* FlowControlConfig.initial_window_size
          MaxWindow,          \* FlowControlConfig.max_window_size
          MinWindow,          \* FlowControlConfig.min_window_size
          Q,                  \* fixed-point scale of the congestion window
          NumChunks,          \* chunks in the stream
          CongestionSignals,  \* whether a caller ever invokes handle_congestion
          ResetCalls,         \* whether a caller ever invokes reset_flow_control
          InitialChunkSize,   \* DataChunker(chunk_size=...)
          ProposedSizes       \* sizes a caller passes to negotiate_chunk_size

ASSUME MinWindow >= 1 /\ MinWindow <= InitialWindow /\ InitialWindow <= MaxWindow
\* DataChunker's class constants, and the maxlen of bandwidth_samples.
MIN_CHUNK_SIZE == 4 * 1024
MAX_CHUNK_SIZE == 64 * 1024
DEFAULT_CHUNK_SIZE == 16 * 1024
BandwidthHistory == 10

ASSUME InitialChunkSize \in MIN_CHUNK_SIZE..MAX_CHUNK_SIZE /\ ProposedSizes \subseteq Nat
ASSUME Q >= 1 /\ NumChunks >= 1 /\ {CongestionSignals, ResetCalls} \subseteq BOOLEAN

VARIABLES
    windowSize,   \* _window_size
    inFlight,     \* _in_flight
    cwnd,         \* _congestion_window * Q
    ssthresh,     \* _slow_start_threshold (always integral)
    slowStart,    \* _in_slow_start
    pending,      \* DOMAIN _pending_chunks
    permits,      \* the value of the current _send_semaphore
    nextIndex,    \* chunk_index of the stream generator
    sender,       \* the generator: "idle"; "waiting" in acquire; "woken", handed
                  \* a permit by release() but not yet resumed; or "stranded",
                  \* waiting on a semaphore that reset_flow_control replaced
    sent,         \* ghost: every chunk index ever sent
    chunkSize,    \* chunk_size
    bwSamples,    \* len(metrics.bandwidth_samples)
    firstSize,    \* ghost: the chunk_size chunk 0 was read with (0 before)
    resized       \* ghost: a later chunk but the final one was read with another

vars == <<windowSize, inFlight, cwnd, ssthresh, slowStart, pending, permits,
          nextIndex, sender, sent, chunkSize, bwSamples, firstSize, resized>>
chunkVars == <<chunkSize, bwSamples>>
sizeVars == <<firstSize, resized>>

Chunks == 0..(NumChunks - 1)

TypeOK ==
    /\ windowSize \in MinWindow..MaxWindow
    /\ inFlight \in Int
    /\ cwnd \in (MinWindow * Q)..(MaxWindow * Q)
    /\ ssthresh \in MinWindow..MaxWindow
    /\ slowStart \in BOOLEAN
    /\ pending \subseteq Chunks
    /\ permits \in Nat
    /\ nextIndex \in 0..NumChunks
    /\ sender \in {"idle", "waiting", "woken", "stranded"}
    /\ sent \subseteq Chunks
    /\ chunkSize \in MIN_CHUNK_SIZE..MAX_CHUNK_SIZE
    /\ bwSamples \in 0..BandwidthHistory
    /\ firstSize \in 0..MAX_CHUNK_SIZE
    /\ resized \in BOOLEAN

Init ==
    /\ windowSize = InitialWindow
    /\ inFlight = 0
    /\ cwnd = InitialWindow * Q
    /\ ssthresh = MaxWindow \div 2
    /\ slowStart = TRUE
    /\ pending = {}
    /\ permits = InitialWindow
    /\ nextIndex = 0
    /\ sender = "idle"
    /\ sent = {}
    /\ chunkSize = InitialChunkSize
    /\ bwSamples = 0
    /\ firstSize = 0
    /\ resized = FALSE

MaxNat(a, b) == IF a > b THEN a ELSE b
MinNat(a, b) == IF a < b THEN a ELSE b

\* The bookkeeping after the semaphore is acquired: _pending_chunks,
\* _in_flight and the yielded chunk index; the chunk is read from the
\* buffer with the chunk_size of this moment.
TrackChunk ==
    /\ firstSize' = IF nextIndex = 0 THEN chunkSize ELSE firstSize
    /\ resized' = (resized \/ (0 < nextIndex /\ nextIndex < NumChunks - 1 /\ chunkSize # firstSize))
    /\ pending' = pending \cup {nextIndex}
    /\ inFlight' = inFlight + 1
    /\ nextIndex' = nextIndex + 1
    /\ sent' = sent \cup {nextIndex}

\* chunk_stream_with_flow_control reaches `await self._send_semaphore.acquire()`
\* for its next chunk: it takes a free permit and yields the chunk, or blocks.
Acquire ==
    /\ sender = "idle"
    /\ nextIndex < NumChunks
    /\ IF permits > 0
       THEN /\ permits' = permits - 1
            /\ TrackChunk
            /\ UNCHANGED sender
       ELSE /\ sender' = "waiting"
            /\ UNCHANGED <<permits, pending, inFlight, nextIndex, sent, sizeVars>>
    /\ UNCHANGED <<windowSize, cwnd, ssthresh, slowStart, chunkVars>>

\* The event loop resumes the woken generator; the permit release() handed
\* it is already taken from the counter.
Wake ==
    /\ sender = "woken"
    /\ TrackChunk
    /\ UNCHANGED permits
    /\ sender' = "idle"
    /\ UNCHANGED <<windowSize, cwnd, ssthresh, slowStart, chunkVars>>

\* Mutant of GrownWindow: the cap at max_window_size left out.
GrownWindowUncapped ==
    IF slowStart THEN cwnd + Q ELSE cwnd + (Q * Q) \div cwnd

\* The congestion window after one ACK: +1 in slow start, +1/cwnd (rounded
\* down to 1/Q) in congestion avoidance, capped at max_window_size.
GrownWindow ==
    MinNat(IF slowStart THEN cwnd + Q ELSE cwnd + (Q * Q) \div cwnd, MaxWindow * Q)

\* n calls of Semaphore.release() (Python 3.11): the first one goes straight
\* to a waiting generator (_wake_up_next), the others to the counter.
Release(n) ==
    IF sender = "waiting"
    THEN /\ permits' = permits + n - 1
         /\ sender' = "woken"
    ELSE /\ permits' = permits + n
         /\ UNCHANGED sender

\* _adapt_chunk_size(bandwidth, rtt) with bandwidth 0: the bandwidth-delay
\* product is 0, so the optimal size is MIN_CHUNK_SIZE, and chunk_size moves
\* towards it by at most 1024.
OptimalChunkSize(bdp) == MaxNat(MIN_CHUNK_SIZE, MinNat(bdp \div 10, MAX_CHUNK_SIZE))

AdaptChunkSize(bdp) ==
    LET opt == OptimalChunkSize(bdp) IN
    IF opt > chunkSize THEN MinNat(chunkSize + 1024, opt)
    ELSE IF opt < chunkSize THEN MaxNat(chunkSize - 1024, opt)
    ELSE chunkSize

\* _estimate_bandwidth: append bytes_acked / avg_rtt (always 0) to the
\* bounded deque, and adapt once it holds three samples.
EstimateBandwidth ==
    LET len == MinNat(bwSamples + 1, BandwidthHistory) IN
    /\ bwSamples' = len
    /\ chunkSize' = IF len >= 3 THEN AdaptChunkSize(0) ELSE chunkSize

\* Mutant of Ack: a single release, whatever the growth of the window.
AckSingleRelease(id) ==
    /\ id \in pending
    /\ pending' = pending \ {id}
    /\ inFlight' = inFlight - 1
    /\ cwnd' = GrownWindow
    /\ slowStart' = (slowStart /\ ~(cwnd + Q >= ssthresh * Q))
    /\ Release(1)
    /\ windowSize' = MaxNat(windowSize, GrownWindow \div Q)
    /\ EstimateBandwidth
    /\ UNCHANGED <<ssthresh, nextIndex, sent, sizeVars>>

\* acknowledge_chunk(chunk_id): an id not in _pending_chunks returns early
\* (a stutter); otherwise one release for the acknowledged chunk and one
\* more per unit the integral window grew; then the bandwidth estimate.
Ack(id) ==
    /\ id \in pending
    /\ pending' = pending \ {id}
    /\ inFlight' = inFlight - 1
    /\ cwnd' = GrownWindow
    /\ slowStart' = (slowStart /\ ~(cwnd + Q >= ssthresh * Q))
    /\ LET newWindow == GrownWindow \div Q IN
       IF newWindow > windowSize
       THEN /\ Release(1 + (newWindow - windowSize))
            /\ windowSize' = newWindow
       ELSE /\ Release(1)
            /\ UNCHANGED windowSize
    /\ EstimateBandwidth
    /\ UNCHANGED <<ssthresh, nextIndex, sent, sizeVars>>

\* handle_congestion: halve the window.  Draining the excess permits calls
\* asyncio.Semaphore.acquire_nowait, which does not exist: when the
\* semaphore is not locked the first call raises AttributeError after the
\* window, threshold and slow-start flag have changed but before
\* _window_size has; when it is locked the loop drains nothing and
\* _window_size is lowered anyway.  locked() holds when the counter is 0
\* or a waiter (woken or not) has not resumed yet.
Locked == permits = 0 \/ sender \in {"waiting", "woken"}

HandleCongestion ==
    LET halved == MaxNat((cwnd \div Q) \div 2, MinWindow) IN
    /\ CongestionSignals
    /\ ssthresh' = halved
    /\ cwnd' = halved * Q
    /\ slowStart' = FALSE
    /\ IF halved < windowSize /\ Locked
       THEN windowSize' = halved
       ELSE UNCHANGED windowSize
    /\ UNCHANGED <<inFlight, pending, permits, nextIndex, sender, sent, chunkVars, sizeVars>>

\* Mutant of ResetFlowControl: _pending_chunks is not cleared.
ResetKeepPending ==
    /\ ResetCalls
    /\ windowSize' = InitialWindow
    /\ inFlight' = 0
    /\ cwnd' = InitialWindow * Q
    /\ ssthresh' = MaxWindow \div 2
    /\ slowStart' = TRUE
    /\ permits' = InitialWindow
    /\ sender' = IF sender = "waiting" THEN "stranded" ELSE sender
    /\ bwSamples' = 0
    /\ UNCHANGED <<pending, nextIndex, sent, chunkSize, sizeVars>>

\* reset_flow_control: every field back to its initial value and a new
\* semaphore and fresh metrics; chunk_size is left as adapted.  A
\* generator waiting on the old one is never woken; one that
\* was already woken resumes and tracks its chunk in the fresh state.
ResetFlowControl ==
    /\ ResetCalls
    /\ windowSize' = InitialWindow
    /\ inFlight' = 0
    /\ cwnd' = InitialWindow * Q
    /\ ssthresh' = MaxWindow \div 2
    /\ slowStart' = TRUE
    /\ pending' = {}
    /\ permits' = InitialWindow
    /\ sender' = IF sender = "waiting" THEN "stranded" ELSE sender
    /\ bwSamples' = 0
    /\ UNCHANGED <<nextIndex, sent, chunkSize, sizeVars>>

\* negotiate_chunk_size(proposed, peer_max): an out-of-range size is
\* replaced by the default, the smaller one is clamped to the bounds and
\* becomes chunk_size.  Nothing stops a call while a stream is running.
NegotiateChunkSize(proposed, peerMax) ==
    LET valid(sz) == IF sz \in MIN_CHUNK_SIZE..MAX_CHUNK_SIZE THEN sz ELSE DEFAULT_CHUNK_SIZE
        agreed == MinNat(valid(proposed), valid(peerMax))
    IN /\ chunkSize' = MaxNat(MIN_CHUNK_SIZE, MinNat(agreed, MAX_CHUNK_SIZE))
       /\ UNCHANGED <<windowSize, inFlight, cwnd, ssthresh, slowStart, pending, permits,
                      nextIndex, sender, sent, bwSamples, sizeVars>>

Next ==
    \/ Acquire
    \/ Wake
    \/ \E id \in sent : Ack(id)
    \/ HandleCongestion
    \/ ResetFlowControl
    \/ \E p, m \in ProposedSizes : NegotiateChunkSize(p, m)

\* The consumer keeps pulling chunks from the generator, the event loop runs
\* a woken generator, and the transport delivers the ACK of every chunk
\* still pending (the receiver acknowledges every chunk it gets).
Fairness ==
    /\ WF_vars(Acquire)
    /\ WF_vars(Wake)
    /\ \A id \in Chunks : WF_vars(Ack(id))

Spec == Init /\ [][Next]_vars /\ Fairness

-----------------------------------------------------------------------------
(* Properties                                                              *)

\* Spec 4.6.4: semaphore-style admission keeps at most W chunks in flight,
\* where W is the current window (_window_size).  Congestion lowers W and
\* reset_flow_control zeroes _in_flight while a chunk may still be admitted.
InFlightWithinWindow == inFlight <= windowSize

\* No permit is ever lost: the free permits of the current semaphore, a
\* permit handed to a woken generator and the chunks in flight together
\* cover the window, through any order of acquires, wake-ups, (duplicate,
\* late) ACKs, window growth, congestion signals and resets.  So with
\* nothing in flight the current semaphore has a free permit; a generator
\* that a reset left waiting on the old semaphore is not woken by it (see
\* the "Reset while waiting" finding).
NoPermitLeak ==
    permits + inFlight + (IF sender = "woken" THEN 1 ELSE 0) >= windowSize

\* _in_flight counts exactly the chunks in _pending_chunks: a duplicate or
\* late ACK, a congestion signal or a reset racing a woken generator never
\* makes the counter and the map disagree.
InFlightIsPending == inFlight = Cardinality(pending)

\* Spec 4.6.1: the chunk size is negotiated per transfer, so every chunk of
\* the stream but the final, shorter one is read with the same chunk_size;
\* the receiver writes chunk i at i * chunk_size.  acknowledge_chunk's
\* adaptation changes chunk_size while chunk_stream_with_flow_control is
\* still reading chunks with it.
ChunkSizeFixed == ~resized

=============================================================================
