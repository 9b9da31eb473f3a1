--------------------------- MODULE TransferStream ---------------------------
(***************************************************************************)
(* The receiving side of TransferStream (src/beenet/transfer/stream.py):  *)
(* start_receive, receive_chunk, save_state, resume_transfer and           *)
(* verify_complete_file, against a network that delivers any message of    *)
(* the sender any number of times in any order, and a receiver process    *)
(* that may restart, losing its memory but not its disk.                   *)
(*                                                                         *)
(* Bytes are 0 and 1; ChunkSize is the chunker's chunk_size in bytes,      *)
(* scaled down from KiB.  The sender's file is the constant Data.          *)
(***************************************************************************)
EXTENDS Merkle, Chunker, Naturals, Sequences, SequencesExt, FiniteSets

CONSTANTS Data,        \* the file being sent, a sequence of bytes
          ChunkSize,   \* DataChunker.chunk_size of both ends
          Faults,      \* subset of {"corrupt", "forge", "restart"}
          NoState,     \* model value: the stream's state is None
          NoFile,      \* model value: no such file on disk
          Torn         \* model value: a state file cut short by a stop

ASSUME Len(Data) > 0 /\ ChunkSize > 0
ASSUME Faults \subseteq {"corrupt", "forge", "restart"}

VARIABLES
    stream,      \* the in-memory TransferStream: its state and _file_path
    file,        \* the received file on disk, or NoFile
    stateFile    \* the saved transfer state on disk, NoFile or Torn

vars == <<stream, file, stateFile>>

\* What start_send computes at the sender.
SenderChunks == ChunkFile(Data, ChunkSize)
SenderHashes == [i \in DOMAIN SenderChunks |-> HashChunk(SenderChunks[i])]
Root == BuildTree(SenderHashes)
Total == Len(SenderChunks)
Indices == 0..(Total - 1)

-----------------------------------------------------------------------------
(* Messages {index, bytes, proof} the receiver may be handed.              *)

Honest(i) ==
    [index |-> i, data |-> SenderChunks[i + 1],
     proof |-> GenerateProof(SenderHashes, i)]

\* The same message with its first byte flipped in transit.
Corrupted(i) ==
    [Honest(i) EXCEPT !.data = [@ EXCEPT ![1] = 1 - @]]

\* A peer that replays the genuine chunk and proof of j under index i.
Replayed(i, j) ==
    [Honest(j) EXCEPT !.index = i]

Messages ==
    {Honest(i) : i \in Indices}
    \cup (IF "corrupt" \in Faults THEN {Corrupted(i) : i \in Indices} ELSE {})
    \cup (IF "forge" \in Faults
          THEN {Replayed(i, j) : i \in 0..Total, j \in Indices}
          ELSE {})

-----------------------------------------------------------------------------

TypeOK ==
    /\ stream \in [state : {NoState}
                     \cup [total : Nat, completed : SUBSET Nat,
                           root : {Root}, chunk_size : Nat],
                   file_path : BOOLEAN]
    /\ file \in {NoFile} \cup Seq({0, 1})
    /\ stateFile \in {NoFile, Torn}
                     \cup [total : Nat, completed : SUBSET Nat,
                           root : {Root}, chunk_size : Nat]

Init ==
    /\ stream = [state |-> NoState, file_path |-> FALSE]
    /\ file = NoFile
    /\ stateFile = NoFile

\* f.seek(offset); f.write(bytes) on a file opened "r+b": overwrite in
\* place, growing the file if the write runs past its end.
WriteAt(f, offset, bytes) ==
    [k \in 1..(IF offset + Len(bytes) > Len(f) THEN offset + Len(bytes) ELSE Len(f)) |->
        IF k > offset /\ k <= offset + Len(bytes) THEN bytes[k - offset] ELSE f[k]]

\* start_receive(file_path, expected_root, total_chunks): the root and the
\* count are valid; the parent directory is created, and a missing file is
\* created zero-filled to total_chunks * chunk_size bytes.
StartReceive ==
    /\ stream.state = NoState
    /\ stream' = [state |-> [total |-> Total, completed |-> {}, root |-> Root,
                             chunk_size |-> ChunkSize],
                  file_path |-> TRUE]
    /\ file' = IF file = NoFile THEN [k \in 1..(Total * ChunkSize) |-> 0] ELSE file
    /\ UNCHANGED stateFile

\* Mutant of ReceiveChunk: the proof is checked but not the chunk's bytes.
ReceiveChunkNoDataCheck(m) ==
    LET st == stream.state IN
    /\ st # NoState
    /\ m.index >= 0 /\ m.index < st.total
    /\ m.index \notin st.completed
    /\ VerifyProof(m.proof, st.root)
    /\ file' = IF stream.file_path
               THEN WriteAt(file, m.index * st.chunk_size, m.data)
               ELSE file
    /\ stream' = [stream EXCEPT !.state.completed = @ \cup {m.index}]
    /\ UNCHANGED stateFile

\* receive_chunk(chunk_index, chunk_data, proof): every early return that
\* leaves the state alone is a stutter; an OSError cannot happen as the
\* file is never removed.
ReceiveChunk(m) ==
    LET st == stream.state IN
    /\ st # NoState
    /\ m.index >= 0 /\ m.index < st.total
    /\ m.index \notin st.completed
    /\ VerifyProof(m.proof, st.root)
    /\ HashChunk(m.data) = m.proof.chunk_hash
    /\ file' = IF stream.file_path
               THEN WriteAt(file, m.index * st.chunk_size, m.data)
               ELSE file
    /\ stream' = [stream EXCEPT !.state.completed = @ \cup {m.index}]
    /\ UNCHANGED stateFile

\* save_state(state_file): the JSON dump of the in-memory state.
SaveState ==
    /\ stream.state # NoState
    /\ stateFile' = stream.state
    /\ UNCHANGED <<stream, file>>

\* Mutant of ResumeTransfer: whatever is on disk is taken as the state.
ResumeTransferUnchecked ==
    /\ stateFile # NoFile
    /\ stream' = [stream EXCEPT !.state = stateFile]
    /\ UNCHANGED <<file, stateFile>>

\* resume_transfer(state_file): the transfer id matches (one transfer is
\* modelled); the state is replaced, chunk_size restored, and _file_path is
\* left as it was.  A missing or torn file raises TransferError.
ResumeTransfer ==
    /\ stateFile \notin {NoFile, Torn}
    /\ stateFile.total > 0
    /\ stream' = [stream EXCEPT !.state = stateFile]
    /\ UNCHANGED <<file, stateFile>>

\* The receiving process stops and a fresh TransferStream is created for the
\* same transfer: memory is lost, the disk survives.  If the stop falls in
\* the middle of save_state's open("w") + json.dump, the file is torn.
Restart ==
    /\ "restart" \in Faults
    /\ stream' = [state |-> NoState, file_path |-> FALSE]
    /\ \/ UNCHANGED stateFile
       \/ /\ stream.state # NoState
          /\ stateFile' = Torn
    /\ UNCHANGED file

Next ==
    \/ StartReceive
    \/ \E m \in Messages : ReceiveChunk(m)
    \/ SaveState
    \/ "restart" \in Faults /\ ResumeTransfer
    \/ Restart

Spec == Init /\ [][Next]_vars

-----------------------------------------------------------------------------
(* verify_complete_file(file_path), as a query on the current state.       *)

IsComplete(st) == Cardinality(st.completed) = st.total

VerifyCompleteFile ==
    LET st == stream.state IN
    /\ st # NoState
    /\ file # NoFile
    /\ IsComplete(st)
    /\ LET hs == [i \in DOMAIN ChunkFile(file, st.chunk_size) |->
                    HashChunk(ChunkFile(file, st.chunk_size)[i])]
       IN  Len(hs) = st.total /\ BuildTree(hs) = st.root

-----------------------------------------------------------------------------
(* Properties                                                              *)

\* Every index in completed_chunks has the sender's bytes for that chunk on
\* disk at index * chunk_size: receive_chunk admits a chunk only after its
\* Merkle checks and only once its bytes are written.
CompletedChunksIntact ==
    stream.state # NoState =>
        \A i \in stream.state.completed :
            /\ file # NoFile
            /\ SubSeq(file, i * ChunkSize + 1, i * ChunkSize + Len(SenderChunks[i + 1]))
                  = SenderChunks[i + 1]

\* Spec 4.6.5 and scenarios S5/S6: once every chunk is in completed_chunks,
\* verify_complete_file on the received file succeeds.
CompleteFileVerifies ==
    (stream.state # NoState /\ IsComplete(stream.state)) => VerifyCompleteFile

\* Whatever the order, duplication or corruption of messages and however
\* often the receiver restarts, resumes or re-creates its file, each chunk
\* slot of the received file holds either the zero fill of start_receive or
\* the sender's bytes for that chunk: receive_chunk writes nothing that
\* failed verification.
FileHoldsOnlyVerifiedBytes ==
    file # NoFile =>
        \A i \in Indices :
            LET slot == SubSeq(file, i * ChunkSize + 1, i * ChunkSize + Len(SenderChunks[i + 1]))
            IN  slot \in {SenderChunks[i + 1], [k \in 1..Len(slot) |-> 0]}
=============================================================================
