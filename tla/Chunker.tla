------------------------------ MODULE Chunker ------------------------------
(***************************************************************************)
(* The stateless part of DataChunker (src/beenet/transfer/chunker.py):    *)
(* chunk_data, chunk_file, the legacy chunk_stream (adaptive_chunking     *)
(* off), reassemble_chunks and calculate_chunk_count, as pure operators.  *)
(* The flow-controlled chunk_stream_with_flow_control is FlowControl.     *)
(*                                                                         *)
(* Bytes are sequences; a chunk is the pair <<chunk_index, chunk_data>>   *)
(* the generators yield.  A raise is the outcome Missing.                 *)
(***************************************************************************)
EXTENDS Naturals, Sequences, SequencesExt

MinNat(a, b) == IF a < b THEN a ELSE b

\* DataChunker.chunk_file: consecutive cs-byte pieces, the last one
\* possibly shorter (f.read(cs) until it returns nothing).
ChunkFile(bytes, cs) ==
    [i \in 1..((Len(bytes) + cs - 1) \div cs) |->
        SubSeq(bytes, (i - 1) * cs + 1, MinNat(i * cs, Len(bytes)))]

\* DataChunker.chunk_data: for i in range(0, len(data), cs), the pair
\* (i // cs, data[i : i + cs]).
ChunkData(data, cs) ==
    [k \in 1..((Len(data) + cs - 1) \div cs) |->
        <<k - 1, SubSeq(data, (k - 1) * cs + 1, MinNat(k * cs, Len(data)))>>]

\* DataChunker.calculate_chunk_count
CalculateChunkCount(size, cs) == (size + cs - 1) \div cs

\* Mutant of Drain: the bytes after the chunk are not written back.
DrainNoCarry(buf, idx, cs) ==
    IF Len(buf) >= cs
    THEN [out |-> <<<<idx, SubSeq(buf, 1, cs)>>>>, buf |-> <<>>, idx |-> idx + 1]
    ELSE [out |-> <<>>, buf |-> buf, idx |-> idx]

\* The inner `while buffer.tell() >= chunk_size` loop of chunk_stream: read
\* one chunk, write the remaining bytes into a fresh buffer, yield, and
\* count.  The chunks it yields, the buffer and the next index.
RECURSIVE Drain(_, _, _)
Drain(buf, idx, cs) ==
    IF Len(buf) >= cs
    THEN LET rest == Drain(SubSeq(buf, cs + 1, Len(buf)), idx + 1, cs)
         IN  [rest EXCEPT !.out = <<<<idx, SubSeq(buf, 1, cs)>>>> \o @]
    ELSE [out |-> <<>>, buf |-> buf, idx |-> idx]

\* chunk_stream over the pieces the async stream yields: each piece is
\* written to the buffer and drained; at the end a non-empty buffer is the
\* final chunk.
RECURSIVE StreamFrom(_, _, _, _)
StreamFrom(pieces, buf, idx, cs) ==
    IF pieces = <<>>
    THEN IF Len(buf) > 0 THEN <<<<idx, buf>>>> ELSE <<>>
    ELSE LET d == Drain(buf \o Head(pieces), idx, cs)
         IN  d.out \o StreamFrom(Tail(pieces), d.buf, d.idx, cs)

ChunkStream(pieces, cs) == StreamFrom(pieces, <<>>, 0, cs)

\* reassemble_chunks: a dict from index to bytes (a later chunk with the
\* same index replaces an earlier one), then indices 0..max_index in order;
\* a gap raises ValueError.  No chunk at all gives b"".
ReassembleChunks(chunks, Missing) ==
    LET dict == FoldLeft(LAMBDA d, c : (c[1] :> c[2]) @@ d, <<>>, chunks)
        maxIndex == IF chunks = <<>> THEN -1
                    ELSE Max({chunks[k][1] : k \in DOMAIN chunks})
    IN  IF maxIndex = -1 THEN <<>>
        ELSE IF \E i \in 0..maxIndex : i \notin DOMAIN dict THEN Missing
        ELSE FoldLeft(LAMBDA acc, i : acc \o dict[i], <<>>,
                      [k \in 1..(maxIndex + 1) |-> k - 1])

=============================================================================
