------------------------------ MODULE MCMerkle ------------------------------
(***************************************************************************)
(* Bounded check of the Merkle operators against a reference definition:  *)
(* every list of chunks of length 1..MaxChunks over ChunkValues is an      *)
(* initial state, and the invariants are checked on each.  The same lists *)
(* are the pieces an async stream yields to the chunker's operators.      *)
(***************************************************************************)
EXTENDS EnhancedMerkle, Chunker, Naturals, Sequences, SequencesExt

CONSTANTS ChunkValues,   \* the possible chunk contents (byte strings)
          MaxChunks      \* the longest list of chunks checked

VARIABLE chunks

\* Reed-Solomon blocks of one byte with the default ten parity symbols: a
\* two-byte chunk spans two blocks, and five altered symbols per block are
\* correctable.
MCBlockSize == 1
MCEccSymbols == 10

\* A tree configured with four parity symbols, as ECCConfig allows.
MCOtherEccSymbols == 4

\* Chunk contents for the cfg: two one-byte chunks and one two-byte chunk.
MCChunkValues == {<<0>>, <<1>>, <<0, 1>>}

ChunkHashes == [i \in DOMAIN chunks |-> HashChunk(chunks[i])]

Init == chunks \in UNION {[1..n -> ChunkValues] : n \in 1..MaxChunks}

Next == UNCHANGED chunks

Spec == Init /\ [][Next]_chunks

TypeOK == chunks \in Seq(ChunkValues) /\ Len(chunks) \in 1..MaxChunks

-----------------------------------------------------------------------------
(* Reference definition: the node at height k and position p, defined by   *)
(* position rather than by iterating levels.  A level of c nodes has       *)
(* ceiling(c/2) parents; a parent whose right child is absent pairs the    *)
(* left child with itself.                                                 *)

RECURSIVE Pow2(_)
Pow2(k) == IF k = 0 THEN 1 ELSE 2 * Pow2(k - 1)

CountAt(n, k) == (n + Pow2(k) - 1) \div Pow2(k)

Height(n) == CHOOSE k \in 0..n : CountAt(n, k) = 1 /\ \A j \in 0..(k - 1) : CountAt(n, j) > 1

RECURSIVE RefNode(_, _, _)
RefNode(hs, k, p) ==
    IF k = 0 THEN hs[p + 1]
    ELSE HashPair(RefNode(hs, k - 1, 2 * p),
                  IF 2 * p + 1 < CountAt(Len(hs), k - 1)
                  THEN RefNode(hs, k - 1, 2 * p + 1)
                  ELSE RefNode(hs, k - 1, 2 * p))

RefRoot(hs) == RefNode(hs, Height(Len(hs)), 0)

\* Every hash that appears anywhere in the tree: the values an adversary can
\* learn and replay in a proof.
TreeNodes(hs) == UNION {Range(lvl) : lvl \in Range(TreeLevels(hs))}

-----------------------------------------------------------------------------
(* Properties                                                              *)

\* build_tree computes the root the self-pairing rule defines (spec 4.6.2),
\* for every chunk count up to MaxChunks, an odd level above the leaves
\* (5 or 6 chunks give 3 nodes one level up) included.
RootMatchesReference == BuildTree(ChunkHashes) = RefRoot(ChunkHashes)

\* Every proof generate_proof produces for an index in range verifies, both
\* through MerkleProof.verify and through MerkleTree.verify_chunk with the
\* chunk's own bytes, and has exactly one sibling per level below the root.
GeneratedProofsVerify ==
    \A i \in 0..(Len(chunks) - 1) :
        LET proof == GenerateProof(ChunkHashes, i) IN
        /\ VerifyChunk(ChunkHashes, chunks[i + 1], i, proof)
        /\ Len(proof.proof_hashes) = Height(Len(chunks))

\* Spec 8.2/8.3: a proof that verifies against the root for an index in
\* range carries the leaf hash at that index, whatever sibling hashes (taken
\* from the tree) and however many of them it lists.  MerkleProof.verify
\* does not bind the number of siblings to the tree height.
ProofBindsLeaf ==
    LET hs    == ChunkHashes
        root  == BuildTree(hs)
        nodes == TreeNodes(hs)
    IN \A i \in 0..(Len(hs) - 1), x \in nodes,
          sibs \in BoundedSeq(nodes, Height(Len(hs))) :
          VerifyProof([chunk_index |-> i, chunk_hash |-> x, proof_hashes |-> sibs], root)
              => x = hs[i + 1]

\* The ECC block attached to proof p, with k of its symbols altered in transit.
WithErrors(p, k) ==
    IF p.ecc_block = None THEN p
    ELSE [p EXCEPT !.ecc_block.encoded_data.errors = k]

\* Spec 4.6.3: decode_blocks corrects up to E/2 altered symbols per block
\* and never returns bytes other than those encoded: a miscorrection beyond
\* that capacity, a decode by a codec of another E, or altered bytes of a
\* block encoded with ECC disabled (E = 0) are caught by the per-block
\* checksum, and a length other than expected_length raises.  The blocks
\* are handed over in reverse order, as decode_blocks sorts them by block_id.
CodecCorrects ==
    \A c \in Range(chunks), ecc \in BOOLEAN, nsym \in {EccSymbols, MCOtherEccSymbols} :
        LET blocks == EncodeData(c, ecc)
            cap     == IF ecc THEN nsym \div 2 ELSE 0
        IN \A errs \in [DOMAIN blocks -> 0..EccSymbols], expected \in {0, Len(c), Len(c) + 1} :
            LET recv == [j \in DOMAIN blocks |->
                           [blocks[j] EXCEPT !.encoded_data.errors = errs[j]]]
            IN \A out \in DecodeBlocksExpecting(Reverse(recv), nsym, expected) :
                 /\ out # Fail => out = c
                 /\ (~ecc \/ nsym = EccSymbols) /\ expected \in {0, Len(c)}
                    /\ (\A j \in DOMAIN errs : errs[j] <= cap)
                    => out = c

\* verify_chunk_with_recovery never reports as verified bytes other than the
\* chunk the sender added: neither the received data when it was altered,
\* nor bytes recovered from an ECC block with any number of altered
\* symbols, through either the standard or the re-rooted check.
VerifiedIsOriginal ==
    LET tree == TreeOf(chunks) IN
    \A i \in 0..(Len(chunks) - 1), k \in 0..EccSymbols :
        LET chunk == chunks[i + 1]
            proof == WithErrors(GenerateEnhancedProof(tree, i), k)
        IN \A data \in {chunk, Altered(chunk)} :
             \A out \in VerifyChunkWithRecovery(tree, data, i, proof) :
                 out[1] => (IF out[2] = None THEN data ELSE out[2]) = chunk

\* The chunk sizes the chunker's operators are checked with: every size
\* below, equal to and above the lengths of the stream's pieces.
MCChunkSizes == 1..3

\* Spec 4.6.1: chunk_data, chunk_file and chunk_stream split the same bytes
\* into the same (index, bytes) pairs, however the stream cuts the bytes
\* into pieces (an empty piece included), and calculate_chunk_count counts
\* them.  reassemble_chunks rebuilds the bytes from the pairs in any order
\* and with duplicates; with one pair lost it raises, unless the lost pair
\* is the last, when it returns the bytes before it.
ChunkersAgree ==
    LET data == FlattenSeq(chunks) IN
    \A cs \in MCChunkSizes :
        LET cd == ChunkData(data, cs) IN
        /\ \A pieces \in {chunks, <<<<>>>> \o chunks} : ChunkStream(pieces, cs) = cd
        /\ [k \in DOMAIN cd |-> cd[k][2]] = ChunkFile(data, cs)
        /\ Len(cd) = CalculateChunkCount(Len(data), cs)
        /\ \A order \in {cd, Reverse(cd), cd \o Reverse(cd)} :
              ReassembleChunks(order, Fail) = data
        /\ \A k \in DOMAIN cd :
              ReassembleChunks(Reverse(RemoveAt(cd, k)), Fail) =
                  IF k = Len(cd) THEN FlattenSeq([j \in 1..(k - 1) |-> cd[j][2]])
                  ELSE Fail

\* Spec 4.6.3: a chunk that arrives altered, with an ECC block whose every
\* block has at most E/2 altered symbols, is verified and recovered.
\* add_chunk_with_ecc keeps only the first of the blocks encode_data
\* returns, so a chunk longer than block_size is never recovered.
CorruptedChunkRecovered ==
    LET tree == TreeOf(chunks) IN
    \A i \in 0..(Len(chunks) - 1), k \in 0..(EccSymbols \div 2) :
        LET chunk == chunks[i + 1]
            proof == WithErrors(GenerateEnhancedProof(tree, i), k)
        IN \E out \in VerifyChunkWithRecovery(tree, Altered(chunk), i, proof) :
             out = <<TRUE, chunk>>
=============================================================================
