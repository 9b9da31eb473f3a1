--------------------------- MODULE EnhancedMerkle ---------------------------
(***************************************************************************)
(* Reed-Solomon augmentation of the Merkle tree: ErrorCorrectionCodec     *)
(* (src/beenet/transfer/error_correction.py) and EnhancedMerkleTree /     *)
(* EnhancedMerkleProof (src/beenet/transfer/enhanced_merkle.py), as pure  *)
(* operators over the Merkle module.                                       *)
(*                                                                         *)
(* Bytes are sequences of symbols as in Merkle.  The RS codec (reedsolo,   *)
(* GF(2^8), E parity symbols) is kept to its guarantee: a codeword is the  *)
(* message it encodes together with the number of its symbols altered in   *)
(* transit; decoding returns the message when at most E \div 2 symbols are *)
(* altered, and otherwise either raises or miscorrects to another message. *)
(* A miscorrected or otherwise altered byte string is the original with    *)
(* its first symbol replaced by Bad, a symbol no chunk contains.           *)
(*                                                                         *)
(* Decoding raises are the outcome Fail; operators whose result depends on *)
(* the decoder return the set of possible results.  Only the ECC-enabled   *)
(* paths are modelled: EnhancedMerkleTree encodes only when enable_ecc is  *)
(* set.  EnhancedMerkleProof decodes with a default codec, E = 10,        *)
(* whatever the E of the tree that encoded the block.                      *)
(***************************************************************************)
EXTENDS Merkle, Naturals, Sequences, SequencesExt, TLC

CONSTANTS BlockSize,   \* ECCConfig.block_size (D)
          EccSymbols,  \* ECCConfig.ecc_symbols (E)
          Bad,         \* a symbol that no chunk contains
          None,        \* Python None
          Fail         \* a decode that raised

ASSUME BlockSize >= 1 /\ EccSymbols >= 2 /\ BlockSize + EccSymbols <= 255

\* Bytes whose first symbol has been altered.
Altered(bytes) == [bytes EXCEPT ![1] = Bad]

\* hashlib.blake2b(data, digest_size=16): the ECCBlock checksum.
Checksum(bytes) == <<"blake2b-128", bytes>>

\* ECCConfig().ecc_symbols: the codec EnhancedMerkleProof decodes with.
DefaultEccSymbols == 10

\* RSCodec(E).encode: the systematic codeword of a message with E parity
\* symbols, nothing altered.
Codeword(msg) == [msg |-> msg, nsym |-> EccSymbols, errors |-> 0]

\* ECCBlock, its checksum computed in __post_init__ from original_data.
ECCBlock(id, data) ==
    [block_id |-> id, original_data |-> data, encoded_data |-> Codeword(data),
     checksum |-> Checksum(data), ecc_symbols |-> EccSymbols]

\* ErrorCorrectionCodec.encode_data: with ECC disabled, one block holding
\* the data itself, E = 0 (its checksum still computed by __post_init__);
\* otherwise one block per BlockSize bytes.
EncodeData(data, enableEcc) ==
    IF ~enableEcc
    THEN <<[block_id |-> 0, original_data |-> data,
            encoded_data |-> [msg |-> data, nsym |-> 0, errors |-> 0],
            checksum |-> Checksum(data), ecc_symbols |-> 0]>>
    ELSE LET n == (Len(data) + BlockSize - 1) \div BlockSize
    IN [j \in 1..n |->
         ECCBlock(j - 1, SubSeq(data, (j - 1) * BlockSize + 1,
                                 IF j * BlockSize < Len(data) THEN j * BlockSize ELSE Len(data)))]

\* RSCodec(nsym).decode(...)[0]: the possible results for a received
\* codeword.  A codec of another nsym takes other bytes for the parity and
\* either raises or returns other bytes.
RSDecode(cw, nsym) ==
    IF cw.nsym = nsym /\ cw.errors <= nsym \div 2 THEN {cw.msg}
    ELSE {Fail, Altered(cw.msg)}

\* The received bytes of a block encoded with E = 0, used as they are.
RawBytes(cw) == IF cw.errors = 0 THEN cw.msg ELSE Altered(cw.msg)

\* The bytes a block decodes to before the checksum: RS decode when the
\* block has ECC symbols, else its encoded bytes.
BlockBytes(b, nsym) ==
    IF b.ecc_symbols > 0 THEN RSDecode(b.encoded_data, nsym) ELSE {RawBytes(b.encoded_data)}

\* Mutant of DecodeBlock: the checksum comparison left out.
DecodeBlockNoChecksum(b, nsym) == BlockBytes(b, nsym)

\* One iteration of decode_blocks: decode, then the checksum check.
DecodeBlock(b, nsym) ==
    { IF r = Fail \/ Checksum(r) # b.checksum THEN Fail ELSE r :
        r \in BlockBytes(b, nsym) }

\* The loop of decode_blocks over blocks already sorted: any failure raises.
RECURSIVE DecodeAll(_, _)
DecodeAll(bs, nsym) ==
    IF bs = <<>> THEN {<<>>}
    ELSE { IF h = Fail \/ t = Fail THEN Fail ELSE h \o t :
             h \in DecodeBlock(Head(bs), nsym), t \in DecodeAll(Tail(bs), nsym) }

\* ErrorCorrectionCodec(ECCConfig(ecc_symbols=nsym)).decode_blocks, ECC
\* enabled, with no expected_length.
DecodeBlocks(blocks, nsym) ==
    DecodeAll(SortSeq(blocks, LAMBDA a, b : a.block_id < b.block_id), nsym)

\* decode_blocks(blocks, expected_length): a length other than a non-zero
\* expected_length raises.
DecodeBlocksExpecting(blocks, nsym, expected) ==
    { IF r # Fail /\ expected # 0 /\ Len(r) # expected THEN Fail ELSE r :
        r \in DecodeBlocks(blocks, nsym) }

-----------------------------------------------------------------------------
(* EnhancedMerkleTree                                                      *)

\* b"\\x00" * 32: the filler add_chunk_with_ecc appends for missing indices.
Placeholder == <<"placeholder">>

EmptyTree == [hashes |-> <<>>, ecc |-> [i \in {} |-> None], cache |-> [i \in {} |-> None]]

\* add_chunk_with_ecc(i, data): cache the data, store the FIRST block that
\* encode_data returns (re-numbered i), pad the hash list with placeholders
\* up to i and set hash i.
AddChunkWithEcc(tree, i, data) ==
    LET blocks == EncodeData(data, TRUE)
        padded == tree.hashes \o [k \in 1..(i + 1 - Len(tree.hashes)) |-> Placeholder]
    IN [hashes |-> [padded EXCEPT ![i + 1] = HashChunk(data)],
        ecc    |-> IF blocks = <<>> THEN tree.ecc
                   ELSE (i :> [blocks[1] EXCEPT !.block_id = i]) @@ tree.ecc,
        cache  |-> (i :> data) @@ tree.cache]

\* The sender adds every chunk with its ECC, in index order.
TreeOf(chunks) ==
    FoldLeft(LAMBDA t, i : AddChunkWithEcc(t, i, chunks[i + 1]), EmptyTree,
             [k \in 1..Len(chunks) |-> k - 1])

\* generate_enhanced_proof(i): the standard proof and the stored ECC block.
GenerateEnhancedProof(tree, i) ==
    GenerateProof(tree.hashes, i) @@
        [ecc_block |-> IF i \in DOMAIN tree.ecc THEN tree.ecc[i] ELSE None]

StandardProof(proof) ==
    [chunk_index |-> proof.chunk_index, chunk_hash |-> proof.chunk_hash,
     proof_hashes |-> proof.proof_hashes]

\* EnhancedMerkleProof.attempt_recovery: the block decoded by a default
\* codec, or None.
AttemptRecovery(proof) ==
    IF proof.ecc_block = None \/ proof.ecc_block.ecc_symbols = 0 THEN {None}
    ELSE { IF r = Fail THEN None ELSE r : r \in DecodeBlocks(<<proof.ecc_block>>, DefaultEccSymbols) }

\* EnhancedMerkleProof.verify(root): the standard proof, else the proof
\* re-rooted at the hash of the decoded block.
VerifyEnhancedProof(proof, root) ==
    IF VerifyProof(StandardProof(proof), root) THEN {TRUE}
    ELSE IF proof.ecc_block = None \/ proof.ecc_block.ecc_symbols = 0 THEN {FALSE}
    ELSE { r # Fail /\ VerifyProof([StandardProof(proof) EXCEPT !.chunk_hash = HashChunk(r)], root) :
             r \in DecodeBlocks(<<proof.ecc_block>>, DefaultEccSymbols) }

\* Mutant of VerifyChunkWithRecovery: recovered bytes accepted unverified.
VerifyChunkTrustRecovery(tree, data, i, proof) ==
    IF VerifyChunk(tree.hashes, data, i, StandardProof(proof)) THEN {<<TRUE, None>>}
    ELSE IF proof.ecc_block = None THEN {<<FALSE, None>>}
    ELSE { IF r \in {None, <<>>} THEN <<FALSE, None>> ELSE <<TRUE, r>> : r \in AttemptRecovery(proof) }

\* verify_chunk_with_recovery(data, i, proof): <<verified, recovered>>.
\* Standard verification first; then recovery from the ECC block, whose
\* bytes are verified as the chunk, and else re-rooted at their own hash.
\* Empty recovered bytes are falsy and end in failure.
VerifyChunkWithRecovery(tree, data, i, proof) ==
    LET std == StandardProof(proof) IN
    IF VerifyChunk(tree.hashes, data, i, std) THEN {<<TRUE, None>>}
    ELSE IF proof.ecc_block = None THEN {<<FALSE, None>>}
    ELSE { IF r \in {None, <<>>} THEN <<FALSE, None>>
           ELSE IF VerifyChunk(tree.hashes, r, i, std)
                   \/ VerifyProof([std EXCEPT !.chunk_hash = HashChunk(r)], BuildTree(tree.hashes))
                THEN <<TRUE, r>>
                ELSE <<FALSE, None>> :
           r \in AttemptRecovery(proof) }

=============================================================================
