------------------------------- MODULE Merkle -------------------------------
(***************************************************************************)
(* The BLAKE2b Merkle tree of src/beenet/transfer/merkle.py, as pure       *)
(* operators.                                                              *)
(*                                                                         *)
(* Data is abstracted to 32-byte granularity: a byte string is a sequence  *)
(* of symbols, where a symbol is a byte or a whole 32-byte digest.  The    *)
(* hash is a free (injective) constructor over such strings.  Because      *)
(* hash_pair hashes the plain concatenation left || right with the same    *)
(* function as hash_chunk, HashPair(l, r) = HashChunk(<<l, r>>): a leaf    *)
(* whose bytes are two digests collides with an internal node, exactly as  *)
(* in the code (there is no domain separation).                            *)
(*                                                                         *)
(* Indices are 0-based as in the code; sequences are 1-based in TLA+.      *)
(***************************************************************************)
EXTENDS Naturals, Sequences, SequencesExt

\* hashlib.blake2b(data, digest_size=32), as an injective constructor.
Hash(bytes) == <<"blake2b", bytes>>

\* MerkleTree.hash_chunk
HashChunk(data) == Hash(data)

\* MerkleTree.hash_pair: the hash of the 64-byte concatenation.
HashPair(left, right) == Hash(<<left, right>>)

\* Mutant of NextLevel: an odd trailing node is promoted unhashed.
NextLevelPromote(level) ==
    [k \in 1..((Len(level) + 1) \div 2) |->
        IF 2 * k <= Len(level) THEN HashPair(level[2 * k - 1], level[2 * k])
        ELSE level[2 * k - 1]]

\* One iteration of the while loop of build_tree: pair up a level, the odd
\* trailing node paired with itself.
NextLevel(level) ==
    [k \in 1..((Len(level) + 1) \div 2) |->
        HashPair(level[2 * k - 1],
                 IF 2 * k <= Len(level) THEN level[2 * k] ELSE level[2 * k - 1])]

\* _tree_levels as built by build_tree: the leaf level first, the root last.
RECURSIVE TreeLevels(_)
TreeLevels(level) ==
    IF Len(level) <= 1 THEN <<level>>
    ELSE <<level>> \o TreeLevels(NextLevel(level))

\* build_tree: the root hash (the code raises on an empty list; callers
\* only use non-empty lists).
BuildTree(chunkHashes) == Last(TreeLevels(chunkHashes))[1]

\* The loop of generate_proof over _tree_levels[:-1], starting at index c.
RECURSIVE ProofHashes(_, _)
ProofHashes(levels, c) ==
    IF Len(levels) <= 1 THEN <<>>
    ELSE LET level   == Head(levels)
             sibling == IF c % 2 = 0 THEN c + 1 ELSE c - 1
         IN  <<IF sibling < Len(level) THEN level[sibling + 1] ELSE level[c + 1]>>
             \o ProofHashes(Tail(levels), c \div 2)

\* generate_proof (index range checked by the caller, as the code raises).
GenerateProof(chunkHashes, i) ==
    [chunk_index  |-> i,
     chunk_hash   |-> chunkHashes[i + 1],
     proof_hashes |-> ProofHashes(TreeLevels(chunkHashes), i)]

\* Mutant of FoldStep: the current hash always taken as the left input.
FoldStepNoParity(acc, proofHash) ==
    <<HashPair(acc[1], proofHash), acc[2] \div 2>>

\* One step of the fold in MerkleProof.verify on <<current_hash, current_index>>.
FoldStep(acc, proofHash) ==
    <<IF acc[2] % 2 = 0 THEN HashPair(acc[1], proofHash)
                        ELSE HashPair(proofHash, acc[1]),
      acc[2] \div 2>>

\* MerkleProof.verify: the length checks on the 32-byte values always pass
\* in the model (every digest is well formed); a negative index fails.
VerifyProof(proof, rootHash) ==
    /\ proof.chunk_index >= 0
    /\ FoldLeft(FoldStep, <<proof.chunk_hash, proof.chunk_index>>,
                proof.proof_hashes)[1] = rootHash

\* MerkleTree.verify_chunk, for a tree built from chunkHashes.
VerifyChunk(chunkHashes, chunkData, chunkIndex, proof) ==
    /\ chunkIndex = proof.chunk_index
    /\ HashChunk(chunkData) = proof.chunk_hash
    /\ VerifyProof(proof, BuildTree(chunkHashes))
=============================================================================
