CONSTANTS
    ChunkValues <- MCChunkValues
    MaxChunks = 4
SPECIFICATION Spec
INVARIANT ProofBindsLeaf
