CONSTANTS
    ChunkValues <- MCChunkValues
    MaxChunks = 4
    BlockSize <- MCBlockSize
    EccSymbols <- MCOtherEccSymbols
    Bad = Bad
    None = None
    Fail = Fail
SPECIFICATION Spec





INVARIANT CorruptedChunkRecovered
