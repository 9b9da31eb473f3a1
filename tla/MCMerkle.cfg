CONSTANTS
    ChunkValues <- MCChunkValues
    MaxChunks = 6
    BlockSize <- MCBlockSize
    EccSymbols <- MCEccSymbols
    Bad = Bad
    None = None
    Fail = Fail
SPECIFICATION Spec

INVARIANT RootMatchesReference
INVARIANT GeneratedProofsVerify
INVARIANT CodecCorrects
INVARIANT VerifiedIsOriginal
INVARIANT ChunkersAgree
