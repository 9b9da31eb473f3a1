\* Congestion signals and resets at any time, duplicate and late ACKs.
CONSTANTS
    InitialWindow = 2
    MinWindow = 1
    MaxWindow = 4
    Q = 4
    NumChunks = 7
    CongestionSignals = TRUE
    ResetCalls = TRUE
    InitialChunkSize = 16384
    ProposedSizes = {}
SPECIFICATION Spec
\* The stream ends once every chunk is sent; the generator may also be
\* stranded for good by a reset (see README).
CHECK_DEADLOCK FALSE



INVARIANT ChunkSizeFixed
