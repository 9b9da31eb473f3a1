\* Congestion signals: admission past the lowered window.
CONSTANTS
    InitialWindow = 2
    MinWindow = 1
    MaxWindow = 4
    Q = 4
    NumChunks = 7
    CongestionSignals = TRUE
    ResetCalls = FALSE
    InitialChunkSize = 16384
    ProposedSizes = {8192, 70000}
SPECIFICATION Spec
\* The stream ends once every chunk is acknowledged.
CHECK_DEADLOCK FALSE
INVARIANT InFlightWithinWindow
