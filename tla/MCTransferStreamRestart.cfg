CONSTANTS
    Data <- AlignedData
    ChunkSize = 2
    Faults = {"restart"}
CONSTANTS NoState = NoState  NoFile = NoFile  Torn = Torn
SPECIFICATION Spec
INVARIANT CompleteFileVerifies
