CONSTANTS
    Data <- AlignedData
    ChunkSize = 2
    Faults = {"corrupt", "restart"}
CONSTANTS NoState = NoState  NoFile = NoFile  Torn = Torn
SPECIFICATION Spec
INVARIANT TypeOK
INVARIANT FileHoldsOnlyVerifiedBytes
