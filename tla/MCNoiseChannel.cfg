CONSTANTS
    Initiator = Initiator
    Responder = Responder
    NoKey = NoKey
    MaxFrames <- MCMaxFrames
    Faults = {"loss", "dup", "corrupt"}
SPECIFICATION Spec
INVARIANT TypeOK
PROPERTY NoiseSessionRefined
CHECK_DEADLOCK FALSE
