CONSTANTS
    Initiator = Initiator
    Responder = Responder
    NoKey = NoKey
    MaxFrames <- MCMaxFrames
    Faults = {}
SPECIFICATION Spec
PROPERTY BothComplete
CHECK_DEADLOCK FALSE
