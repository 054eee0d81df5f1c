CONSTANTS
    NumChunks = 3
    WindowSize = 2
    SeqNumModulo = 8
    Reorder = FALSE
    ChannelCap = 2
    MaxFired = 1
SPECIFICATION Spec
INVARIANT EotEndsTheFile
CHECK_DEADLOCK FALSE
