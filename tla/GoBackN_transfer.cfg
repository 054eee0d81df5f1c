CONSTANTS
    NumChunks = 5
    WindowSize = 3
    SeqNumModulo = 4
    Reorder = FALSE
    ChannelCap = 2
    MaxFired = 1
SPECIFICATION FairSpec
INVARIANTS
    WrittenInOrder
    ConfirmedIsWritten
    WindowRespected
    NoLostWakeUp
    TimerCoversUnconfirmed
PROPERTIES
    AckMovesToItsPosition
    TransferEnds
    ImplementsTransfer
CHECK_DEADLOCK FALSE
