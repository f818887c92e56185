SPECIFICATION FairSpec
CONSTANTS
    WindowSize = 1
    MaxPacket = 1
    UintMod = 4
    MaxBytes <- LongOneWay
INVARIANTS
    FlowControlRespected
PROPERTIES
    ImplementsStream
    WritesReturn
    CloseUnblocks
\* Both applications may be done and the channel closed.
CHECK_DEADLOCK FALSE
