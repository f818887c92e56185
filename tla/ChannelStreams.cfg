SPECIFICATION Spec
CONSTANTS
    WindowSize = 1
    MaxPacket = 1
    UintMod = 2
    MaxBytes <- WithStderr
INVARIANTS
    WindowConserved
    StreamsIntact
    ClosesClean
\* Both applications may be done and the channel closed.
CHECK_DEADLOCK FALSE
