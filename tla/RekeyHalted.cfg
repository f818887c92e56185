SPECIFICATION FairSpec
CONSTANTS
    ChanSize = 1
    Uses <- Halting
PROPERTIES WritersStopped
\* The connection may be idle for ever, or closed.
CHECK_DEADLOCK FALSE
