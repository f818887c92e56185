SPECIFICATION FairSpec
CONSTANTS
    ChanSize = 1
    Uses <- Rekeys
INVARIANTS KeysAgree PacketsInOrder
PROPERTIES PacketsArrive LoopsEnd
\* The connection may be idle for ever, or closed.
CHECK_DEADLOCK FALSE
