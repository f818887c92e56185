SPECIFICATION FairSpec
CONSTANTS
    ChanSize = 1
    Uses <- MCUses
INVARIANTS RouteRight AnswersMatchWhileOpen
PROPERTIES OpensRequestsReturn PacketsProcessed
\* The connection may be closed and everything have returned.
CHECK_DEADLOCK FALSE
