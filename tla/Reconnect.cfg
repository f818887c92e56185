SPECIFICATION FairSpec
CONSTANTS
    Tickets <- MCTickets
    Linked <- MCLinked
    Retries = 2
    MaxConns = 2
INVARIANTS NoStaleChannel
PROPERTIES NoNeedlessReconnect Reconnects CallsEnd
\* The Tricorder may be halted, or the bound on connections met.
CHECK_DEADLOCK FALSE
