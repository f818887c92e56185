SPECIFICATION Spec
CONSTANTS
    Callers = {"c1", "c2"}
    Keys = {"k1", "k2", "k3", "k4"}
    Registered = "k1"
    MaxAuthTries = 3
    maxCachedPubKeys = 1
    Addrs = {"T", "U"}
    Opens = {"t1", "t2", "u1"}
    AddrOf <- MCAddrOf
    Network <- MCNetwork
    Chunks = 1
    Uses <- MCUses
CHECK_DEADLOCK FALSE
INVARIANTS
    LoginChecked
    SessionSound
    AddedIsSaved
    NeverSendOnClosed
    NothingCutShort
PROPERTIES
    ConnectsRight
    ListenersReturn
    OpensAnswered
    PairEnds
