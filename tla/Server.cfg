SPECIFICATION FairSpec
CONSTANTS
    Peer = {p1, p2}
    Parts = 3
    BUFSZ = 2
    SockBuf = 3
    MaxMessages = 1
INVARIANTS CaughtUp
PROPERTIES ImplementsBroadcast EventuallyServed
CHECK_DEADLOCK FALSE
