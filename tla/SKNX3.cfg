SPECIFICATION WholeFairSpec
CONSTANTS
    Node = {1, 2, 3}
    P = 101
    Secret <- MCSecret
    NoCtx = NoCtx
    NoKey = NoKey
    CanFail = FALSE
    AnnouncePeriod = 4
    GraceLoops = 4
    MaxQueue = 6
    Timed = TRUE
    MaxRate = 1
INVARIANTS OnlineAgreement OnlineMeansFlushed
PROPERTIES EveryoneOnline
CHECK_DEADLOCK FALSE
