SPECIFICATION WholeFairSpec
CONSTANTS
    Node = {1, 2}
    P = 101
    Secret <- MCSecret
    NoCtx = NoCtx
    NoKey = NoKey
    CanFail = TRUE
    AnnouncePeriod = 2
    GraceLoops = 3
    MaxQueue = 2
    Timed = FALSE
    MaxRate = 1
PROPERTIES ImplementsMKA EveryoneOnline
CHECK_DEADLOCK FALSE
