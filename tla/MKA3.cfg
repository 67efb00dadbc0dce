SPECIFICATION FairSpec
CONSTANTS
    Node = {1, 2, 3}
    P = 101
    Secret <- MCSecret
    Lockstep <- MCLockstep
    NoCtx = NoCtx
    NoKey = NoKey
    CanFail = TRUE
    CanMiss = TRUE
    MaxChatter = 1
INVARIANTS KeyAgreement RoundIntegrity Barrier IInv
PROPERTIES NeverReplays ImplementsGroupKey AllComplete
CHECK_DEADLOCK FALSE
