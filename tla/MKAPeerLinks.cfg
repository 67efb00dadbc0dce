SPECIFICATION Spec
CONSTANTS
    Node = {1, 2, 3}
    P = 101
    Secret <- MCSecret
    NoCtx = NoCtx
    NoKey = NoKey
    CanFail = FALSE
INVARIANTS KeyAgreement
CHECK_DEADLOCK FALSE
