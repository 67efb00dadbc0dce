SPECIFICATION Spec
CONSTANTS
    Client = {c1, c2}
    Sender = {c1, c2}
    NoClient = NoClient
    Parts = 2
    RingSize = 2
    MaxMessages = 1
    Patient = TRUE
INVARIANTS BodyDecrypted
CHECK_DEADLOCK FALSE
