SPECIFICATION FairSpec
CONSTANTS
    Client = {c1, c2, c3}
    Sender = {c1, c2}
    NoClient = NoClient
    Parts = 3
    RingSize = 3
    MaxMessages = 1
    Patient = TRUE
INVARIANTS OldestFirst
PROPERTIES AllReceived
CHECK_DEADLOCK FALSE
