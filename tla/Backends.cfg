SPECIFICATION BackendsSpec
CONSTANTS
    Hdr = 2
    Payload = 1
    RecvMax = 2
    RingSize = 5
    MaxTelegrams = 4
    ResetTries = 2
    ResetReads = 2
    OutputMax = 0
    MaxEvents = 3
INVARIANTS NothingHeldBack HeardInOrder OneAtATime
PROPERTIES ImplementsChannel UpdateReturns QueueDrains
CHECK_DEADLOCK FALSE
