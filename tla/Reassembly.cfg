SPECIFICATION Spec
CONSTANTS
    Source = {s1, s2}
    NoSource = NoSource
    Header = 2
    Payload = 3
    RingSize = 6
    Pools = {1, 2}
    Bodies = {0, 4, 5}
    MaxPackets = 2
    CanCorrupt = TRUE
INVARIANTS Isolation
PROPERTIES ImplementsChannels LossOnlyWhenFull
CHECK_DEADLOCK FALSE
