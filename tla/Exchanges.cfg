SPECIFICATION FairSpec
CONSTANTS
    Node = {1, 2, 3, 4}
    Cases <- MCCases
    P = 101
    Secret <- MCSecret
    ChairKey = 77
    RingPoints = 15
    NoKey = NoKey
    NoMem = NoMem
    MaxUnlucky = 4
PROPERTIES ImplementsGroupKey AllComplete
CHECK_DEADLOCK FALSE
