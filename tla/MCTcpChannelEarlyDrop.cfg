SPECIFICATION Spec
CONSTANTS
    TxMem = 2
    RxMem = 3
    Capacities <- MCSmallCapacities
    FrameOctets = 4
    CloseTimeout = 3
    MaxGeneration = 1
    Glitches <- MCGlitches
PROPERTIES
    Relistens
