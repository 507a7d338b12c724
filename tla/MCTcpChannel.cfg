SPECIFICATION Spec
CONSTANTS
    TxMem = 4
    RxMem = 5
    Capacities <- MCCapacities
    FrameOctets = 6
    CloseTimeout = 3
    MaxGeneration = 2
    Glitches <- MCGlitches
INVARIANTS
    TypeOK
    NoErratum
    OctetsOnce
PROPERTIES
    OneCommand
    SessionsApart
    ComesBack
