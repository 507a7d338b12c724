SPECIFICATION Spec
CONSTANTS
    p1 = p1
    p2 = p2
    NoPeer = NoPeer
    Peers <- MCPeers
    Datagrams <- MCDatagrams
    MaxDatagram = 8
    FrameOctets = 6
    TxMem = 8
    MaxQueue = 2
    CloseTimeout = 2
    MaxGeneration = 2
    Glitches <- MCGlitches
INVARIANTS
    TypeOK
    Aligned
PROPERTIES
    OneCommand
    AnsweredOnce
    SessionsApart
    ComesBack
