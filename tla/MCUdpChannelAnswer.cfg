SPECIFICATION Spec
CONSTANTS
    p1 = p1
    p2 = p2
    NoPeer = NoPeer
    Peers <- MCPeers
    Datagrams <- MCLiveDatagrams
    MaxDatagram = 8
    FrameOctets = 6
    TxMem = 8
    MaxQueue = 1
    CloseTimeout = 3
    MaxGeneration = 2
    Glitches <- MCGlitches
INVARIANT
    Answerable
