SPECIFICATION Spec
CONSTANTS
    Kinds <- MCKinds
    TickUnits = 2
    MsUnits = 3
    Timeouts <- MCTimeouts
    HeaderOctets = 2
    FrameOctets = 3
    Capacity = 2
    MaxDatagram = 5
    Lengths <- MCLengths
    Sizes <- MCSizes
    MaxOctets = 2
    MaxQueue = 1
INVARIANTS
    TypeOK
    FrameBoundary
PROPERTIES
    DeadlineExact
    CallEnds
