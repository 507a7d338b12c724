SPECIFICATION Spec
CONSTANTS
    Depth = 3
    HeaderOctets = 4
    Payloads <- MCPayloads
    FrameOctets = 6
    Controls <- MCControls
    MaxOctets = 9
INVARIANTS
    TypeOK
    InOrder
    LineDriven
PROPERTIES
    SentOnce
    ComesBack
