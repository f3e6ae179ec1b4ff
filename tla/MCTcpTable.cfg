SPECIFICATION Spec
CONSTANTS
    Half = 8
    RcvWnd = 4
    MaxWnd = 2
    MaxSegLen = 2
    MaxPayloadLen = 2
    ConnKey = {k1, k2}
    Isn = {14}
    Traffic <- PeerTraffic
    MaxRetries = 1
    MaxSynAcks = 2
    Irs = 14
    Iss = 14
    StreamLen = 1
    SegLens = {1}
    Windows = {0}
    SynOffsets = {0}
    RstOffsets = {0}
    AckOffsets = {1, 2}
PROPERTIES
    ImplementsLifecycle
    HandshakeEnds
    LastAckEnds
