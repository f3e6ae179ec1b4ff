SPECIFICATION Spec
CONSTANTS
    Half = 8
    RcvWnd = 4
    MaxWnd = 2
    MaxSegLen = 2
    MaxPayloadLen = 2
    ConnKey = {k1}
    Isn = {14}
    Traffic <- PeerTraffic
    MaxRetries = 0
    MaxSynAcks = 2
    Irs = 14
    Iss = 14
    StreamLen = 3
    SegLens = {1, 2}
    Windows = {0, 2}
    SynOffsets = {0}
    RstOffsets = {0, 1}
    AckOffsets = {1, 2, 4, 6}
INVARIANTS
    TypeOK
    DrainNeverFails
    UnackedBounded
    UnackedIsPending
    PendingIsUnacked
    FinWithLastByte
    EchoIntegrity
    NothingStranded
PROPERTIES
    AckedWasSent
    NeverBack
