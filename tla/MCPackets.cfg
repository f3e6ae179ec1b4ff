SPECIFICATION Spec
CONSTANTS
    ByteMod = 256
    ChunkLanes = 1
    Mtu = 48
    App = "Shout"
    Wire <- MCWire
    TcpReplies <- MCTcpReplies
CHECK_DEADLOCK FALSE
INVARIANTS
    TypeOK
    RepliesFit
    AnsweredInFull
    RepliesAreValid
    DamageIsDetected
