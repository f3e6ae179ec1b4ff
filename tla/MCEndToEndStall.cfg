SPECIFICATION E2ESpec
CONSTANTS
    Half = 8
    RcvWnd = 4
    MaxWnd = 2
    MaxSegLen = 2
    MaxPayloadLen = 2
    ConnKey = {k1}
    Isn = {14}
    Traffic = {}
    MaxRetries = 1
    MaxSynAcks = 3
    Irs = 14
    N = 2
    Capacity = 1
    MaxFaults = 1
    UpdatesAtRisk = TRUE
CHECK_DEADLOCK FALSE
PROPERTY ClientReturns
