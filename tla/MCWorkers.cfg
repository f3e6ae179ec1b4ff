SPECIFICATION FairSpec
CONSTANTS
    Worker = {w1, w2}
    ConnKey = {k1}
    Main = main
    MaxSignals = 2
    Breakable = {w1}
CHECK_DEADLOCK FALSE
INVARIANTS
    TypeOK
    FlagBeforeEventfd
    DrainingHasDeadline
    OrderlyExit
PROPERTIES
    ShutdownReachesAll
    WorkersReturnIfQuiet
