SPECIFICATION FairSpec
CONSTANTS
    Worker = {w1}
    ConnKey = {k1}
    Main = main
    MaxSignals = 1
    Breakable = {w1}
CHECK_DEADLOCK FALSE
PROPERTY
    DeviceErrorSurfaces
