SPECIFICATION FairSpec
CONSTANTS
    a = a
    b = b
    Conn = {a, b}
    Slot = {1}
    Initial = 2
    RtoMin = 3
    RtoMax = 5
    PowMax = 3
    DurationMax = 5
    MaxRetries = 2
    RetriesMax = 2
    GracePeriod = 5
    TicksPerMs = 2
    PollMax = 2
    MaxLag = 1
    MaxPackets = 1
    MaxInterrupts = 3
CHECK_DEADLOCK FALSE
INVARIANTS
    TypeOK
    NoOversleep
    GivenUpInTime
PROPERTIES
    TimerIsServed
    NotGivenUpEarly
