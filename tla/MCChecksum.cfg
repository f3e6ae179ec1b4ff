SPECIFICATION InputSpec
CONSTANTS
    ByteMod = 2
    ChunkLanes = 4
    MaxLen = 17
CHECK_DEADLOCK FALSE
INVARIANT MatchesRfc1071
