SPECIFICATION Spec
CONSTANTS
    StartBlock = 7
    MaxBlock = 30
    InitTempo = 3
    Tempos = {3, 6}
    DefaultTempo = 4
    RateLimit = 2
    DefaultRateLimit = 2
    CycleBlocks = 2
    Faults = {"setTempo"}
    MaxFaults = 1
INVARIANT FreshWeights
CHECK_DEADLOCK FALSE
