SPECIFICATION Spec
CONSTANTS
    StartBlock = 7
    MaxBlock = 24
    InitTempo = 6
    Tempos = {6}
    DefaultTempo = 4
    RateLimit = 2
    DefaultRateLimit = 3
    CycleBlocks = 2
    Faults = {"skip", "reject", "blockRead", "rateRead", "restart", "lostAck"}
    MaxFaults = 2
INVARIANT FreshWeights
INVARIANT RepeatsAreFaults
CHECK_DEADLOCK FALSE
