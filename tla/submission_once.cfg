SPECIFICATION Spec
CONSTANTS
    StartBlock = 7
    MaxBlock = 22
    InitTempo = 6
    Tempos = {6}
    DefaultTempo = 4
    RateLimit = 2
    DefaultRateLimit = 3
    CycleBlocks = 2
    Faults = {"skip", "reject", "rateRead"}
    MaxFaults = 2
INVARIANT OncePerEpoch
CHECK_DEADLOCK FALSE
