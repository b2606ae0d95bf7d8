SPECIFICATION Spec
CONSTANTS
    StartBlock = 7
    MaxBlock = 18
    InitTempo = 6
    Tempos = {3, 6}
    DefaultTempo = 4
    RateLimit = 2
    DefaultRateLimit = 3
    CycleBlocks = 2
    Faults = {"skip", "reject", "tempoRead", "blockRead", "rateRead", "setTempo"}
    MaxFaults = 2
INVARIANT TypeOK
PROPERTY LedgerSpec
CHECK_DEADLOCK FALSE
