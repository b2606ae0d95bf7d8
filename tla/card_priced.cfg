SPECIFICATION Spec
CONSTANTS
    r1 = r1
    r2 = r2
    Classes <- MCClasses
    DefaultCard <- MCDefault
    Readers <- MCReaders
    Own <- MCOwn
    FloorOverride <- MCNone
    HandEdits <- NoEdits
    Exclusive = TRUE
    Faults = {}
    MaxFaults = 2
    MaxFlips = 2
    MaxEpoch = 2
INVARIANT PaysThePublishedCard
