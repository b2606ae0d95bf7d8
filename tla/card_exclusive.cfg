SPECIFICATION Spec
CONSTANTS
    r1 = r1
    r2 = r2
    Classes <- MCClasses
    DefaultCard <- MCDefault
    Readers <- MCReaders
    Own <- MCOwn
    FloorOverride <- MCNone
    HandEdits <- NoEdits
    Exclusive = TRUE
    Faults = {"readerGet", "put", "restart"}
    MaxFaults = 2
    MaxFlips = 3
    MaxEpoch = 2
SYMMETRY Symmetry
INVARIANT FlipSurvives
PROPERTY EpochNeverRollsBack
