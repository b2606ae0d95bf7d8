SPECIFICATION FairSpec
CONSTANTS
    r1 = r1
    r2 = r2
    Classes <- MCClasses
    DefaultCard <- MCDefault
    Readers <- OneReader
    Own <- OneOwn
    FloorOverride <- MCNone
    HandEdits <- MCHandEdits
    Exclusive = FALSE
    Faults = {"readerGet", "publisherGet", "blockRead", "put", "restart"}
    MaxFaults = 2
    MaxFlips = 2
    MaxEpoch = 1
INVARIANT TypeOK
INVARIANT AdoptedWhole
INVARIANT InEnvelope
PROPERTY Converges
