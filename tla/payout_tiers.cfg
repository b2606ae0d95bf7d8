SPECIFICATION FairSpec
CONSTANTS
    Classes <- MCClasses
    DefaultCard <- MCDefault
    Readers <- MCReaders
    Own <- MCOwn
    Floors <- MCFloors
    TargonSnapshots <- MCTargon
    LiumSnapshots <- MCLium
    Modes <- MCModes
    MaxMoves = 1
    MaxFaults = 2
INVARIANT TypeOK
INVARIANT PaidWithinBounds
INVARIANT FallsBackToLastSeen
INVARIANT MarkupNeverFeedsBack
PROPERTY FollowsTheMarket
