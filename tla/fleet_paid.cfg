SPECIFICATION Spec
CONSTANTS
    GpuClasses <- MCGpu
    ReadyMaxAge = 2
    ClusterIds <- MCIds
    Hardware <- MCHardware
    Labels <- MCLabels
    Hotkeys <- MCHotkeys
    Metagraphs <- MCGraphs
    OwnerUid = 0
    StagingUid = 1
    Card <- MCCard
    Pools <- MCPools
    Events = {"die", "cordon", "disconnect", "notice", "ban", "label", "register"}
    StartTime = 3
    MaxTime = 7
    CycleTime = 2
    MaxEvents = 2
    MaxFailures = 1
INVARIANT TypeOK
INVARIANT SplitIsFair
PROPERTY HealthyArePaid
PROPERTY UnfitEarnNothing
PROPERTY DarkEarnNothing
CHECK_DEADLOCK FALSE
