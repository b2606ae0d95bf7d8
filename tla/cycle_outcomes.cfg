SPECIFICATION FairSpec
CONSTANTS
    Uids = {1, 2}
    Hotkeys = {"hk1", "hk2"}
    Graphs <- MCGraphs
    Publishers = {TRUE, FALSE}
    Faults = {"metagraph", "rancher", "stall", "card", "price", "reject", "lostAck", "put", "restart"}
    MaxFaults = 2
    MaxChanges = 2
INVARIANT TypeOK
INVARIANT GaugesOfOneCycle
PROPERTY PaysWhoEarned
PROPERTY EveryCycleCounted
PROPERTY WeightsFollow
