SPECIFICATION FairSpec
CONSTANTS
    Ids = {1, 2}
    Limit = 1
    Owner = "owner"
    Readers = {"reader"}
    Slots = {1, 2}
    Profiles <- MCProfiles
    MinVersions <- MCMinVersions
    Window = 2
    Timeout = 1
    Faults = {"page", "stall", "chain", "net", "cut", "restart"}
    MaxFaults = 1
    MaxChanges = 2
    MaxDelays = 1
INVARIANT TypeOK
INVARIANT ServedRightly
PROPERTY EvidenceSpec
PROPERTY EventuallyServed
