SPECIFICATION FairSpec
CONSTANTS
    Capacity = 3
    Room = 2
    EntrySize <- MCEntrySize
    MaxId = 4
    MaxFaults = 2
INVARIANTS
    CollectTypeOK
    NothingLost
    PullComplete
PROPERTIES
    EverythingCollected
    ImplementsProgLog
