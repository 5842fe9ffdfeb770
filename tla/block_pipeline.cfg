SPECIFICATION FairSpec
CONSTANTS
    MaxBlock = 4
    FirstBlock = 3
    Incomplete = {4}
    NoBlock = NoBlock
    SyncStarts = {1, NoBlock}
    AppModes = {TRUE, FALSE}
    EventCapacity = 1
    BlockCapacity = 1
    MaxCrashes = 1
INVARIANTS
    FinishedMeansData
    SyncedMeansWalked
PROPERTIES
    
    AnnouncedAreProcessed
