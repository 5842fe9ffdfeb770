SPECIFICATION FairSpec
CONSTANTS
    MaxBlock = 5
    Changes = {1, 4}
    Authorities <- MCAuthorities
    MaxRestarts = 2
    MaxLag = 0

    
    
PROPERTIES
    SyncEnds
