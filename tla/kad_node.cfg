SPECIFICATION CSpec
CONSTANTS
    Subjects = {"node"}
    Rows <- MCRows
    Cols <- MCCols
    Samples <- MCSamples
    Batches <- MCBatches
    AppRows = {0}
    threshold = 3
    Modes = {"Both"}
    MaxWrong = 0
    MaxForged = 0
    Keys = {"k1", "k2", "k3"}
    Blocks = {1, 2}
    BlockOf <- MCBlockOf
    NoRecord = NoRecord
    NoStat = NoStat
    Backend = "memory"
    max_records = 2
    kad_record_ttl = 1
    PeersExpire = TRUE
    MaxTime = 1
    MaxPuts = 2
    MaxRestarts = 1
    Sizes = {}
    SetIds = {}
    SignedIds = {}
    Signers = {}
    MaxPrecommits = 0
    AncestryBlocks = {1}
    Submits = {}
    UsedNonces = {0}
    MaxAttempts = 0
    MonitoredPeers = {}
    BootstrapPeers = {}
    ResultWindow = 2
    PingWindow = 1
    blacklist_threshold = 20
    blacklist_remove_threshold = 60
    MaxChecks = 0
    Topics = {}
    ChannelCapacity = 2
    Skipped <- MCSkipped
    Unconvertible <- MCUnconvertible
    Ids = {}
    Sockets = {}
    FieldSets = {}
    Payloads = {}
    MaxEvents = 0
    MaxRequests = 0
    Runs = {}
    Version = 1
    MaxHeaders = 0
INVARIANTS
    
    FatStoreIsTransient
    ResultsAreExpected
PROPERTIES
    UploadsAreReported
