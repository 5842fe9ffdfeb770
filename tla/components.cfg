SPECIFICATION CSpec
CONSTANTS
    Subjects = {"finality", "submission", "monitor", "api", "process"}
    Rows <- MCRows
    Cols <- MCCols
    Samples <- MCSamples
    Batches <- MCBatches
    AppRows = {0}
    threshold = 3
    Modes = {"Both"}
    MaxWrong = 0
    MaxForged = 0
    Keys = {}
    Blocks = {}
    BlockOf <- MCBlockOf
    NoRecord = NoRecord
    NoStat = NoStat
    Backend = "memory"
    max_records = 0
    kad_record_ttl = 1
    PeersExpire = TRUE
    MaxTime = 0
    MaxPuts = 0
    MaxRestarts = 1
    Sizes = {1, 2, 3}
    SetIds = {0, 1, 3}
    SignedIds = {0, 1, 9}
    Signers = {1, 2, 3, 4}
    MaxPrecommits = 3
    AncestryBlocks = {1, 2, 3, 4}
    Submits = {1, 2}
    UsedNonces = {0, 2}
    MaxAttempts = 3
    MonitoredPeers = {1, 2}
    BootstrapPeers = {2}
    ResultWindow = 2
    PingWindow = 1
    blacklist_threshold = 20
    blacklist_remove_threshold = 60
    MaxChecks = 2
    Topics = {"data"}
    ChannelCapacity = 2
    Skipped <- MCSkipped
    Unconvertible <- MCUnconvertible
    Ids = {1}
    Sockets = {1, 2}
    FieldSets = {{}, {"extrinsic"}}
    Payloads = {"submit", "binary"}
    MaxEvents = 4
    MaxRequests = 1
    Runs <- MCRuns
    Version = 1
    MaxHeaders = 2
INVARIANTS
    AcceptedIffSupermajority
    NewcomersFollowDiscovery
    PagesCoverListing
    NoGapsOnASocket
    
    LoopStartsAtFirst
PROPERTIES
    DeadPeersAreBlacklisted
    SubscribersAreServed
    StartupEnds
    
    RestartHappens
CHECK_DEADLOCK FALSE
