SPECIFICATION CSpec
CONSTANTS
    Subjects = {"data"}
    Rows <- MCRows
    Cols <- MCCols
    Samples <- MCSamples
    Batches <- MCBatches
    AppRows = {0}
    threshold = 3
    Modes = {"Both", "P2POnly", "RPCOnly"}
    MaxWrong = 1
    MaxForged = 1
    Keys = {}
    Blocks = {}
    BlockOf <- MCBlockOf
    NoRecord = NoRecord
    NoStat = NoStat
    Backend = "memory"
    max_records = 0
    kad_record_ttl = 1
    PeersExpire = TRUE
    MaxTime = 0
    MaxPuts = 0
    MaxRestarts = 1
    Sizes = {}
    SetIds = {}
    SignedIds = {}
    Signers = {}
    MaxPrecommits = 0
    AncestryBlocks = {1}
    Submits = {}
    UsedNonces = {0}
    MaxAttempts = 0
    MonitoredPeers = {}
    BootstrapPeers = {}
    ResultWindow = 2
    PingWindow = 1
    blacklist_threshold = 20
    blacklist_remove_threshold = 60
    MaxChecks = 0
    Topics = {}
    ChannelCapacity = 2
    Skipped <- MCSkipped
    Unconvertible <- MCUnconvertible
    Ids = {}
    Sockets = {}
    FieldSets = {}
    Payloads = {}
    MaxEvents = 0
    MaxRequests = 0
    Runs = {}
    Version = 1
    MaxHeaders = 0
INVARIANT EachRowIsVerified
CHECK_DEADLOCK FALSE
