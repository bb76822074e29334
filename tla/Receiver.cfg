CONSTANTS
    PreRoll = 1
    PostRoll = 2
    MinClip = 2
    MaxClip = 4
    Lookahead = 1
    SegmentFrames = 2
    Retention = 2
    QueueSize = 1
    DeleteAfterUpload = TRUE
    Kind <- MCKind
    MaxFrames = 6
    MaxFaults = 1
    MaxStops = 1
    Requests = {"r1", "r2"}
    TuneChannels = {"16", "22A"}
    TuneFirst = "16"
    NoOne = "nobody"
    NoChannel = "none"
    RestartsTranscriber = TRUE
    MaxGivenUp = 1
    Captures = {"sampler", "request"}
    Sampler = "sampler"
    MemorySpan = 2
    PersistInterval = 2
    PersistSpan = 5
    MaxDelay = 1
    MaxTime = 7
    MaxHostRestarts = 1
    MaxHostFaults = 1
    Chunks <- MCChunks
    Limit = 3
    PageSize = 2
    MaxEntries = 2
    MaxSegments = 5
    MaxCaptionFaults = 2
    MaxCaptionRestarts = 1
    MaxCaptionRequests = 1
    Browsers = {1, 2}
    Mmsis = {1, 2}
    Ages = {0, 1, 2}
    MaxStaleness = 1
    MaxVessels = 1
    MaxMessages = 2
    MaxPosts = 2
    MaxRelayTimeouts = 1
    Peaks <- MCPeaks
    Losses = {3, 317}
    Errors <- MCErrors
    MaxTries = 2
SPECIFICATION HostSpec
INVARIANTS ActivityIsRight SegmentsAreRight RetuneIsRight HistoryIsRight LiveViewIsRight
PROPERTIES EndedStreamStops LockIsReleased
CHECK_DEADLOCK FALSE
