CONSTANTS
    Clips = {1, 2}
    Unfit = {2}
    Limit = 1
    MaxStops = 1
    NodeChannels = {"16", "13"}
    NodePlans <- MCNodePlans
    MaxNodeChanges = 2
    MaxNodeFaults = 2
    CdnReleases = {"one", "two", "swapped", "unreviewed"}
    CdnConfigs <- MCCdnConfigs
    CdnLive = {"mp3", "status"}
    CdnFirst <- MCCdnFirst
    MaxCdnStops = 2
    Window = 5
    Budget = 3
    Patience = 3
    Pause <- MCPause
    RunsPerUnit = 1
    MaxSetback = 2
    MaxTime = 10
    ListSize = 2
    MaxSegments = 4
    MaxHlsFaults = 1
    KeptClips = {1, 2}
    KeptPage = 1
    MaxKeepRequests = 3
    MaxKeepRuns = 2
    MaxKeepFaults = 1
    AisLimit = 2
    ManifestLimit = 3
    Periods = 2
    MaxAhead = 1
    ReceiverReleases = {"few", "all", "unknown"}
    LiveChannels <- MCLive
    RecordedChannels <- MCRecorded
    FirstRelease = "first"
    ReceiverFirst <- MCReceiverFirst
    Tuned <- MCTuned
    MaxApplied = 4
    MaxReceiverFaults = 1
    MaxKills = 1
    ProjectKeys = {"BillingProject"}
    OtherKeys = {"Owner"}
    CostLimit = 35
    Notifications = 1
    MaxScopeRuns = 2
    MaxScopeEdits = 1
    MaxScopeFaults = 1
    Addresses = {"a", "b"}
    MaxMoves = 2
    MaxMdnsFaults = 2
    MaxMdnsStops = 1
SPECIFICATION OperationsSpec
INVARIANTS DeploymentsAreRight AnalysisIsKept NodeKeepsIdentity ReleasesAreRight
           NetworkIsRight BucketsAreRight AlarmsAreRight
PROPERTIES ThisWeekIsPublished ServicesRecover
CHECK_DEADLOCK FALSE
