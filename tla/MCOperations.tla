----------------------------- MODULE MCOperations -----------------------------
(***************************************************************************)
(* What runs beside the receivers and the private API, on small instances: *)
(* the jobs of the public site, the DockTalk node, the release of the live *)
(* routes, of the receivers and of the budget's scope, the Pi's network    *)
(* recovery, the mDNS announcement, the HLS mirror, the retention of raw   *)
(* recordings, and the freshness monitor.                                  *)
(***************************************************************************)
EXTENDS PublicSite, TLC, Sequences

Nothing == "nothing"

\* The sizes of the DockTalk node's instance,
CONSTANTS NodeChannels, NodePlans, MaxNodeChanges, MaxNodeFaults

\* of the release of the live routes,
CONSTANTS CdnReleases, CdnConfigs, CdnLive, CdnFirst, MaxCdnStops

ASSUME CdnAssumption ==
    \A p \in DOMAIN CdnFirst.rules \cap CdnLive : CdnFirst.rules[p] = "reviewed"

\* of the network recovery,
CONSTANTS Window, Budget, Patience, Pause, RunsPerUnit, MaxSetback, MaxTime

ASSUME NetworkAssumption ==
    /\ Window \in Nat \ {0} /\ Budget \in Nat \ {0} /\ Patience \in Nat
    /\ MaxSetback \in Nat
    /\ Pause \in [1 .. Budget -> Nat \ {0}]
    /\ \A m, n \in 1 .. Budget : m <= n => Pause[m] <= Pause[n]

\* of the HLS mirror,
CONSTANTS ListSize, MaxSegments, MaxHlsFaults

ASSUME StreamAssumption == ListSize \in Nat \ {0}

\* of the retention of raw recordings,
CONSTANTS KeptClips, KeptPage, MaxKeepRequests, MaxKeepRuns, MaxKeepFaults

ASSUME KeepAssumption ==
    /\ KeptClips \subseteq Nat \ {0} /\ IsFiniteSet(KeptClips)
    /\ KeptPage \in Nat \ {0}

\* of the freshness monitor,
CONSTANTS AisLimit, ManifestLimit, Periods, MaxAhead

ASSUME MonitorAssumption ==
    /\ AisLimit \in Nat /\ ManifestLimit \in Nat
    /\ Periods \in Nat \ {0} /\ MaxAhead \in Nat

\* of the release of the receivers,
CONSTANTS ReceiverReleases, LiveChannels, RecordedChannels, FirstRelease, ReceiverFirst,
          Tuned, MaxApplied, MaxReceiverFaults, MaxKills

\* of the scope of the budget,
CONSTANTS ProjectKeys, OtherKeys, CostLimit, Notifications, MaxScopeRuns, MaxScopeEdits,
          MaxScopeFaults

ASSUME ScopeAssumption == ProjectKeys \cap OtherKeys = {}

\* and of the announcement.
CONSTANTS Addresses, MaxMoves, MaxMdnsFaults, MaxMdnsStops

\* A plan for one channel, one for two, an ambiguous one, one for no approved
\* channel, and one that gives its mounts otherwise.
MCNodePlans ==
    {{<<"16", "a">>}, {<<"16", "b">>, <<"13", "a">>}, {<<"16", "a">>, <<"16", "b">>},
     {<<"74", "a">>}, {<<"16", "b">>, <<"74", "a">>}}

MCPause == [n \in 1 .. Budget |-> 2 ^ (n - 1)]

\* Two releases that add live routes, and two that must be refused.
Distribution(paths, rules) ==
    [rules |-> rules, rest |-> "as it is",
     before |-> {<<paths[mn[1]], paths[mn[2]]>> : mn \in
                    {mn \in (DOMAIN paths) \X (DOMAIN paths) : mn[1] < mn[2]}}]
Routes(reviewed, own) ==
    [p \in reviewed \cup own |-> IF p \in reviewed THEN "reviewed" ELSE "own"]
MCCdnFirst == Distribution(<<"channels", "ais">>, Routes({}, {"channels", "ais"}))
MCCdnConfigs ==
    [one |-> Distribution(<<"mp3", "channels", "ais">>, Routes({"mp3"}, {"channels", "ais"})),
     two |-> Distribution(<<"mp3", "status", "channels", "ais">>,
                          Routes({"mp3", "status"}, {"channels", "ais"})),
     swapped |-> Distribution(<<"ais", "channels">>, Routes({}, {"channels", "ais"})),
     unreviewed |-> Distribution(<<"mp3", "channels", "ais">>,
                                 Routes({}, {"mp3", "channels", "ais"}))]

\* Releases of fewer channels, of other recorded ones, and of one that has no block.
MCHeard == {"14", "16", "22A", "09"}
MCTuned == [ch \in MCHeard |-> ch]
MCRecorded == [first |-> {"14", "16", "22A"}, few |-> {"14"}, all |-> {"14", "16"},
             unknown |-> {"14"}]
MCLive == [first |-> <<"14", "16", "22A">>, few |-> <<"14", "16">>,
         all |-> <<"22A", "14", "16">>, unknown |-> <<"14", "09">>]
Block(ch) == [label |-> ch, freq |-> ch, outputs |-> [file |-> 1, icecast |-> 1]]
MCReceiverFirst == [blocks |-> <<Block("14"), Block("16"), Block("22A")>>, rest |-> "rest"]

VARIABLES part,       \* the component this behaviour is of
          nodeServed, nodeSpent, nodeResponse, nodeIdentity, nodePlan, nodeSealed,
          nodeEnabled, nodeRuntime, nodeInstaller, nodeUsing, nodeFetched, nodeLink,
          nodeLost, nodeChanges, nodeFaults,
          cdnCdn, cdnRecord, cdnOp, cdnPlan, cdnLast, cdnStops, cdnFound, cdnOwn, cdnCrossed,
          netNow, netReal, netState, netPc, netMade, netRuns, netOutage,
          hlsFiles, hlsPlaylist, hlsBucket, hlsShown, hlsPublished, hlsNoted, hlsPc,
          hlsStat, hlsTodo, hlsListed, hlsRecent, hlsFaults,
          keepStars, keepQuarantined, keepTags, keepRequest, keepRequests, keepTool,
          keepOffset, keepFeatured, keepLeft, keepRuns, keepFaults, keepCrossed,
          keepShrunk, keepExcused,
          monManifest, monSnapshot, monSamples, monRan,
          recConfig, recApp, recRecord, recRun, recUp, recFoundAt, recLast,
          recApplied, recFaults, recKills,
          costDns, costBucket, costBudget, costRun, costOutcome, costFresh, costLost,
          costQuiet, costRuns, costEdits, costFaults,
          mdnsLease, mdnsPc, mdnsRead, mdnsPublisher, mdnsService, mdnsAdvertised,
          mdnsOpen, mdnsLan, mdnsMoves, mdnsFaults, mdnsStops

NodeVars ==
    <<nodeServed, nodeSpent, nodeResponse, nodeIdentity, nodePlan, nodeSealed,
      nodeEnabled, nodeRuntime, nodeInstaller, nodeUsing, nodeFetched, nodeLink,
      nodeLost, nodeChanges, nodeFaults>>
CdnVars ==
    <<cdnCdn, cdnRecord, cdnOp, cdnPlan, cdnLast, cdnStops, cdnFound, cdnOwn, cdnCrossed>>
NetworkVars ==
    <<netNow, netReal, netState, netPc, netMade, netRuns, netOutage>>
HlsVars ==
    <<hlsFiles, hlsPlaylist, hlsBucket, hlsShown, hlsPublished, hlsNoted, hlsPc,
      hlsStat, hlsTodo, hlsListed, hlsRecent, hlsFaults>>
RetentionVars ==
    <<keepStars, keepQuarantined, keepTags, keepRequest, keepRequests, keepTool,
      keepOffset, keepFeatured, keepLeft, keepRuns, keepFaults, keepCrossed,
      keepShrunk, keepExcused>>
MonitorVars ==
    <<monManifest, monSnapshot, monSamples, monRan>>
ReceiversVars ==
    <<recConfig, recApp, recRecord, recRun, recUp, recFoundAt, recLast, recApplied,
      recFaults, recKills>>
BudgetVars ==
    <<costDns, costBucket, costBudget, costRun, costOutcome, costFresh, costLost,
      costQuiet, costRuns, costEdits, costFaults>>
MdnsVars ==
    <<mdnsLease, mdnsPc, mdnsRead, mdnsPublisher, mdnsService, mdnsAdvertised,
      mdnsOpen, mdnsLan, mdnsMoves, mdnsFaults, mdnsStops>>
allVars ==
    <<part, vars, NodeVars, CdnVars, NetworkVars, HlsVars, RetentionVars, MonitorVars,
      ReceiversVars, BudgetVars, MdnsVars>>

Docktalk == INSTANCE DockTalk WITH
    Channels <- NodeChannels, Plans <- NodePlans, MaxChanges <- MaxNodeChanges,
    MaxFaults <- MaxNodeFaults, served <- nodeServed, spent <- nodeSpent,
    response <- nodeResponse, identity <- nodeIdentity, plan <- nodePlan,
    sealed <- nodeSealed, enabled <- nodeEnabled, runtime <- nodeRuntime,
    installer <- nodeInstaller, using <- nodeUsing, fetched <- nodeFetched,
    link <- nodeLink, lost <- nodeLost, changes <- nodeChanges, faults <- nodeFaults

Cdn == INSTANCE LiveCdn WITH
    Releases <- CdnReleases, Configs <- CdnConfigs, Live <- CdnLive, First <- CdnFirst,
    MaxStops <- MaxCdnStops, cdn <- cdnCdn, record <- cdnRecord, op <- cdnOp,
    plan <- cdnPlan, last <- cdnLast, stops <- cdnStops, found <- cdnFound,
    own <- cdnOwn, crossed <- cdnCrossed

Network == INSTANCE NetworkRecovery WITH
    now <- netNow, real <- netReal, state <- netState, pc <- netPc, made <- netMade,
    runs <- netRuns, outage <- netOutage

Hls == INSTANCE HlsPublisher WITH
    MaxFaults <- MaxHlsFaults, files <- hlsFiles, playlist <- hlsPlaylist,
    bucket <- hlsBucket, shown <- hlsShown, published <- hlsPublished, noted <- hlsNoted,
    pc <- hlsPc, stat <- hlsStat, todo <- hlsTodo, listed <- hlsListed,
    recent <- hlsRecent, faults <- hlsFaults

Keep == INSTANCE Retention WITH
    Clips <- KeptClips, PageSize <- KeptPage, MaxRequests <- MaxKeepRequests,
    MaxRuns <- MaxKeepRuns, MaxFaults <- MaxKeepFaults,
    stars <- keepStars, quarantined <- keepQuarantined, tags <- keepTags,
    request <- keepRequest, requests <- keepRequests, tool <- keepTool,
    offset <- keepOffset, featured <- keepFeatured, left <- keepLeft, runs <- keepRuns,
    faults <- keepFaults, crossed <- keepCrossed, shrunk <- keepShrunk,
    excused <- keepExcused

Monitor == INSTANCE FreshnessMonitor WITH
    manifest <- monManifest, snapshot <- monSnapshot, samples <- monSamples,
    ran <- monRan

Receivers == INSTANCE ReceiverRelease WITH
    Releases <- ReceiverReleases, Live <- LiveChannels, Recorded <- RecordedChannels,
    First <- ReceiverFirst, MaxFaults <- MaxReceiverFaults, config <- recConfig,
    app <- recApp, record <- recRecord, run <- recRun, up <- recUp,
    foundAt <- recFoundAt, last <- recLast, applied <- recApplied, faults <- recFaults,
    kills <- recKills

\* What was installed first is configured as its policy says.
ASSUME ReceiverAssumption ==
    /\ LiveChannels \in [ReceiverReleases \cup {FirstRelease} -> Seq(DOMAIN Tuned)]
    /\ DOMAIN ReceiverFirst = {"blocks", "rest"}
    /\ Len(ReceiverFirst.blocks) \in Nat
    /\ DOMAIN ReceiverFirst.blocks = 1 .. Len(ReceiverFirst.blocks)
    /\ Receivers!Follows(ReceiverFirst, FirstRelease)

Scope == INSTANCE BudgetScope WITH
    Project <- ProjectKeys, Other <- OtherKeys, Limit <- CostLimit,
    MaxRuns <- MaxScopeRuns, MaxEdits <- MaxScopeEdits, MaxFaults <- MaxScopeFaults,
    dns <- costDns, bucket <- costBucket, budget <- costBudget, run <- costRun,
    outcome <- costOutcome, fresh <- costFresh, lost <- costLost, quiet <- costQuiet,
    runs <- costRuns, edits <- costEdits, faults <- costFaults

Advertiser == INSTANCE Advertisement WITH
    MaxFaults <- MaxMdnsFaults, MaxStops <- MaxMdnsStops, lease <- mdnsLease,
    pc <- mdnsPc, read <- mdnsRead, publisher <- mdnsPublisher, service <- mdnsService,
    advertised <- mdnsAdvertised, open <- mdnsOpen, lan <- mdnsLan, moves <- mdnsMoves,
    faults <- mdnsFaults, stops <- mdnsStops

\* A behaviour is of one component; the variables of the others say nothing.
NoNode ==
    /\ nodeServed = Nothing /\ nodeSpent = Nothing /\ nodeResponse = Nothing
    /\ nodeIdentity = Nothing /\ nodePlan = Nothing /\ nodeSealed = Nothing
    /\ nodeEnabled = Nothing /\ nodeRuntime = Nothing /\ nodeInstaller = Nothing
    /\ nodeUsing = Nothing /\ nodeFetched = Nothing /\ nodeLink = Nothing
    /\ nodeLost = Nothing /\ nodeChanges = Nothing /\ nodeFaults = Nothing
NoCdn ==
    /\ cdnCdn = Nothing /\ cdnRecord = Nothing /\ cdnOp = Nothing /\ cdnPlan = Nothing
    /\ cdnLast = Nothing /\ cdnStops = Nothing
    /\ cdnFound = Nothing /\ cdnOwn = Nothing /\ cdnCrossed = Nothing
NoNetwork ==
    /\ netNow = Nothing /\ netReal = Nothing /\ netState = Nothing /\ netPc = Nothing
    /\ netMade = Nothing /\ netRuns = Nothing /\ netOutage = Nothing
NoHls ==
    /\ hlsFiles = Nothing /\ hlsPlaylist = Nothing /\ hlsBucket = Nothing
    /\ hlsShown = Nothing /\ hlsPublished = Nothing /\ hlsNoted = Nothing
    /\ hlsPc = Nothing /\ hlsStat = Nothing /\ hlsTodo = Nothing /\ hlsListed = Nothing
    /\ hlsRecent = Nothing /\ hlsFaults = Nothing
NoRetention ==
    /\ keepStars = Nothing /\ keepQuarantined = Nothing /\ keepTags = Nothing
    /\ keepRequest = Nothing /\ keepRequests = Nothing /\ keepTool = Nothing
    /\ keepOffset = Nothing /\ keepFeatured = Nothing /\ keepLeft = Nothing
    /\ keepRuns = Nothing /\ keepFaults = Nothing /\ keepCrossed = Nothing
    /\ keepShrunk = Nothing /\ keepExcused = Nothing
NoMonitor ==
    /\ monManifest = Nothing /\ monSnapshot = Nothing /\ monSamples = Nothing
    /\ monRan = Nothing
NoReceivers ==
    /\ recConfig = Nothing /\ recApp = Nothing /\ recRecord = Nothing
    /\ recRun = Nothing /\ recUp = Nothing /\ recFoundAt = Nothing /\ recLast = Nothing
    /\ recApplied = Nothing /\ recFaults = Nothing /\ recKills = Nothing
NoBudget ==
    /\ costDns = Nothing /\ costBucket = Nothing /\ costBudget = Nothing
    /\ costRun = Nothing /\ costOutcome = Nothing /\ costFresh = Nothing
    /\ costLost = Nothing /\ costQuiet = Nothing /\ costRuns = Nothing
    /\ costEdits = Nothing /\ costFaults = Nothing
NoMdns ==
    /\ mdnsLease = Nothing /\ mdnsPc = Nothing /\ mdnsRead = Nothing
    /\ mdnsPublisher = Nothing /\ mdnsService = Nothing /\ mdnsAdvertised = Nothing
    /\ mdnsOpen = Nothing /\ mdnsLan = Nothing /\ mdnsMoves = Nothing
    /\ mdnsFaults = Nothing /\ mdnsStops = Nothing

Parts == {"site", "node", "cdn", "network", "hls", "retention", "monitor",
          "receivers", "budget", "mdns"}

Only(p) ==
    /\ part = p /\ UNCHANGED part
    /\ p # "site" => UNCHANGED vars
    /\ p # "node" => UNCHANGED NodeVars
    /\ p # "cdn" => UNCHANGED CdnVars
    /\ p # "network" => UNCHANGED NetworkVars
    /\ p # "hls" => UNCHANGED HlsVars
    /\ p # "retention" => UNCHANGED RetentionVars
    /\ p # "monitor" => UNCHANGED MonitorVars
    /\ p # "receivers" => UNCHANGED ReceiversVars
    /\ p # "budget" => UNCHANGED BudgetVars
    /\ p # "mdns" => UNCHANGED MdnsVars

HostInit ==
    /\ part \in Parts
    /\ Init
    /\ IF part = "node" THEN Docktalk!Init ELSE NoNode
    /\ IF part = "cdn" THEN Cdn!Init ELSE NoCdn
    /\ IF part = "network" THEN Network!Init ELSE NoNetwork
    /\ IF part = "hls" THEN Hls!Init ELSE NoHls
    /\ IF part = "retention" THEN Keep!Init ELSE NoRetention
    /\ IF part = "monitor" THEN Monitor!Init ELSE NoMonitor
    /\ IF part = "receivers" THEN Receivers!Init ELSE NoReceivers
    /\ IF part = "budget" THEN Scope!Init ELSE NoBudget
    /\ IF part = "mdns" THEN Advertiser!Init ELSE NoMdns

HostNext ==
    \/ /\ Only("site")
       /\ \/ ListClip
          \/ BeginFast
          \/ Operations
          \/ BeginLexical
          \/ LockForExport
          \/ LockForSwap
          \/ LexicalStep
          \/ \E j \in Jobs : JobStep(j) \/ Stop(j)
    \/ /\ Only("node")
       /\ \/ Docktalk!Begin
          \/ Docktalk!InstallerStep
          \/ Docktalk!InstallerStops
          \/ Docktalk!Start
          \/ Docktalk!Fetch
          \/ Docktalk!Refresh
          \/ Docktalk!Dies
          \/ Docktalk!Reboot
          \/ Docktalk!Watchdog
          \/ \E c \in NodeChannels :
                Docktalk!RelayStep(c) \/ Docktalk!Break(c) \/ Docktalk!GoesDeaf(c)
          \/ Docktalk!NewPlan
    \/ /\ Only("cdn")
       /\ \/ \E r \in CdnReleases : Cdn!Apply(r)
          \/ \E r \in CdnReleases : Cdn!Rollback(r)
          \/ \E r \in CdnReleases : Cdn!Plan(r)
          \/ \E r \in CdnReleases : Cdn!Execute(r)
          \/ \E r \in CdnReleases : Cdn!StepFails(r)
          \/ \E r \in CdnReleases : Cdn!Killed(r)
    \/ /\ Only("network")
       /\ \/ \E answers \in BOOLEAN : Network!Run(answers)
          \/ Network!Reconnect
          \/ Network!Crash
          \/ Network!Tick
          \/ Network!SetBack
    \/ /\ Only("hls")
       /\ \/ Hls!BeginSegment
          \/ Hls!FinishSegment
          \/ Hls!ReplacePlaylist
          \/ Hls!RemoveSegment
          \/ Hls!BeginPass
          \/ Hls!UploadPlaylist
          \/ Hls!Look
          \/ Hls!Put
          \/ Hls!Delete
          \/ Hls!EndPass
          \/ Hls!Ends
    \/ /\ Only("retention")
       /\ \/ \E c \in KeptClips, star \in BOOLEAN : Keep!Feature(c, star)
          \/ Keep!TagRequested
          \/ Keep!BeginTool
          \/ Keep!Read
          \/ Keep!List
          \/ Keep!ToolFails
          \/ \E c \in KeptClips : Keep!Quarantine(c) \/ Keep!Tag(c)
    \/ /\ Only("monitor")
       /\ \/ \E clips \in BOOLEAN : Monitor!WriteManifest(clips)
          \/ \E ahead \in 0 .. MaxAhead : Monitor!WriteSnapshot(ahead)
          \/ \E ran \in BOOLEAN : Monitor!Period(ran)
    \/ /\ Only("receivers")
       /\ \/ \E r \in ReceiverReleases : Receivers!Apply(r) \/ Receivers!Rollback(r)
          \/ Receivers!Step
          \/ Receivers!StepFails
          \/ Receivers!Killed
    \/ /\ Only("budget")
       /\ \/ \E apply \in BOOLEAN : Scope!Begin(apply)
          \/ Scope!Step
          \/ Scope!Fails
          \/ \E key \in ProjectKeys \cup OtherKeys : Scope!EditTag(key)
          \/ Scope!EditBudget
    \/ /\ Only("mdns")
       /\ \/ Advertiser!Poll
          \/ Advertiser!Unregister
          \/ Advertiser!Close
          \/ Advertiser!Publish
          \/ Advertiser!Register
          \/ Advertiser!Wake
          \/ Advertiser!Restart
          \/ Advertiser!Stop
          \/ Advertiser!Crash
          \/ Advertiser!Move
          \/ Advertiser!Expire

\* The fairness of PublicSite, DockTalk and Advertisement, each for its own behaviours.
Site(A) == part = "site" /\ A
Node(A) == part = "node" /\ A
Mdns(A) == part = "mdns" /\ A

OperationsSpec ==
    /\ HostInit /\ [][HostNext]_allVars
    /\ SF_vars(Site(BeginFast)) /\ WF_vars(Site(BeginLexical))
    /\ SF_vars(Site(LockForExport)) /\ SF_vars(Site(LockForSwap))
    /\ WF_vars(Site(Operations)) /\ WF_vars(Site(LexicalStep))
    /\ \A j \in Jobs : WF_vars(Site(JobStep(j)))
    /\ WF_NodeVars(Node(Docktalk!Progress))
    /\ WF_NodeVars(Node(Docktalk!Fetch)) /\ WF_NodeVars(Node(Docktalk!Refresh))
    /\ \A c \in NodeChannels : WF_NodeVars(Node(Docktalk!RelayStep(c)))
    /\ WF_MdnsVars(Mdns(Advertiser!Progress)) /\ WF_MdnsVars(Mdns(Advertiser!Expire))

\* The live routes only.
RoutesInit == HostInit /\ part = "cdn"
RoutesSpec == RoutesInit /\ [][HostNext]_allVars

-----------------------------------------------------------------------------
\* The jobs come to publish the analysis of the week.
ThisWeekIsPublished == part = "site" => WeekIsPublished

\* The enrolment code is not wasted, and the service can always start (docktalk.py).
NodeKeepsIdentity == part = "node" => Docktalk!NodeIsRight

\* In the end DockTalk hears what its plan says, and the LAN knows the API by the
\* address of the host (docktalk.py, mdns_advertiser.py).
ServicesRecover ==
    <>[](/\ part = "node" => Docktalk!HearsThePlan
         /\ part = "mdns" => Advertiser!LanKnowsTheAddress)

\* What is released, put back or cut short: live routes, the receiver's channels and
\* modules, the scope of the budget (deploy_live_cdn.py, apply_asr_receiver.sh,
\* receiver_config.py, scope_monthly_cost_budget.py).
ReleasesAreRight ==
    /\ part = "cdn" => Cdn!RoutesAreRight
    /\ part = "receivers" => Receivers!ReceiverMatchesModules
    /\ part = "budget" => Scope!BudgetIsScoped

\* A release of live routes that is rolled back removes only routes it has introduced, and
\* preserves those of others (docs/docktalk-node.md 146-147).
RollbackRemovesItsOwn == part = "cdn" => Cdn!RollbackRemovesItsOwn

\* Attempts to reconnect are bounded, and go on; the API is announced under the
\* address that was read (network_recovery.py, mdns_advertiser.py).
NetworkIsRight ==
    /\ part = "network" => Network!AttemptsAreBounded /\ Network!OutageIsTended
    /\ part = "mdns" => Advertiser!AnnouncesWhatItRead

\* What is kept in the buckets: whole streams, and the recordings of starred clips
\* (hls_publisher.py, retention.py).
BucketsAreRight ==
    /\ part = "hls" => Hls!StreamIsWhole
    /\ part = "retention" => Keep!RetentionFollowsStars

\* An alarm tells of what is stale (stale_clip_monitor.py).
AlarmsAreRight == part = "monitor" => Monitor!StalenessIsNoticed
=============================================================================
