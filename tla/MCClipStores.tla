----------------------------- MODULE MCClipStores -----------------------------
(***************************************************************************)
(* The stores of the clips and what reads them, on small instances: the    *)
(* SQLite store, the numbered pages of the DynamoDB one, a visitor's pages *)
(* of recent clips, the operator's queue tools, the search index and the   *)
(* audit of the channels.                                                  *)
(***************************************************************************)
EXTENDS SearchIndex

Nothing == "nothing"
ReaderKinds == {"none", "starred", "scan", "newest"}
SqliteStatuses == {"pending", "processing", "transcribed"}
Works == UNION {[1 .. n -> 0 .. 3] : n \in 1 .. 4}

VARIABLES part,       \* the component this behaviour is of
          dbClips, dbSegments, dbStars, dbEvents, dbWorker, dbOperator, dbReader,
          dbSteady, dbShrunk, dbRequests, dbWaits, dbFaults, dbCrashes,
          pageRows, pageWriting, pageAnchors, pageCounts, pageAnchorAge, pageCountAge,
          pageThread, pageQuiet,
          visitListed, visitAudio, visitCached, visitVisit, visitRequest, visitSteady,
          visitMoved, visitChanges, visitFaults,
          queueSource, queueState, queueRows, queueApi, queueTool, queueCheckpoint,
          queueDone, queueCounter, queueTouched, queueChanged, queuePresigns,
          queueCrashes, queueCounts,
          auditWeek, auditBucket, auditItems, auditCheckpoint, auditInventory,
          auditOutput, auditBench, auditRun, auditSpent, auditRuns

DatabaseVars ==
    <<dbClips, dbSegments, dbStars, dbEvents, dbWorker, dbOperator, dbReader,
      dbSteady, dbShrunk, dbRequests, dbWaits, dbFaults, dbCrashes>>
PagesVars ==
    <<pageRows, pageWriting, pageAnchors, pageCounts, pageAnchorAge, pageCountAge,
      pageThread, pageQuiet>>
BrowsingVars ==
    <<visitListed, visitAudio, visitCached, visitVisit, visitRequest, visitSteady,
      visitMoved, visitChanges, visitFaults>>
ToolsVars ==
    <<queueSource, queueState, queueRows, queueApi, queueTool, queueCheckpoint,
      queueDone, queueCounter, queueTouched, queueChanged, queuePresigns,
      queueCrashes, queueCounts>>
AuditVars ==
    <<auditWeek, auditBucket, auditItems, auditCheckpoint, auditInventory,
      auditOutput, auditBench, auditRun, auditSpent, auditRuns>>
allVars ==
    <<part, vars, DatabaseVars, PagesVars, BrowsingVars, ToolsVars, AuditVars>>

D == INSTANCE ClipDatabase WITH
    Keys <- 1 .. 3, StartOf <- <<1, 1, 2>>, Limit <- 1, PageSize <- 1,
    Operators <- {1, 2}, Kinds <- {"none", "starred", "scan", "newest"},
    MaxClips <- [kind \in ReaderKinds |-> IF kind \in {"none", "starred"} THEN 2 ELSE 3],
    MaxStars <- [kind \in ReaderKinds |-> IF kind = "starred" THEN 2 ELSE 0],
    MaxWaits <- [kind \in ReaderKinds |-> IF kind = "none" THEN 1 ELSE 0],
    MaxFaults <- [kind \in ReaderKinds |-> IF kind = "starred" THEN 0 ELSE 1],
    MaxCrashes <- [kind \in ReaderKinds |-> IF kind = "none" THEN 1 ELSE 0],
    clips <- dbClips, segments <- dbSegments, stars <- dbStars, events <- dbEvents,
    worker <- dbWorker, operator <- dbOperator, reader <- dbReader, steady <- dbSteady,
    shrunk <- dbShrunk, requests <- dbRequests, waits <- dbWaits, faults <- dbFaults,
    crashes <- dbCrashes

P == INSTANCE ClipPages WITH
    Clips <- 1 .. 3, Hidden <- {}, Own <- {2}, PageSize <- 1, PageTtl <- 1,
    CountTtl <- 1, Slack <- 1, MaxPage <- 3, PageThreads <- {1}, CountThreads <- {2},
    rows <- pageRows, writing <- pageWriting, anchors <- pageAnchors,
    counts <- pageCounts, anchorAge <- pageAnchorAge, countAge <- pageCountAge,
    thread <- pageThread, quiet <- pageQuiet

B == INSTANCE ClipBrowsing WITH
    Clips <- 1 .. 4, Poor <- {3}, Limit <- 1, BatchSize <- 2, MaxFaults <- 1,
    MaxChanges <- [cursor |-> 2, offset |-> 1], listed <- visitListed,
    audio <- visitAudio, cached <- visitCached, visit <- visitVisit,
    request <- visitRequest, steady <- visitSteady, moved <- visitMoved,
    changes <- visitChanges, faults <- visitFaults

T == INSTANCE QueueTools WITH
    Keys <- 1 .. 3, Sources <- SqliteStatuses, Old <- {1, 2}, Inactive <- {2},
    PageSize <- 1, MaxPages <- 6, MaxPresigns <- 1, MaxCrashes <- 1, MaxCounts <- 1,
    source <- queueSource, state <- queueState, rows <- queueRows, api <- queueApi,
    tool <- queueTool, checkpoint <- queueCheckpoint, done <- queueDone,
    counter <- queueCounter, touched <- queueTouched, changed <- queueChanged,
    presigns <- queuePresigns, crashes <- queueCrashes, counts <- queueCounts

A == INSTANCE ChannelAudit WITH
    Clips <- 1 .. 3, Channels <- {"13", "16"}, ChannelOf <- <<"13", "16", "16">>,
    WeekOf <- <<1, 1, 2>>, Seconds <- <<2, 3, 2>>, Suitable <- {1, 3}, PageSize <- 2,
    Capacity <- 2, Attempts <- 2, MaxProbes <- 1, MaxRuns <- 2, MaxWeek <- 2,
    week <- auditWeek, bucket <- auditBucket, items <- auditItems,
    checkpoint <- auditCheckpoint, inventory <- auditInventory, output <- auditOutput,
    bench <- auditBench, run <- auditRun, spent <- auditSpent, runs <- auditRuns

\* A behaviour is of one component; the variables of the others say nothing.
NoDatabase ==
    /\ dbClips = Nothing /\ dbSegments = Nothing /\ dbStars = Nothing
    /\ dbEvents = Nothing /\ dbWorker = Nothing /\ dbOperator = Nothing
    /\ dbReader = Nothing /\ dbSteady = Nothing /\ dbShrunk = Nothing
    /\ dbRequests = Nothing /\ dbWaits = Nothing /\ dbFaults = Nothing
    /\ dbCrashes = Nothing
NoPages ==
    /\ pageRows = Nothing /\ pageWriting = Nothing /\ pageAnchors = Nothing
    /\ pageCounts = Nothing /\ pageAnchorAge = Nothing /\ pageCountAge = Nothing
    /\ pageThread = Nothing /\ pageQuiet = Nothing
NoBrowsing ==
    /\ visitListed = Nothing /\ visitAudio = Nothing /\ visitCached = Nothing
    /\ visitVisit = Nothing /\ visitRequest = Nothing /\ visitSteady = Nothing
    /\ visitMoved = Nothing /\ visitChanges = Nothing /\ visitFaults = Nothing
NoTools ==
    /\ queueSource = Nothing /\ queueState = Nothing /\ queueRows = Nothing
    /\ queueApi = Nothing /\ queueTool = Nothing /\ queueCheckpoint = Nothing
    /\ queueDone = Nothing /\ queueCounter = Nothing /\ queueTouched = Nothing
    /\ queueChanged = Nothing /\ queuePresigns = Nothing /\ queueCrashes = Nothing
    /\ queueCounts = Nothing
NoAudit ==
    /\ auditWeek = Nothing /\ auditBucket = Nothing /\ auditItems = Nothing
    /\ auditCheckpoint = Nothing /\ auditInventory = Nothing /\ auditOutput = Nothing
    /\ auditBench = Nothing /\ auditRun = Nothing /\ auditSpent = Nothing
    /\ auditRuns = Nothing

Parts == {"database", "pages", "browsing", "tools", "search", "audit"}

Only(p) ==
    /\ part = p /\ UNCHANGED part
    /\ p # "database" => UNCHANGED DatabaseVars
    /\ p # "pages" => UNCHANGED PagesVars
    /\ p # "browsing" => UNCHANGED BrowsingVars
    /\ p # "tools" => UNCHANGED ToolsVars
    /\ p # "search" => UNCHANGED vars
    /\ p # "audit" => UNCHANGED AuditVars

StoresInit ==
    /\ part \in Parts
    /\ Init
    /\ IF part = "database" THEN D!Init ELSE NoDatabase
    /\ IF part = "pages" THEN P!Init ELSE NoPages
    /\ IF part = "browsing" THEN B!Init ELSE NoBrowsing
    /\ IF part = "tools" THEN T!Init ELSE NoTools
    /\ IF part = "audit" THEN A!Init ELSE NoAudit

StoresNext ==
    \/ /\ Only("database")
       /\ \/ \E k \in 1 .. 3 : D!Presign(k)
          \/ \E o \in {1, 2} : D!OperatorNext(o)
          \/ D!Poll
          \/ D!Claim
          \/ D!Settles
          \/ D!TranscribedEvent
          \/ D!Crash
          \/ D!StartRead
          \/ D!Query
          \/ D!Give
    \/ /\ Only("pages")
       /\ \/ \E k \in 1 .. 3 : P!ElsewhereWrites(k)
          \/ P!Announce(2)
          \/ P!Write
          \/ \E page \in 1 .. 3 : P!Ask(1, page)
          \/ P!Scan(1)
          \/ P!Store(1)
          \/ P!Collect(1)
          \/ P!AskCounts(2)
          \/ P!Count(2)
          \/ P!Keep(2)
          \/ \E t \in {1, 2} : P!Answered(t)
          \/ P!Tick
    \/ /\ Only("browsing")
       /\ \/ \E k \in 1 .. 4 : B!List(k)
          \/ \E k \in 1 .. 4 : B!Unlist(k)
          \/ \E k \in 1 .. 4 : B!DeleteAudio(k)
          \/ \E k \in 1 .. 4 : B!Expire(k)
          \/ B!Ask
          \/ B!Query
          \/ B!Check
          \/ B!CheckFails
    \/ /\ Only("tools")
       /\ \/ \E k \in 1 .. 3 : T!Presign(k)
          \/ \E k \in 1 .. 3, s \in SqliteStatuses : T!SourceChanges(k, s)
          \/ T!ApiWrites
          \/ T!StartBackfill
          \/ T!Backfill
          \/ T!StartSeed
          \/ T!SeedQuery
          \/ T!SeedPut
          \/ T!SeedCheckpoint
          \/ T!StartPurge
          \/ T!PurgeQuery
          \/ T!PurgeFlush
          \/ T!Finish
          \/ T!StartCount
          \/ T!Count
          \/ T!EndCount
    \/ Only("search") /\ SearchNext
    \/ /\ Only("audit")
       /\ \/ \E c \in 1 .. 3 : A!Arrive(c) \/ A!ItemChanges(c) \/ A!Measure(c)
          \/ \E some \in SUBSET (1 .. 3) : A!Read(some)
          \/ A!NextWeek
          \/ A!Audit
          \/ A!NextPage
          \/ A!Save
          \/ A!Count
          \/ A!List
          \/ A!Write
          \/ A!Benchmark
          \/ A!Note
          \/ A!Check
          \/ A!Stopped

StoresSpec == StoresInit /\ [][StoresNext]_allVars

-----------------------------------------------------------------------------
\* The SQLite store: reads that overlap changes are complete, and the tables agree
\* with each other and with the events (clip_transcriber.py).
DatabaseIsRight == part = "database" => D!ReadsAreComplete /\ D!TablesAgree

\* Numbered pages and counts are exact once the index has been at rest for longer
\* than a cache entry lives, and a visitor who comes to the end of the pages of recent
\* clips has seen every clip (dynamo_clip_store.py, api.py).
ListingIsRight ==
    /\ part = "pages" => P!ExactWhenQuiet
    /\ part = "browsing" => B!VisitIsComplete

\* The queue tools leave exactly the rows they should, though they are cut short and
\* the API registers clips (durable_backfill.py, queue_channel_indexes.py,
\* queue_purge.py), and a count of a queue at rest is right (active_queue_snapshot);
\* the audit of the channels and its benchmark count every clip once, and the
\* forecast is that of a queue, for up to four hours of work (channel_audit.py).
ToolsAreRight ==
    /\ part = "tools" => T!MigrationIsComplete /\ T!PurgeIsExact /\ T!CountIsRight
    /\ part = "audit" => A!AuditCountsOnce
    /\ (part = "audit" /\ auditBucket = {}) => A!ForecastIsRight(Works, 1)
=============================================================================
