------------------------------ MODULE MCReceiver ------------------------------
(***************************************************************************)
(* The receivers and the live services, on small instances: one edge       *)
(* capture process, the rendition of a clip, retuning the live receiver,   *)
(* the host's performance history, the live captions and the relay of      *)
(* vessel positions.                                                       *)
(* For the capture, what a frame holds and what the recorder does with it  *)
(* are independent: without recording the receiver sends anything, with    *)
(* recording a fixed conversation.                                         *)
(***************************************************************************)
EXTENDS EdgeCapture

Conversation == <<"voice", "voice", "quiet", "static", "voice", "voice", "voice", "quiet">>

MCKind(n, record) == IF record THEN {Conversation[n]} ELSE Kinds

Nothing == "nothing"

\* The sizes of the live receiver's instance.
CONSTANTS Requests,         \* requests to retune it
          TuneChannels,
          TuneFirst,        \* the channel it starts with
          NoOne, NoChannel,
          RestartsTranscriber,
          MaxGivenUp        \* bound: ssh commands that are given up

ASSUME RetuneAssumption == NoOne \notin Requests

\* Those of the performance history's.
CONSTANTS Captures, Sampler, MemorySpan, PersistInterval, PersistSpan, MaxDelay,
          MaxTime, MaxHostRestarts, MaxHostFaults

ASSUME HistoryAssumption ==
    /\ PersistInterval \in Nat \ {0} /\ PersistSpan \in Nat
    /\ MemorySpan \in Nat /\ MaxDelay \in Nat

\* Those of the captions'.
CONSTANTS Chunks, Limit, PageSize, MaxEntries, MaxSegments, MaxCaptionFaults,
          MaxCaptionRestarts, MaxCaptionRequests

ASSUME CaptionsAssumption ==
    /\ Chunks \subseteq Seq({"speech", "blank"})
    /\ Limit \in Nat \ {0} /\ PageSize \in Nat \ {0} /\ MaxEntries \in Nat

\* Those of the relay's.
CONSTANTS Browsers, Mmsis, Ages, MaxStaleness, MaxVessels, MaxMessages, MaxPosts,
          MaxRelayTimeouts

ASSUME RelayAssumption ==
    /\ Mmsis \subseteq Nat /\ Ages \subseteq Nat
    /\ MaxStaleness \in Nat /\ MaxVessels \in Nat
    /\ MaxMessages \in Nat /\ MaxPosts \in Nat

\* Those of the rendition's.  The compressor never makes a clip louder.
CONSTANTS Peaks, Losses, Errors, MaxTries

ASSUME RenditionAssumption == Peaks \subseteq Int /\ Losses \subseteq Nat /\ Errors \subseteq Int

MCChunks == {<<"speech">>, <<"blank", "speech">>, <<"speech", "speech">>}
MCPeaks == {-5010, -613, 30}
MCErrors == {-76, -75, -3, 6, 20, 27}

VARIABLES part,       \* the component this behaviour is of
          tuneLock, tuneRequest, tuneThread, tuneScript, tuneLines, tuneEnv,
          tuneStream, tuneLast, tuneTimeouts,
          hostNow, hostCapture, hostRecorded, hostSamples, hostLastPersist, hostDb,
          hostLatest, hostSeen, hostUnsaved, hostRestarts, hostFaults,
          captionLoop, captionFfmpeg, captionSaid, captionStore, captionEntries,
          captionStatus, captionRequest, captionAppended, captionFaults,
          captionRestarts, captionRequests,
          aisSender, aisPost, aisLambda, aisObject, aisTable, aisOpen, aisShown,
          aisJoined, aisTimeouts,
          clipPc, clipSource, clipCompressed, clipGain, clipEncoded, clipErrors,
          clipPending, clipFile, clipResult, clipTries

RetuneVars ==
    <<tuneLock, tuneRequest, tuneThread, tuneScript, tuneLines, tuneEnv, tuneStream,
      tuneLast, tuneTimeouts>>
HistoryVars ==
    <<hostNow, hostCapture, hostRecorded, hostSamples, hostLastPersist, hostDb,
      hostLatest, hostSeen, hostUnsaved, hostRestarts, hostFaults>>
CaptionsVars ==
    <<captionLoop, captionFfmpeg, captionSaid, captionStore, captionEntries,
      captionStatus, captionRequest, captionAppended, captionFaults, captionRestarts,
      captionRequests>>
AisVars ==
    <<aisSender, aisPost, aisLambda, aisObject, aisTable, aisOpen, aisShown,
      aisJoined, aisTimeouts>>
RenditionVars ==
    <<clipPc, clipSource, clipCompressed, clipGain, clipEncoded, clipErrors,
      clipPending, clipFile, clipResult, clipTries>>
allVars ==
    <<part, vars, RetuneVars, HistoryVars, CaptionsVars, AisVars, RenditionVars>>

Tuner == INSTANCE LiveRetune WITH
    Channels <- TuneChannels, First <- TuneFirst, MaxTimeouts <- MaxGivenUp,
    lock <- tuneLock, request <- tuneRequest, thread <- tuneThread,
    script <- tuneScript, lines <- tuneLines, env <- tuneEnv, stream <- tuneStream,
    last <- tuneLast, timeouts <- tuneTimeouts

History == INSTANCE PerformanceHistory WITH
    MaxRestarts <- MaxHostRestarts, MaxFaults <- MaxHostFaults,
    now <- hostNow, capture <- hostCapture, recorded <- hostRecorded,
    samples <- hostSamples, lastPersist <- hostLastPersist, db <- hostDb,
    latest <- hostLatest, seen <- hostSeen, unsaved <- hostUnsaved,
    restarts <- hostRestarts, faults <- hostFaults

Captions == INSTANCE LiveCaptions WITH
    MaxFaults <- MaxCaptionFaults, MaxRestarts <- MaxCaptionRestarts,
    MaxRequests <- MaxCaptionRequests, loop <- captionLoop,
    ffmpeg <- captionFfmpeg, said <- captionSaid, store <- captionStore,
    entries <- captionEntries, status <- captionStatus, request <- captionRequest,
    appended <- captionAppended, faults <- captionFaults, restarts <- captionRestarts,
    requests <- captionRequests

Ais == INSTANCE AisRelay WITH
    MaxTimeouts <- MaxRelayTimeouts,
    sender <- aisSender, post <- aisPost, lambda <- aisLambda, object <- aisObject,
    table <- aisTable, open <- aisOpen, shown <- aisShown, joined <- aisJoined,
    timeouts <- aisTimeouts

Rendition == INSTANCE CanonicalAudio WITH
    pc <- clipPc, source <- clipSource, compressed <- clipCompressed, gain <- clipGain,
    encoded <- clipEncoded, errors <- clipErrors, pending <- clipPending,
    file <- clipFile, result <- clipResult, tries <- clipTries

\* The positions of the first post; what a later snapshot holds does not depend on
\* the ones before.
Payloads ==
    IF aisPost > 0 THEN {<<>>}
    ELSE UNION {[1 .. n -> {p \in Ais!Positions : p.inside \/ p.age = 0}] : n \in 0 .. MaxMessages}

NoEdge == Init /\ recording = FALSE

\* A behaviour is of one component; the variables of the others say nothing.
NoRetune ==
    /\ tuneLock = Nothing /\ tuneRequest = Nothing /\ tuneThread = Nothing
    /\ tuneScript = Nothing /\ tuneLines = Nothing /\ tuneEnv = Nothing
    /\ tuneStream = Nothing /\ tuneLast = Nothing /\ tuneTimeouts = Nothing
NoHistory ==
    /\ hostNow = Nothing /\ hostCapture = Nothing /\ hostRecorded = Nothing
    /\ hostSamples = Nothing /\ hostLastPersist = Nothing /\ hostDb = Nothing
    /\ hostLatest = Nothing /\ hostSeen = Nothing /\ hostUnsaved = Nothing
    /\ hostRestarts = Nothing /\ hostFaults = Nothing
NoCaptions ==
    /\ captionLoop = Nothing /\ captionFfmpeg = Nothing /\ captionSaid = Nothing
    /\ captionStore = Nothing /\ captionEntries = Nothing /\ captionStatus = Nothing
    /\ captionRequest = Nothing /\ captionAppended = Nothing /\ captionFaults = Nothing
    /\ captionRestarts = Nothing /\ captionRequests = Nothing
NoAis ==
    /\ aisSender = Nothing /\ aisPost = Nothing /\ aisLambda = Nothing
    /\ aisObject = Nothing /\ aisTable = Nothing /\ aisOpen = Nothing
    /\ aisShown = Nothing /\ aisJoined = Nothing /\ aisTimeouts = Nothing
NoRendition ==
    /\ clipPc = Nothing /\ clipSource = Nothing /\ clipCompressed = Nothing
    /\ clipGain = Nothing /\ clipEncoded = Nothing /\ clipErrors = Nothing
    /\ clipPending = Nothing /\ clipFile = Nothing /\ clipResult = Nothing
    /\ clipTries = Nothing

Parts == {"edge", "retune", "history", "captions", "ais", "rendition"}

Only(p) ==
    /\ part = p /\ UNCHANGED part
    /\ p # "edge" => UNCHANGED vars
    /\ p # "retune" => UNCHANGED RetuneVars
    /\ p # "history" => UNCHANGED HistoryVars
    /\ p # "captions" => UNCHANGED CaptionsVars
    /\ p # "ais" => UNCHANGED AisVars
    /\ p # "rendition" => UNCHANGED RenditionVars

HostInit ==
    /\ part \in Parts
    /\ IF part = "edge" THEN Init ELSE NoEdge
    /\ IF part = "retune" THEN Tuner!Init ELSE NoRetune
    /\ IF part = "history" THEN History!Init ELSE NoHistory
    /\ IF part = "captions" THEN Captions!Init ELSE NoCaptions
    /\ IF part = "ais" THEN Ais!Init ELSE NoAis
    /\ IF part = "rendition" THEN Rendition!Init ELSE NoRendition

HostNext ==
    \/ /\ Only("edge")
       /\ CaptureNext
    \/ /\ Only("retune")
       /\ \/ \E r \in Requests : Tuner!Refuse(r)
          \/ \E r \in Requests : Tuner!Begin(r)
          \/ \E r \in Requests : Tuner!Notice(r)
          \/ \E r \in Requests : Tuner!Connect(r)
          \/ \E r \in Requests : Tuner!ConnectFails(r)
          \/ \E r \in Requests : Tuner!SshReturns(r)
          \/ \E r \in Requests : Tuner!SshExpires(r)
          \/ \E r \in Requests : Tuner!RestartTranscriber(r)
          \/ \E r \in Requests : Tuner!ReadEnv(r)
          \/ \E r \in Requests : Tuner!Truncate(r)
          \/ \E r \in Requests : Tuner!Write(r)
          \/ \E r \in Requests : Tuner!Restart(r)
    \/ /\ Only("history")
       /\ \/ History!Tick
          \/ History!Restart
          \/ \E c \in Captures : History!Collect(c)
          \/ \E c \in Captures : History!Record(c)
          \/ \E c \in Captures : History!SetLatest(c)
    \/ /\ Only("captions")
       /\ \/ Captions!Connect
          \/ \E chunk \in Chunks : Captions!Read(chunk)
          \/ Captions!StreamEnds
          \/ Captions!TranscriptionFails
          \/ Captions!SkipBlank
          \/ Captions!Store
          \/ Captions!Show
          \/ Captions!ChunkDone
          \/ Captions!Restart
          \/ Captions!Ask
          \/ Captions!Page
          \/ Captions!Answered
    \/ /\ Only("ais")
       /\ \/ \E payload \in Payloads : Ais!Send(payload)
          \/ Ais!TimeOut
          \/ \E n \in 1 .. MaxPosts : Ais!PutObject(n)
          \/ \E n \in 1 .. MaxPosts : Ais!Scan(n)
          \/ \E n \in 1 .. MaxPosts : Ais!Accept(n)
          \/ \E n \in 1 .. MaxPosts, b \in Browsers : Ais!Post(n, b)
          \/ \E b \in Browsers : Ais!Connect(b)
          \/ \E b \in Browsers : Ais!Close(b)
          \/ \E b \in Browsers : Ais!Expire(b)
    \/ /\ Only("rendition")
       /\ \/ \E peak \in Peaks : Rendition!Begin(peak)
          \/ \E loss \in Losses : Rendition!Compress(loss)
          \/ \E error \in Errors : Rendition!Encode(error)
          \/ Rendition!Judge
          \/ Rendition!Place
          \/ Rendition!Name
          \/ Rendition!Fails

\* Both threads of the capture are scheduled, and the stages of a retune go on; the
\* receiver, the failures and the clients are free.
HostSpec ==
    /\ HostInit /\ [][HostNext]_allVars
    /\ WF_process(part = "edge" /\ MainStep) /\ WF_process(part = "edge" /\ WorkerStep)
    /\ \A r \in Requests : WF_RetuneVars(part = "retune" /\ Tuner!Progress(r))

-----------------------------------------------------------------------------
\* Retuning: the stream plays what the settings say, the lock keeps retunes apart,
\* and it is always given back (retune_channel, retune_pi).
RetuneIsRight == part = "retune" => Tuner!StreamMatchesSettings /\ Tuner!RetunesDoNotMix

LockIsReleased == \A r \in Requests : tuneLock = r ~> tuneLock = NoOne

\* The history has no gap and its table no more rows than it should
\* (PerformanceHistoryStore).
HistoryIsRight == part = "history" => History!HistoryHasNoGap /\ History!TableIsBounded

\* What a browser is shown and plays: captions that are shown are stored, the recent ones
\* have no gap, vessel snapshots are right, an accepted one is shown, and a rendition
\* that is there has the peak it should (live_transcriber.py, ais_live.py,
\* process_canonical_clip_audio).
LiveViewIsRight ==
    /\ part = "captions" => Captions!CaptionsAreStored /\ Captions!RecentIsWithoutGap
    /\ part = "ais" => Ais!SnapshotsAreRight /\ Ais!AcceptedIsShown
    /\ part = "rendition" => Rendition!RenditionIsRight
=============================================================================
