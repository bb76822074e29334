# TLA+ models of the VHF clip pipeline

This directory keeps a formal model of the system in `src/`: marine VHF recordings are
cut on a receiver, uploaded by a spool daemon, registered and queued in DynamoDB,
transcribed, listed, searched and published, while jobs, daemons and release scripts
around that pipeline keep it running. The modules state what the code does, the `.cfg`
files check it with TLC on small instances, and `*_proofs` modules (and `SearchIndex`) hold
theorems that TLAPS checks for every value of the constants. `PROJECT.json` maps every definition to
the lines it stands for and lists runs, hazards, findings and, for every property, a
mutant of the code that breaks it.

Paths below are relative to `src/src/talkingboats/` unless they start with `src/`,
`scripts/`, `deploy/`, `infra/` or `docs/`.

## 1. Inventory

### The pipeline

```
 receiver --files--> spool_uploader --POST /v1/clips/presign--> api --> dynamo_clip_store
                          |                                                |   state item
                          +-----------PUT object-----> raw bucket          |   index rows
                                                          |                |
                     clip_transcriber <----GET object-----+   <--queue rows+--stream--> clip_count_aggregates
                          |                                                |               |
                          +---------- marks, public rows ----------------->+               v
 operator: set_clip_featured (api) ----------------------------------------+        summary item (readers)
```

| component | state | operations | hard behaviour | what makes it correct | modules |
| --- | --- | --- | --- | --- | --- |
| Edge capture (`edge_capture.py`, `audio_processing.py`) | open segment, squelch state, pre-roll, upload queue | read, record, cut, render, rename, upload, expire | two threads; a process killed while a segment is open; the end of the stream; an encoder that changes the level | a final name means a complete file; clips are what was heard; a clean stop hands everything over | `EdgeCapture`, `CanonicalAudio` |
| Spool uploader (`spool_uploader.py`) | the files of the spool directory | sweep, prune, discover, burst guard, merge, hold, upload, quarantine, remove | a window over the newest files, followers still being written, lost answers, crashes between removals | no recording is lost or sent twice; groups are the documented merge; the spool drains | `SpoolUploader`, `SpoolUploader_proofs` |
| Clip store (`dynamo_clip_store.py`) | state item and index rows per clip; in-process page anchors and count caches | register, mark, star, queue query, pages, counts | one state change is up to ten separate requests; three processes write the same clip; caches outlive the rows | rows are exactly what the state item calls for; pages are exact once things are quiet | `ClipRows`, `TranscriptionQueue`, `ClipPages` |
| Upload transcriber (`clip_transcriber.py`) | none between polls but the table | poll, claim, fetch, transcribe, settle | crashes and failed requests in the middle of a mark; uploads that never arrive; a poll's few places | every uploaded clip is settled; no kind of clip starves another | `TranscriptionQueue` |
| SQLite store (`clip_transcriber.py` 151-1170) | one database file, a log of events | register, claim, settle, star, scan, page | reads in several transactions, events written after theirs | the tables agree; reads are complete | `ClipDatabase` |
| Clip count aggregates (`clip_count_aggregates.py`, `infra/opentofu/clip_count_aggregates.tf`) | one membership item per index row, one summary item per table with a revision | stream handler, reconcile, ensure summary, paged backfill, bulk backfill | several shards and a backfill race on one summary; optimistic transactions, retries, at-least-once delivery, partial batch failures, kills | counters equal the memberships; memberships catch up with the rows | `ClipCount*` |
| Private API (`api.py`, `security.py`, `schemas.py`) | remembered audio objects | presign, star, corrections, experiments, recent clips, search | handlers run in parallel threads; pages are put together from filtered batches | what the components it calls promise; a visitor sees every clip | `ClipBrowsing`, and the modules of what it calls |
| Clip search (`clip_search.py`) | a cached index file, a matrix built from it | load, build, search | threads share a payload that one of them takes apart; the file is replaced meanwhile | an answer comes from one whole index | `SearchIndex` |
| Operator tools (`queue_purge.py`, `queue_channel_indexes.py`, `durable_backfill.py`, `transcription_backlog.py`) | a checkpoint | copy, seed rows, purge, count | batches cut short and run again on pages read before, beside an API that registers | exactly the rows there should be | `QueueTools` |
| ASR experiments (`asr_experiments.py`) | a directory per run with `status.json`, a worker lock, a cancel file | start, cancel, list, worker stages | API threads, workers and service manager share the files; one temporary file name for all writers; kills during conversion | one experiment at a time; no result without its model; a finished run stays finished | `AsrExperiments` |
| ASR feedback (`asr_feedback.py`, `archive_label`, `feedback_search.py`) | a head row per clip, its history, request receipts, a global revision; a search cache | save, commit, archive, search | concurrent editors, repeated requests, conflicts, the archive of an older revision, a cache filled while edits land | histories without gaps, each request once, nothing acknowledged is lost, no unreviewed text in the training set | `LabelLog`, `ReviewedLabels`, `CorrectionSearch` |
| Live radio proxy (`live_radio_proxy.py`) | retune lock, observed frequency, performance history in memory and SQLite | stream, retune, sample | ssh given up while its script goes on; samples recorded later than they were taken | the stream plays what the settings say; a history without gaps and within its limits | `LiveRetune`, `PerformanceHistory` |
| Live transcriber (`live_transcriber.py`) | entries shown, entries stored | read, transcribe, store, show, page | the store fails or the service restarts between two entries | what is shown is stored; recent entries have no gap | `LiveCaptions` |
| AIS relay (`ais_forwarder.py`, `ais_live.py`) | a snapshot, a table of connections | post, ingest, broadcast, connect, expire | a post given up whose lambda goes on; browsers that vanish | positions shown are fresh ones; what was accepted is shown | `AisRelay` |
| Channel audit (`channel_audit.py`) | checkpoints of audit and benchmark | audit, benchmark, forecast | stopped anywhere, run again, week after week | every clip counted once | `ChannelAudit` |
| Public site (`publish.py`, `scripts/refresh_*.sh`, `scripts/deploy_generated_public_assets.sh`, `lexical_analysis.py`) | output directory, production bucket, stage markers | export, analyse, verify, deploy, swap | two timers rebuild one directory; a job stopped at any command | what is deployed belongs together; the week's analysis is published and never lost | `PublicSite` |
| HLS publisher (`hls_publisher.py`) | fingerprints of what was uploaded | list, upload, delete | an encoder replaces files meanwhile | a listed segment is whole | `HlsPublisher` |
| Retention (`retention.py`, `feature_clip`) | a tag per recording | star, tag, retag everything | a tool over pages that shift, beside requests | a starred recording does not expire | `Retention` |
| Network recovery (`deploy/pi/network_recovery.py`) | failures and attempts in a file | probe, decide, save, reconnect | a clock that is set back, a crash before the reconnection | attempts are bounded, and go on | `NetworkRecovery` |
| DockTalk node (`docktalk.py`, `scripts/install_docktalk_alongside.sh`) | identity, plan, relays | install, claim, start, refresh, relay, watchdog | a code that may be claimed once, crashes anywhere | the identity is kept; DockTalk hears the plan | `DockTalk` |
| mDNS (`mdns_advertiser.py`) | address, publisher | poll, publish, close | a lease that moves, calls that fail | the LAN knows the right address | `Advertisement` |
| Freshness monitor (`stale_clip_monitor.py`, `infra/opentofu/monitoring.tf`) | samples of two metrics | probe, alarm | what it cannot read makes it silent | staleness is noticed | `FreshnessMonitor` |
| Releases (`scripts/deploy_live_cdn.py`, `scripts/apply_asr_receiver.sh`, `receiver_config.py`, `scripts/scope_monthly_cost_budget.py`) | state of the infrastructure, snapshots, records of a release | apply, fail, retreat, roll back | stopped anywhere and run again; several releases in any order | what is rolled back is what was there | `LiveCdn`, `ReceiverRelease`, `BudgetScope` |
| Browser, simulator, the other deployment scripts | none, or outside this repository's runtime | | | | |

`PROJECT.json` "components" gives the same list with the status of each, and
"hazards" lists, at its line, what in this code is hard to test. The properties
are chosen from that list.

## 2. Modules

| module | models | extends |
| --- | --- | --- |
| `ClipCountIndexes` | which index rows are counted and what a row contributes to the counters | |
| `ClipCountView` | abstract: the table of counters as one atomic map, one row changes at a time | |
| `ClipCountAggregates` | the consumers and the paged backfill, request by request | `ClipCountIndexes` |
| `ClipCountAggregates_proofs` | its invariants, what queue and backfill reach, and its refinement of `ClipCountView`, proved | `ClipCountAggregates` |
| `ClipRows` | layout of a clip's rows, and `_put_state` as its sequence of requests | |
| `TranscriptionQueue` | API, transcriber and operator over those rows | `ClipRows` |
| `TranscriptionQueue_proofs` | its types, what damage a failure can do, and whom a poll takes, proved | `TranscriptionQueue` |
| `SpoolUploader` | receiver and daemon over the files of the spool, the merge of neighbouring recordings and what a merge should be | |
| `SpoolUploader_proofs` | that the merge is right, that nothing is lost and that retries make no duplicate, proved | `SpoolUploader` |
| `LabelLog` | abstract: a log of edits per clip, and which were acknowledged | |
| `ReviewedLabels` | save, commit and archive of corrections, read by read | |
| `CorrectionSearch` | the cached search beside the editors | `ReviewedLabels` |
| `AsrExperiments` | list, start, cancel and workers over the files of the runs | |
| `Asr_proofs` | part one: the invariant of the labels and their refinement of `LabelLog`; part two: that a search is as new as the table it began with; part three: the invariant of the experiments, and that candidates are kept | `CorrectionSearch`, `AsrExperiments` |
| `ClipPages` | numbered pages and counts through their caches | |
| `ClipBrowsing` | a visitor's pages of recent clips, by cursor or offset | |
| `ClipDatabase` | the SQLite store with worker, operators and readers | |
| `QueueTools` | the operator's tools over the rows, and the count of the queue | `ClipRows` |
| `SearchIndex` | the shared cache of the clip index beside its publication, and that answers are whole, proved | |
| `ChannelAudit` | audit, benchmark and forecast of channels | |
| `EdgeCapture` | both squelches frame by frame; recorder, upload worker and main thread of one capture process | |
| `EdgeCapture_proofs` | that its clips, live feed and segments are right, proved | `EdgeCapture` |
| `CanonicalAudio` | the level of a rendition | |
| `LiveRetune` | retuning through ssh | |
| `PerformanceHistory` | samples in memory and in SQLite | |
| `LiveCaptions` | the transcription loop and its readers | |
| `AisRelay` | forwarder, lambda, connections, browsers | |
| `Receiver_proofs` | that retunes, history, captions, vessels and renditions are right, proved | `MCReceiver` |
| `PublicSite` | the hourly and the weekly job | |
| `HlsPublisher` | the mirror of a stream | |
| `Retention` | stars, tags and the tool | |
| `NetworkRecovery` | when the Pi reconnects | |
| `DockTalk` | installation and service of a node | |
| `Advertisement` | the announced address | |
| `FreshnessMonitor` | the reported ages and the alarms | |
| `LiveCdn` | releases of the live routes | |
| `ReceiverRelease` | releases of the receiver's channels and modules | |
| `BudgetScope` | the release of the budget's scope | |
| `Operations_proofs` | that releases leave and put back what they should, the analysis is kept and deployments are right; the node, the network, the announcement, the monitor and its alarms, the mirror of a stream, the retention; proved | `MCOperations` |
| `MC*` | the instances that TLC checks: each extends the component the run is about, or one of them, and instantiates the others beside it | |

### Clip count aggregates

`source` holds the index rows the consumers read (the model value
`NoItem` when the row does not exist); `membership` the contribution last counted
for every row, and whether the membership item exists; `summary` the published
counters with their revision. A stream shard has a queue of row keys; an
invocation takes a batch, reconciles record after record, and its answer moves
the checkpoint to the first failed record. A reconciliation is the sequence
`ReadSource`, `ReadMembership` (with `ensure_summary`), `ReadSummary`, `Transact`,
as in `reconcile_key` and `_reconcile_contribution`; other actors act between any
two. `Commit` is the transaction: both conditions (`SummaryUnchanged`,
`MembershipUnchanged`) are the ConditionExpressions of lines 339-378. A failed
condition or a transaction conflict is `Rejected`: the record is read again until
`MaxAttempts`, then fails. `Fault` is any other error, `Unacknowledged` a
transaction that was applied but not answered, `Timeout` the kill of the
invocation. `QueryPage` and `BackfillItem` are the backfill: the page is read
first and its rows are applied as they were then (297-302).

### Queue

`state` is the state item, `rows` the set of index rows. An actor that writes
holds the requests it still has to make (`todo`), computed by `PutState` from the
item and the `old_status` it read, exactly as `_put_state` orders them; each
request is one step. `Poll` is the query of `pending_uploads` (per status and
channel, oldest first, `Limit` rows of each, rows whose clip is settled dropped
afterwards) followed by `_fair_pending_records`. `Claim`, `Fetch`, `Settle` and
`WorkerWrites` are the loop of `process_pending_uploads_once`; `WorkerFault` the
two ways its except clauses treat an error. `FindClip`, `Star` and
`OperatorWrites` are `set_clip_featured`.

### Spool

`spool` says what became of each recording's file. `Sweep` quarantines empty
files and prunes beyond `--max-retained-files`; `Discover` takes the newest
`--max-files-per-poll` that are old enough, applies the burst guard and groups;
`Hold` drops the groups a younger recording may still join; then group by group,
newest first: `DiscardShort`, `Quarantine`, `Upload`, `UploadFails`,
`UploadUnanswered`, and `RemoveFile` for each file. `IsGrouping` says
what a grouping should be, without the loop: TLC checks the groups of every poll against
it, and `MergeIsRight` proves it for every set of recordings.

### Reviewed labels and search

`heads`, `history` and `receipts` are the three partitions of the corrections
table, `total` its revision item. A handler (`editors`) goes through `GetHead`,
`GetReceipt`, `CountLabels` and the transaction, as `Corrections.save` and
`DynamoCorrections.commit` do; between any two, others act. `Accepted` is the
conjunction of the transaction's three conditions. A refused transaction leads to
`Recheck`, which reads the head again. The fingerprint of an edit is the edit
itself. An acknowledged edit that is reviewed starts an archive task
(`Measure`, `CopyAudio`, `MarkReady`), whose last write is conditional on the
revision. `CorrectionSearch` adds `corrected_search`: the global revision is read
without the lock, then the labels are taken from the cache or loaded, clip by
clip, with the lock held.

### Experiments

`status` and `temp` are `status.json` and `status.pending` of every run, with
"empty" and "torn" for what two overlapping writers can leave. `AtomicJson` is
`atomic_json` in its three steps; a rename carries the file that another writer
has open (`Carried`), so that writer then fills `status.json` in place, or fails
to find its temporary file (`RenameFails`). `List`, `Show`, `Listed` are
`list_runs`, which `start_run` calls first; `Reuse`, `Unlink`, `Launch` are the
rest of `start_run`; `RequestCancel` and `Touch` are `cancel_run`. `workers` says
where `execute_run` is; `Candidate` and `Identify` are `train_candidate`.
`Interrupt` is SIGTERM (the unit's time limit or an operator), the time budget,
and SIGKILL.

### The stores and their readers

`ClipPages`: `rows` are the rows of the index that is paged, `anchors` and `counts`
the two caches with their ages. A page request looks for an anchor in the cache
(`Ask`), reads the index from the best one it has (`Scan`), keeps the anchors it
passes (`Store`) and queries its page (`Collect`); a count reads all rows and keeps the
anchors of every page (`Count`, `Keep`). A change by this process drops the anchors
first (`Announce`) and then writes (`Write`), as `_invalidate_page_anchors` is called
before the request; `ElsewhereWrites` is another process, which drops nothing here.

`ClipBrowsing` is `recent_clips` of `api.py`: `Query` takes a batch of the store's
list, `Check` asks for the audio of each clip of it (remembered by `playback_exists`
for a while) until the page is full; the visitor then follows the cursor or the offset.

`ClipDatabase` has a step for each transaction of `UploadedClipStore`; Python opens
none for a SELECT, so a poll, a claim and the clip, segments and stars of a reader are
different moments.

`QueueTools` runs backfill, channel seeding and purge with their batches: `Backfill`
puts a batch, `SeedQuery`, `SeedPut` and `SeedCheckpoint` are the loop of
`seed_channel_indexes`, `PurgeQuery` and `PurgeFlush` that of `purge`; a batch may be
cut short by a crash, and the tool is then started again. `Presign` and `ApiWrites` are
an API that registers meanwhile, `StartCount`, `Count`, `EndCount` the paged count.

`SearchIndex` is one step per access to shared memory: `Enter` and `Stat` before the
cache's lock is taken, `Read`, `Check` under it; `Look`, `Lock`, `Build`, `Pop` are
`_search_runtime`, which takes the embeddings out of the payload; `Publish` moves the
file away and copies the next one in.

`ChannelAudit`: `Audit` lists a page of objects, `Read` answers a part of the batch
request (as DynamoDB may), `NextPage` and `Save` go on and write the checkpoint,
`Count`, `List`, `Write` make inventory and selection; `Benchmark`, `Measure`, `Note`,
`Check` transcribe samples with a checkpoint after each. `Stopped` kills the tool,
also in the middle of a file that is written in place.

### Receiver and live host

`EdgeCapture` defines, as functions of the frames heard, both squelches (`Heard`,
`AppendRendered`): a burst is opened by speech, keeps a pre-roll, ends after `PostRoll`
quiet frames, is dropped when short and cut when long; the live feed lags by
`Lookahead` frames to decide. It runs them in the main thread (`ReadFrame`,
`MainStep`) beside the recorder (rotation, `.part` name, rename) and the worker
(`WorkerStep`: upload, delete, expire); a full
queue refuses a segment but makes the stop mark wait; `MainFails` and `Kill` end the
process, and `Restart` starts another, which looks for no files of the one before.

`CanonicalAudio` follows a clip's peak through filter, gain, compressor, gain and
encoder; `Judge` measures (16-bit samples cannot be louder than full scale), corrects
once or refuses; `Place` and `Name` are the copy to `.tmp.mp3` and its rename.

`LiveRetune`: `Refuse`, `Begin`, `Notice` are the request and its lock; `Connect`,
`SshReturns`, `SshExpires`, `RestartTranscriber` the thread; `ReadEnv`, `Truncate`,
`Write`, `Restart` the script on the Pi, which nobody stops when ssh is given up.
`PerformanceHistory`: `Collect` takes the time stamp, `Record` inserts under the lock
(memory, and every `PersistInterval` SQLite, which may fail), `SetLatest` follows outside
of it. `LiveCaptions`: `Connect`, `Read`, `Store`, `Show` are the loop, `Ask`, `Page`,
`Answered` a reader that pages backwards through the store. `AisRelay`: `Send`,
`PutObject`, `Scan`, `Post`, `Accept` follow one post through forwarder and lambda; a
post to a vanished browser raises, and the lambda is over.

### Operations

`PublicSite`: `JobStep` and `LexicalStep` are the commands of the two shell scripts in
order, each with `set -e`, `Stop` a failing or killed command; `out`, `prod` and
`previous` are directories, `marks` the stage files of a weekly run, `lock` the flock.
`HlsPublisher`: a pass is `BeginPass` (list), `UploadPlaylist`, then `Look` and `Put` for
each segment, `Delete` for what is gone, `EndPass`; what makes the process end is `Ends`.
`Retention`: `Feature` and `TagRequested` are the two calls of a request, `Read`, `List`,
`Tag` the tool. `NetworkRecovery`: `Run` probes, decides and saves, `Reconnect` is nmcli
after it. `DockTalk`: `InstallerStep` goes through the installer (code, claim, response,
identity, plan, ownership, service), `Start`, `Fetch`, `Refresh`, `RelayStep`, `Watchdog`
are the service. `Advertisement`: one step per call of the mDNS library. `LiveCdn`:
`Plan` and `Execute` are OpenTofu's, `StepFails` leads to the automatic retreat, `Killed`
does not; `found`, `own` and `crossed` are history, which no step looks at. `ReceiverRelease`: `Step` goes through the script (snapshot, configuration,
modules, restart, digest, mark), `StepFails` through its trap. `BudgetScope`: `Step` is one
request to AWS. `FreshnessMonitor`: `Period` is one run of the function, or none.

## 3. Runs

Several runs check more than one component: components that share no state are parts
of one composite module, `part` says which of them a behaviour is of, and every
property names the part it is about. Nothing is composed that the code keeps
together: what interacts is in one module, or in one that extends it.

| run | question | bounds |
| --- | --- | --- |
| `counts` | do two consumers with retries and one failure keep counters equal to memberships, forget nothing, and converge? is a paged backfill of an older table safe, and does it count every quiet row? | a clip's backlog row and public row on two shards, 2 writes each way, 2 attempts, batches of 2, 1 fault; with the backfill 1 write, batches of 1 |
| `count_backfill_race` (violation) | can the backfill undo what a consumer counted? | 2 writes, no fault (`MCClipCounts`, specification `OnePartSpec`) |
| `queue_progress` | do the rows match the state at rest, is a poll's choice fair, is every uploaded clip settled although others never arrive and an operator stars meanwhile? how far does a crash or a failed request reach? | 2 clips with late uploads and 1 star; or 3 clips on 2 channels; or 2 clips, late uploads and 1 crash or failed request, no stars; polls of 2 |
| `queue_interrupted` (violation) | is an interrupted clip still queued? | 1 clip, 1 crash (`FailuresSpec` too) |
| `spool_delivery` | is anything lost or sent twice by a retry, are groups right, does the spool drain? | 6 recordings on 2 channels, window 3, retention 4, burst limit 1, 1 failed upload, 1 crash or lost answer |
| `spool_duplicate` (violation) | is the group's key enough against duplicates? | 2 recordings, 1 crash or lost answer |
| `asr` | do editors, archive tasks and searches together lose, double or leak an edit? one experiment at a time, no result without its model, no model overwritten? | 2 clips, 2 request identifiers, 2 editors, 2 searchers, room for 1 label and 1 archived clip, 2 edits, 2 troubles, 2 searches; 2 runs, 2 API threads, a history of 1, 2 requests, 1 signal, kill, failure or restart |
| `experiments_completed` (violation) | does a completed run stay completed? | 1 run, 1 API thread, 1 request, no failures |
| `clip_stores` | are tables, pages, listings, tools, searches and audits right beside everything that changes them? | SQLite: 2 or 3 clips, 1 wait, fault or crash, 2 operators; pages: 3 rows, pages of 1, caches of 1 tick; visits: 4 clips, pages of 1, 2 changes; tools: 3 clips, pages of 1, 1 presign, 1 crash; search: 3 indexes, 2 threads, 4 searches; audit: 3 clips in 2 weeks, pages of 2, 2 runs |
| `receiver` | do capture, retuning, history, captions, positions and renditions come out right? | 6 frames of any kind (recording: a fixed conversation), segments of 2, a queue of 1, 1 fault, 1 kill; 2 retunes, 1 ssh given up; 7 ticks of history, 1 restart, 1 fault; 5 captions, 2 faults; 2 posts with 2 vessels and 2 browsers; 2 renditions |
| `operations` | do releases, jobs, daemons and alarms keep what they should, and recover? | site: 2 clips, 1 unfit, 1 stop; node: 5 plans, 2 changes, 2 faults; live routes: 4 releases, 2 stops; network: 10 units with 5 to a window, clock set back by 2; stream: 4 segments, 1 fault; retention: 2 clips, 3 requests, 2 runs of the tool, 1 fault; receivers: 3 releases, 4 applications, 1 failure, 1 kill; budget: 2 runs, 1 edit, 1 failure; mDNS: 2 addresses, 2 moves, 2 faults, 1 stop |
| `live_routes_rollback` (violation) | does a rollback keep to the routes its release introduced? | 2 releases, no stops (`MCOperations`, specification `RoutesSpec`) |

Why these are enough: two rows with one clip exercise every combination of a
revision conflict between shards, a conflict between consumer and backfill on the
same row, and a second delivery after a partly failed batch. In the queue, three clips with
places for two make both sides of the slot rule matter: ready clips could take both, and
so could uploads that do not arrive. Two clips and one trouble are the smallest instance in
which a trouble could damage more than its one clip; a second one could damage both.
The recordings of `MCSpoolUploader` include a pair that
merges, a third that would exceed the span, a chain cut by the window, a clip
without a known end, a click below the minimum duration, an empty file and two
channels opening in the same second. Two edits are enough for every kind of
conflict between two editors (same clip or not, same request or not, a retry of
one's own edit), and the theorems cover any number. Room for one label makes the
race on the limit happen. A history of one run makes both the refusal of a second
run and, by the race of two starts, two runs that compete for the lock.

In the new instances: pages of one row, batches of one or two and caches of one tick
make every boundary between two pages, batches or cache entries an interesting one, and
three rows give a page before, at and behind the change. Six frames contain a burst with
its pre-roll, one cut by its length, one that is too short, and two segment boundaries;
one place in the queue makes it refuse a segment and the stop mark wait. A second retune while a
script that nobody waits for still runs is the smallest mixture of two. Three attempts and
a fourth that must wait need a window of 5 units; with 10, one window ends and another is
spent. Two releases over one state are enough for every order of apply, failure and
rollback between them; the other two are there to be refused. One fault and one kill in
each component put it into every state a single trouble can leave, and the behaviours go on
from there.

Most configurations name the constants of one part; the others are given where the
composite module instantiates its components, next to their variables.

Deadlock checking is off in all of them: the environments stop at their bounds, and
an idle worker then has nothing to do.

### What the runs found

* `count_backfill_race`: the backfill applies a row as its page had it. A consumer
  may have counted and checkpointed a newer content in between; the membership
  then goes back to the stale content, and no record is left that would correct
  it. The docstring of `backfill_clip_count_aggregates` calls a running consumer
  safe.
* `queue_interrupted`: `_put_state` deletes the rows of the old status before it
  puts those of the new one. A crash between leaves a clip in `processing` without
  a queue row, and no poll returns it again, while
  `docs/transcriber-cpu-policy.md` says it stays eligible.
* `spool_duplicate`: the members of an uploaded group are removed one by one. What
  a crash leaves becomes another group with another key and is sent again, while
  `docs/deployment-hygiene.md` says a retry cannot create a duplicate.
* `experiments_completed`: `list_runs` reads all rows, asks the service manager for
  each active one, and writes the row it read as interrupted when the unit has
  stopped. A worker that completes in between has its result replaced, while
  `docs/asr-feedback.md` says that unchanged requests reuse completed runs.
  `cancel_run` can do the same. Since all writers share one temporary file name,
  the model also reaches rows that are empty or torn, after which every list,
  start and cancel raises; and a cancellation requested while `start_run` is
  between its write and its `unlink` is forgotten. No property excludes these: the
  code does not, and no document promises it.

* `live_routes_rollback`: a release notes the routes its plan adds before it applies it, and
  what fails is rolled back by that note. Another release that adds one of these routes in
  between makes the plan stale; it is refused, and the rollback, planned anew and valid,
  removes the other's route, while `docs/docktalk-node.md` says that only routes introduced
  by the release are removed and existing ones preserved. A release rolled back long after
  it noted a route can do the same. `RoutesAreRight` names this exception (`crossed`: another
  release has changed the distribution since the note); without it, it holds a rollback to
  exactly the routes that the release has put there itself (`own`), over all its failures,
  kills and repetitions, and with it, to those that were not there at the note.

### What the models say the code does

These are not disagreements with a document, or not ones a run states as a violated
property; the properties make the exception explicit, and it is named here so that nobody
takes it for granted.

* Stores. A page past the end keeps the anchor of an older scan, and shows clips of the
  page before (`ClipPages`, `ExactWhenQuiet` asks for pages that exist). The purge of the
  queue deletes status row and state item of a clip but not its row by channel, and one that
  is cut between the two deletes leaves the state item; `PurgeIsExact` says exactly what is
  left. (`docs/postmortems/2026-08-05-transcription-queue-capacity.md` speaks of rows
  removed.) A poll beside such rows is not modelled, so `UploadsFinish` says nothing of clips
  behind them. The read-model backfill writes neither quality nor star nor queue rows.
  A visitor who pages by offset misses clips when the list changes between two pages.
* Audit. Inventory, selection and benchmark checkpoint are written in place, so a tool
  that is killed there leaves a file that later runs cannot read. The capacity bound may be
  exceeded by a page in every run, and a week at its bound never completes.
* Renditions. An encoder that always adds more than about 0.22 dB is never accepted,
  because 16-bit measurement reports full scale (`RenditionIsRight` excludes none of it:
  what is named is right, not that something is named).
* AIS. Of two positions of one vessel in a post the first is kept, not the newer; a
  connection row that has expired silences a browser that is still open; the lambda of a
  post that was given up may overwrite a newer snapshot.
* HLS. The playlist is uploaded before the segments it names, and segments of an earlier
  process are never deleted.
* Retention. The tool tags a starred clip as expendable when it is quarantined, when the
  list lost a clip while it was paged, or when it was starred meanwhile.
* Network. When the clock leaps forward, attempts before the leap no longer count, so more
  than three may fall into one real hour.
* DockTalk. An installer cut off before `chown` leaves a service that cannot read its plan
  until the installation is repeated.
* Queue. A star set while a clip's transcript is still being written can lose its featured
  rows (`RowsAreRight` promises these rows only where nobody stars).
* Edge capture. A segment that is open when the main thread fails or is killed is lost;
  `SegmentsAreRight` is about streams that end.
* Releases. `configure_channels` drops text between channel blocks. A snapshot cut short
  between two `cp` is kept for good, and a later failure restores what it holds; a release
  marked "deployed" is not applied again although another one came after it.
  `put_bucket_tagging` replaces the whole tag set, so a tag set between read and write is
  lost (`lost` in `BudgetScope`).

## 4. Fairness

* Aggregates: the event source mapping keeps polling each shard, an invocation
  that runs goes on (Lambda kills it otherwise, which is `Timeout`, bounded).
  Writers and the backfill have no fairness.
* Queue: the service manager restarts the transcriber (`Restart=always`) and the
  API, so their next step is taken in the end; `Expire` because time passes. The
  edge client and the operator have none: an upload may never arrive.
* Spool: the daemon is restarted, and files that are left alone grow old. Failed
  uploads are bounded: the network comes back in the end.
* Labels and experiments: safety only, no fairness is assumed.
* Edge capture: both threads are scheduled; the receiver, failures and kills are free.
  `EndedStreamStops` needs no more than that.
* Retuning: the stages of a retune go on, as ssh has a timeout and the request awaits its
  thread; whether ssh or the script is quicker is free.
* Public site: timers start the jobs again and again, and commands end. The weekly job
  waits for the export lock, which the hourly job only tries, so it gets the lock in the
  end (strong fairness of the lock). Jobs that fail are bounded; the unit's
  `StartLimitBurst` is not reached, beyond it the job would wait for the next week.
* DockTalk: the service has `Restart=always`, its threads are scheduled, and an operator
  repeats an installation that has not come to its end. New plans and broken connections
  are bounded. The watchdog acts when every relay is deaf.
* mDNS: `Restart=always` without a start limit, the loop goes on, and records that are not
  announced any more expire.
* Everything else is checked for safety only.

## 5. Proofs

`ClipCountAggregates_proofs` proves, for all finite sets of rows, shards and
channels and all bounds:

* `Invariance`: `Spec => []IndInv`, with
  `IndInv == TypeOK /\ FeedOK /\ JobsOK /\ MembersOK /\ SummaryMatchesMembership`.
  `SummaryMatchesMembership` is not inductive: a commit writes counters computed
  from the summary and the membership read some steps before. `JobsOK` says what
  a reconciliation knows while it runs: if the summary's revision is still the one
  it read, then the counters it read are the counters of now, and if the
  membership still has the value it read, the delta it computed is the right one.
  The two conditions of the transaction give exactly these premises. `MembersOK`
  ties the existence of the summary to the memberships, `FeedOK` gives the shape
  of the invocation.
* `TypeCorrectness`, `SummaryIsMembership`: the parts of it a reader wants.
* `ViewsAlwaysAgree`: the counters of the view *all* are those of *visible* plus
  *quarantined*, from a lemma that splits the rows of a counter by quality.
* `Implementation`: every behaviour implements `ClipCountView`. The refinement maps
  the published counters and memberships; the only steps that do not stutter are
  a commit whose answer arrives and one whose answer is lost.

* `NothingForgotten`: without a backfill, in a table that starts empty, a row whose
  membership is not that of its content has a record that will still be handled
  (`StaleRowStillQueued`). The invariant `QueueInv` adds that shards carry the records of
  their own rows, and that what a consumer is about to count is of the current content, or
  has a record of the newer one behind it. Both hypotheses are needed: the run
  `count_backfill_race` is the counterexample with a backfill, and a row that was there
  before the stream has no record.
* `BackfillCounts`: beside consumers, retries and failures, a backfill that came to its end
  has counted every row that nobody wrote since the start. `BackfillInv` follows such a row
  from the query of its partition: it is on the page as it is now, in hand, or counted.

The sums are cardinalities of sets of rows, so the arithmetic lemmas are about
adding and removing one element of a finite set. The assumptions are the named
ones of the modules, each evaluated by TLC in the runs.

`TranscriptionQueue_proofs` proves, for any clips, channels and limits and any number of
presign requests, stars, crashes and failed requests:

* `QueueTypes`: `Spec => []TypeOK`, with `TypeInv`, which says of each actor what it holds
  between its requests, and that nothing precedes a clip's state item.
* `DamageContained`: a crash, a failed request or a star costs at most one clip its rows, of
  those presigned once and not being written (`DamageIsContained`). `ContainmentInv` names
  the damaged clips by a set `D` that grows by one with each crash, fault or star; every
  other clip is `Sound`: the API is writing its first rows and nobody else knows it, or the
  requests the worker has still to make bring its rows to those of the item it writes, or
  the rows are right. What a sequence of puts and deletes makes of a set of rows is
  `AfterWrites`; `ConcatWrites` takes it apart, and `PutStateRight` says that `_put_state`
  turns the rows of the old status into those of the new item.
* `UndisturbedRows`: as long as there was no crash, failure or star, the rows of every clip
  presigned once and at rest are exactly those of its state item.
* `RowsAreRightAlways`: `Spec => []RowsAreRight`, with any number of stars too. A star and a
  settled clip are two actors who write rows of one clip from what each has read, so no
  writer's requests alone tell what the rows will be. `StarInv` gives each clip a first and a
  second part of its life. While it is `Hidden` its public row is not there, no operator can
  find it, and it is `Sound` as above; from the write of its transcript on it is `Listed`: it
  stays transcribed, every item that may still be put over it agrees with it but for the
  star, and the requests the two have left are `Converging`. For each row that should be
  there, an actor who deletes it puts it afterwards, and it is there or will be put; for
  one that should not, the same with the roles exchanged. That holds of any interleaving,
  survives each request (`ConvergingStep`) and a second actor who begins to write
  (`ConvergingMore`), and with nothing left to write it says that the rows are right
  (`ConvergingEnd`). Featured rows do not converge, so they are promised only without stars.
* `PollsAreFair`: whom a poll takes (`PollIsFair`), for every limit.

`Asr_proofs`, part one, proves, for any clips, requests, texts and handlers and any
number of edits, lost answers, conflicts and restarts:

* `LabelsInvariant`: `Spec => []LabelsInv`. The table's own consistency
  (`HistoryIsComplete`, `RequestsCountOnce`) is not inductive, because the row
  that is committed is built from a head read before; `HandlersKnow` says that what
  a handler holds is a revision of the history, and past the checks the one its
  edit expects. The conditions of the transaction then make it the newest one
  (`CommittedRow`, `CommitEffect`). `TasksKnow` says the same of archive tasks, and
  with the condition on the revision gives `ReadyIsReviewed` (`MarkReadyEffect`).
  What is known outside of the table stays true because histories only grow
  (`Grows`: `SavedStay`, `HandlersStay`, `TasksStay`).
* `CompleteHistory`, `CountedOnce`, `EditsStand`, `ReviewedWhenReady`: its parts.
* `Implementation`: every behaviour implements `LabelLog`. A history, whose domain
  is 1 to the head's revision, is the sequence of its edits (`HistoryIsSequence`);
  a transaction appends (`WriteAppends`); an answer acknowledges an edit that is
  logged.

The proofs assume what `LabelsAssumption` states: finite sets of clips and
requests, and bounds that are natural numbers.

Part two proves `SearchesRight`: a search answers with labels no older than
those of the moment it began, and one thread at a time loads. That alone is not inductive:
the cache was filled by another search, from reads of several moments. `SearchInv` rests on
the revision: the table moves in one of two ways, its labels stay with their revision or both
move on (`WorkMoves`), so searches of one revision began with the same labels
(`BeganAlike`), and what is kept for a revision serves every search of it (`Serves`).
`SearchersAssumption` is all that is assumed in addition.

Part three of `Asr_proofs` proves, for any runs and threads of the API and any number of
requests, signals, kills, restarts and failures:

* `ExperimentsInvariant`, `ExperimentsRight`: one worker computes at a time and holds the
  lock, and what says "completed" has a whole candidate. `CompletedIsEarned` extends the
  latter to what is in the temporary file and to every write under way, since a writer may
  rename what another has written.
* `WeightsAreKept`: no step touches a candidate that was identified.

`Operations_proofs` proves, for any finite set of clips and any number of stops and kills of
either job at any command:

* `SiteInvariant`: `Spec => []SiteInv`. Everything but types and lock is said by `Where`, the
  place of the job that holds the lock, because the output directory is only
  whole, or only settled, at certain places. `AnalysisInv` says where the analysis is while an
  export rebuilds the directory, `WorkInv` and `WeekInv` what the weekly job has put aside and
  what its markers stand for, `ExportInv` how far an export has come (`Finished` is what it
  leaves), `SentInv` how far a deployment, `AgreesInv`, `NewInv` and `WholeInv` what
  production, its release and the directory know of each other. One lemma per action shows
  that it keeps each part, one per place what a kill there leaves.
* `AnalysisKept` and `DeploymentsRight` follow from it. Of the latter, `SkipIsSafe` speaks of
  the moment in which a deployment compares the identity of the directory with the release:
  between those moments it would be false. A kill in the middle of the swap can bring the
  directory back to the files of the release while production is already ahead; the lock and
  the export that comes first see to it that no deployment decides on that. TLC finds this
  with three stops, the run allows two.

The other theorems of `Operations_proofs` are about
`OperationsSpec`. A behaviour of it is of one part, so each part has an invariant of its own
(`part = "x" => XInv`), one lemma for what its steps do to it and one for the steps that
leave it alone.

* `NodeKeepsIdentityAlways`: a node never wastes its enrolment code, and once its
  service is enabled it can start, for any plans, cuts, reboots and installers begun again
  (`NodeInv`: what the installer has written is told by where it is).
* `NetworkIsRightAlways`: at most `Budget` attempts in any hour that really passes, each as
  far behind the one before as the backoff asks, an outage is tended, and the LAN is told the
  address of the host only. `AttemptsAreBounded` alone is not inductive: the program counts
  the attempts noted in its file, by a clock that may be set back. `MadeIsNoted` says that an
  attempt of the last real hour is still noted and not later than it really was,
  `MadeInOrder` that notes and attempts come in the same order; so those the program counts
  are at least those of the hour. `OutageInv` is about the clock that is right: in an outage
  what is noted was made or is in hand, and the failed runs are counted. Found on the
  way: with backoffs that shrink, or a budget of none, the bound would be false;
  `NetworkAssumption` asks for what `network_recovery.py` has. `MdnsInv` ties what
  is published to the process's own record of it between the calls of the library.
* `AlarmsAreRightAlways`: what is stale long enough has raised its alarm, from what each of
  the last samples says of the ages then (`MonitorInv`).
* `BucketsAreRightAlways`: the bucket of a stream has what its playlist names, and
  recordings are kept as stars ask. `HlsInv` says that what the process remembers to have put
  is there, finished if it was finished (`MemoryIsRight`), and of a segment the playlist names
  that it is there or the pass comes to it (`PassIsRight`); for a segment caught unfinished
  it needs that only the newest one is (`DirectoryIsRight`). `KeepInv` is about the pages of
  the tool: the list shrinks and grows while it is read, so a star that nobody moved and
  that is not read yet has its place behind the offset (`ReadingIsRight`), for growing only
  moves it back (`PlacesGrow`).
* `ReleasesAreRightAlways`: for any releases, distributions, receiver configurations, tags
  and any number of stops, kills and edits.
  `CdnInv` says of every release what its plan and its record stand for: a plan is a valid
  one of what was live then, and what a record names was not there when the release was
  first noted. `OwnIsNoted` relates the record to what the release really did: until another
  one changes the distribution (`crossed`), the routes of its record that are there are
  those it has put there, because what it found then is there still (`OwnRoutesChange`);
  that is what a rollback removes. A distribution is compared by what it says of a set of paths
  (`Restricted`), which is a fact about fewer paths too (`FewerPaths`): this makes the
  order of the routes and their rules one argument.
  `ReceiverInv` says where the configuration, the modules and each snapshot belong to the
  same release (`TogetherInv`, if no script was killed), what a snapshot keeps is what the
  release found (`SnapshotIsFound`), and that the channels chosen by `configure_channels`
  are those of the release, for any sequence of blocks: the last of the blocks with one label
  counts, as in a dictionary (`GreatestExists`).
  `ScopeInv` says what a release of the budget knows between two requests: `LostInv` which
  tags may have been set since it read them, `QuietInv` that without failure and without
  others each step finds what the one before left.

`SpoolUploader_proofs` proves, for any recordings, limits and switches, and any number of
failed uploads, lost answers and crashes:

* `MergeIsRight`: for every set of recordings, the groups the loop computes are the merge the
  documentation describes (`IsGrouping`). The library's induction theorems cannot be
  used, so `UpTo` draws its conclusion from a least counterexample. `ByStartSorts` says what
  sorting yields; `FoldIsMerging` unfolds `FoldLeft` into the list of groups after each
  clip; `MergedIsRuns` shows that these are cut from the sorted clips, each `run[k]` being
  where the group of the k-th begins. What groups should be follows from runs: they cover the
  clips (`RunsEnd`) once (`RunsApart`), every clip was allowed to join (`RunsJoin`), and the
  clip after a run was not (`RunsAreLong`).
* `SpoolInvariant`: `Spec => []SpoolInv`. `NothingLost` alone is not inductive, since files
  are removed one by one some steps after the decision: `RemovingInv` says that the files
  still to be removed are there once and for the reason noted. A reason once good stays good,
  because recordings and objects are only added (`JustifiedGrows`). `GroupsInv` keeps the
  groups apart from each other and from what is removed; its part on short groups, that
  every member is short by itself, rests on clips of a run following each other in time.
  `SentInv` is about retries: without troubles every recording in the bucket has left the
  spool or is being removed as sent, so the group uploaded next shares nothing with it.
* `DeliveryRight` and `RetriesRight` follow from it.

Beyond the named assumptions on numbers these proofs use that a recording does not end
before it starts: an end in the metadata that is not after the start is dropped, and any
other is the start plus a duration, which is never negative (`spool_uploader.py` 207-218,
744-757).

`EdgeCapture_proofs` proves, for any limits of the squelches, length of segments, room in
the queue and retention, any stream of frames, with and without recording, and any number
of failed uploads, failures, kills and restarts:

* `ActivityRight`: `CaptureSpec => []ActivityIsRight`. The squelches are functions of the
  frames heard, so their invariants, `SquelchIsRight` for the clips, `FeedIsRight`, `HangIs`
  and `IsLate` for the live feed, take constants: a state of the squelch, the frames it has
  heard, and which of them were loud. One lemma says what one frame does to each
  (`LoudOpens`, `QuietStays`, `BurstGrows`, `BurstEnds`, `SquelchStep`; `FrameIsRendered`,
  `FeedIsDrained`, `FeedStep`). `Burst` describes an open burst frame by frame: the
  stale pre-roll before it is quiet, so that trimming takes it off (`ClipOfBurst`), and
  since `quiet` points at the last loud frame, the clip ends there. That speech is never
  lost needs its own part (`RunsStayKept`, `RunsGoOn`): a burst that is dropped as too short
  cannot contain MinClip loud frames in a row. `CaptureInv` then says which frames have come
  through at each place of the main thread (`PlaceIsRight`); a frame whose handling failed
  was recorded but not heard.
* `SegmentsRight`: `CaptureSpec => []SegmentsAreRight`. What is asked at a clean stop
  follows from what holds all the time: `AllDealtWith` says that each whole segment is the
  open one, or was handed to the worker under its final name; `RecorderIsRight` where
  segments begin, `StopIsLast` that nothing is behind the stop mark, so that the worker
  ends with an empty queue. The remainder by `SegmentFrames` is handled as a multiple
  (`Whole`, `WholeIs`).

These proofs found two formulas that held only on the instance TLC had: the frames the
squelches had heard were counted to the last frame read, which is one too many after a
failure (`Listened` now counts what came out of the feed), and with a `MaxClip` of one frame
a clip has two, because the frame that opens a burst never ends it (`DetectorAssumption`
now excludes that limit, a tenth of a second with the default frames).

`Receiver_proofs` is about the live services of the same host, for every value of their
constants; a behaviour is of one of them, so each has its own invariant:

* `RetunesAreRight`: `HostSpec => []RetuneIsRight`, for any requests, channels and any number
  of ssh commands that are given up. `ScriptIsApart` says that without one given up, the
  thread of the request that holds the lock and its script are the only ones at work, so
  the settings it reads are whole (`FileIsWhole`); and `StreamFollows`, that the stream plays
  what the settings name unless a script has touched them and not restarted it yet.
* `HistoryRight`: `HostSpec => []HistoryIsRight`, for any spans, interval and delay of the
  captures. `SpanIsCovered` says that near every sample recorded within the persisted span
  there is a persisted one; recording may come out of order by `MaxDelay`, which is why the
  promised gap is the interval and the delay. That the table is bounded is a counting
  argument (`TableIsSmall`): `Runs` gives each persisted sample the process that wrote it,
  those of one process are an interval apart, so process and interval tell them apart.
* `LiveViewRight`: `HostSpec => []LiveViewIsRight`, of three parts.
  - Captions, for any chunks, limits and page sizes. The invariant relates what is shown to
    what is stored (`ShownIsStored`) and the place of the loop to its chunk (`ChunkIsNext`);
    `ReadFromNewest` says of the pages read so far that they are everything the store held,
    when the reader asked, above the oldest row they have.
  - Vessels, for any browsers, payloads and posts. `SnapshotIsRight` is about the function of
    the payload alone; `AisInv` says that while no post was given up a lambda works for no
    post but the last (`OnlyTheLastWorks`), and whoever is registered before it is still to be
    posted to or shows it (`PostsAreToDo`).
  - Renditions, for any levels, losses and errors of the encoder: `PlaceOfRendition` follows
    one attempt from its source, `KeptOfRendition` is about the file that is there.

  Pages and snapshots are both the first n of a set in a strict order. `FirstAreMany` counts
  them, ranking each element by how many precede it: the ranks are an injection into
  0 .. n - 1, so there are n or the set has no more. It yields least elements too
  (`LeastOf`), with no induction.

`SearchIndex` holds its own theorem, for any number of threads, published indexes and
searches:

* `AnswersWhole`: `SearchSpec => []AnswersAreWhole`, the property of the run `clip_stores`, if no thread is called `None`, which
  says that a lock is free. `LocksAreHeld` ties each lock to the place of its holder; under
  the second one the embeddings of a payload are there as long as its matrix is not
  (`PayloadsAreRight`), so the matrix is built of all clips, although the first look at it
  takes no lock. That a payload is as new as it should be rests on the signatures: the file
  goes through its states in one direction only (`Age`), so a file that has the signature
  taken before the read had it at the read (`AgesDiffer`, `CheckStep`).

Only model-checked: all liveness properties (and `ENABLED`), and of the safety
properties `DatabaseIsRight`, `ListingIsRight` and `ToolsAreRight` of the stores and their
readers. `BackfillIsRight` is the inductive invariant and `BackfillCountsQuietRows` of the
copy of the aggregates in `MCClipCounts` that starts with an older table; both are proved of
the module (`BackfillCounts` the second), for every value of the constants. Modules other than `SpoolUploader` fold over sequences too; what
their folds compute for every input stays with TLC.

## 6. Simplifications

* Aggregates: `ensure_summary` happens with the read of the membership; a killed
  invocation has no transaction in flight; a backfill page is a whole partition;
  the bulk backfill is not modelled.
* Queue: reads are consistent; the queries and state reads of one poll are one
  step; one presign and one star request are in hand at a time; activation
  boundaries (`recording_policy.py`) admit every clip; a transcribed clip has
  displayable text, so that branch of `_put_state` is left out; inference is one
  nondeterministic outcome.
* Spool: a sweep is one step; `--delete-after-upload` is set, as in the
  deployment; sidecar files go with their recording; files of a channel age in
  the order they were recorded.
* Labels: what an edit says is a model value, so validation, splits and embeddings
  are left out, as is the overlay, which only reads; `Corrections.list` is one step
  where `save` calls it and page by page where the search does; an archived clip
  takes one unit of the quota; a restart leaves no transaction in flight; the
  expected revision of an edit is at most the number of edits.
* Experiments: the dataset decides the run, so `start_run` takes it as a parameter,
  and readiness and the artifact quota are left out; `dataset.json` and
  `config.json`, whose content is fixed by the run's identifier, are not written;
  the rows of a list are read in one step, without the limit of twenty; requests
  that only read are no steps; one `update` stands for those of a stage; starting a
  unit that is being stopped does nothing, as for one that is active.
* Stores: the requests of one API process are serialised by its event loop where they do
  not await; a transaction of SQLite is atomic and durable; the events other than a
  transcript's are left out, as nothing reads them.
* Edge capture: a chunk is one frame, and a frame one of three kinds, so energy, WAV headers
  and filters are left out. `DetectorAssumption` asks for `MaxClip >= MinClip + PreRoll`,
  where the code only asks for `MaxClip >= MinClip`, and excludes a `MaxClip` of one frame; the
  defaults satisfy both.
* Live host: the token and the public-safety check of AIS, stream selection, and the access
  rules of the proxy are left out, as they keep no state; what is transcribed is
  nondeterministic.
* Public site: what the analysis computes is two files that appear one after the other.
* HLS: the fingerprint (size and time) is the state of the file.
* Network: forward leaps of the clock are left out; probes are one outcome.
* DockTalk: files and answers are plans and identities; that the server refuses a code which
  was claimed is external.
* Monitor: CloudWatch may look further back when samples are missing, which delays an alarm
  that is due; the alarm on the age of clips notifies nobody and is left out.
* Releases: files are copied as a whole; the plan of OpenTofu is the difference of two
  distributions; `prune`, which only reads and validates, is left out.
  `introduced-paths.json` is written at once: a kill within `write_text` would leave a file
  that no rollback can read and no application replaces. The rollback of the receiver
  (`restore_receiver`), on demand or by the trap, is one step, and that it also disables the
  DockTalk services is left out: a node of `DockTalk` is never disabled by a receiver
  release, nor are the two composed.

### Not modelled

* The bulk backfill of the aggregates (438-500), which must not run beside a consumer; the
  branch of `_put_state` for a transcribed clip without displayable text; activation
  boundaries; statistics and playback look-ups, which only read.
* `capture_uploader.py` (one command for one file), `ais_history.py`, `simulator.py`, the
  ranking of channels, daylight saving in the audit's weeks, the readiness probe: no state
  that outlives a call, or none that others share.
* Signal processing, inference, lexical analysis and rendering: what they compute is left to
  tests.
* The browser application: rendering in one tab.
* Known but not covered by a property: an eventually consistent read of a state item, or one
  that `record_presigned_upload` writes back after several requests
  (`dynamo_clip_store.py` 950, 167); the count of labels before the commit
  (`asr_feedback.py` 155); the shared temporary name of all writers of a `status.json`
  (`asr_experiments.py` 55, modelled, no property excludes it); transcripts cleaned up that
  were read before (`transcript_cleanup.py`); a run of the MP3 encoder that makes the file
  longer than the clip (`audio_processing.py`).

## 7. Plan

1. Done: aggregates, queue, spool, labels, search of labels, experiments, public site and
   edge capture, stores and their readers, live host, operations.
2. Done: proofs about the live host (retuning, history, captions, vessels, renditions) and
   about the operations (network recovery, DockTalk, alarms, releases).
3. The bulk backfill with its precondition that no consumer runs; eventually consistent
   reads and retried presigns as further actions of the queue.
4. Liveness of the experiments: every run settles while its rows stay readable. It holds on
   instances of one run and two API threads.
