-------------------------- MODULE TranscriptionQueue --------------------------
(***************************************************************************)
(* The queue of uploaded clips: the API that registers a clip when it      *)
(* hands out an upload URL, the transcriber that polls the queue rows,     *)
(* claims a clip, downloads, transcribes and settles it, and the operator  *)
(* who stars and unstars transcribed clips.  All three move a clip's rows  *)
(* with the same non-atomic sequence of writes (ClipRows), and interleave  *)
(* at every request.  The worker and the API may crash between any two     *)
(* requests, and a request may fail.                                       *)
(*                                                                         *)
(* Sources: src/src/talkingboats/dynamo_clip_store.py, clip_transcriber.py *)
(* and api.py.                                                             *)
(***************************************************************************)
EXTENDS ClipRows, FiniteSets, Functions

CONSTANTS
    Keys,           \* clips, numbered in order of (started_at, key)
    ChannelOf,      \* the channel of each clip
    Limit,          \* --limit: clips per poll
    RetryErrors,    \* --retry-errors
    MaxPresigns,    \* bound: presign requests per clip
    MaxStars,       \* bound: operator requests
    MaxCrashes,     \* bound: crashes of the worker or the API
    MaxFaults       \* bound: DynamoDB requests of the worker that raise

ASSUME ParametersAssumption ==
    /\ Keys \subseteq Nat \ {0} /\ IsFiniteSet(Keys)
    /\ Limit \in Nat \ {0}
    /\ RetryErrors \in BOOLEAN
    /\ {MaxPresigns, MaxStars, MaxCrashes, MaxFaults} \subseteq Nat

VARIABLES
    state,      \* the state item of every clip, or NoItem
    rows,       \* <<row name, clip>> of every index row in the table
    api,        \* the presign request in hand
    worker,     \* the transcriber
    operator,   \* the star request in hand
    answered,   \* clips whose presign request was answered with a URL
    uploaded,   \* clips whose audio is in the raw bucket
    expired,    \* clips older than waiting_upload_max_age_seconds
    presigns,   \* presign requests so far, per clip
    stars,      \* star requests so far
    crashes,    \* crashes so far
    faults      \* failed requests so far

table  == <<state, rows>>
world  == <<answered, uploaded, expired>>
bounds == <<presigns, stars, crashes, faults>>
vars   == <<table, api, worker, operator, world, bounds>>

-----------------------------------------------------------------------------
NoItem == [status |-> "none", quarantined |-> FALSE, featured |-> FALSE]

\* What an actor that writes holds: the clip, the item it will write and the
\* requests it has still to make.
NoWrites == [key |-> 0, item |-> NoItem, todo |-> <<>>]

\* The API's request, answered when its last write is done.
IdleApi == NoWrites

\* The transcriber between two polls.
IdleWorker == [pc |-> "poll", batch |-> <<>>, old |-> {}, verdict |-> NoItem,
               key |-> 0, item |-> NoItem, todo |-> <<>>]

IdleOperator == [pc |-> "idle", star |-> FALSE,
                 key |-> 0, item |-> NoItem, todo |-> <<>>]

Init ==
    /\ state = [k \in Keys |-> NoItem]
    /\ rows = {}
    /\ api = IdleApi
    /\ worker = IdleWorker
    /\ operator = IdleOperator
    /\ answered = {}
    /\ uploaded = {}
    /\ expired = {}
    /\ presigns = [k \in Keys |-> 0]
    /\ stars = 0
    /\ crashes = 0
    /\ faults = 0

\* The effect on the table of an actor's next request.
Request(actor) ==
    LET write == Head(actor.todo)
        entry == <<write.row, actor.key>>
    IN  /\ actor.todo # <<>>
        /\ state' = IF write.op = "item"
                    THEN [state EXCEPT ![actor.key] = actor.item] ELSE state
        /\ rows' = CASE write.op = "put" -> rows \cup {entry}
                     [] write.op = "del" -> rows \ {entry}
                     [] OTHER            -> rows

-----------------------------------------------------------------------------
(* The API: presign_clip_upload and record_presigned_upload.               *)

\* The state item is read; a clip that is past "pending" is left alone.
Presign(k) ==
    /\ api = IdleApi
    /\ presigns[k] < MaxPresigns
    /\ presigns' = [presigns EXCEPT ![k] = @ + 1]
    /\ api' = IF state[k].status \in {"none", "pending"}
              THEN LET item == [status |-> "pending", quarantined |-> FALSE,
                                featured |-> FALSE]
                   IN  [key |-> k, item |-> item,
                        todo |-> Append(PutState(item, state[k].status),
                                        RecordEvent)]
              ELSE IdleApi
    /\ answered' = IF state[k].status \in {"none", "pending"}
                   THEN answered ELSE answered \cup {k}
    /\ UNCHANGED <<table, worker, operator, uploaded, expired,
                   stars, crashes, faults>>

ApiWrites ==
    /\ Request(api)
    /\ api' = IF Len(api.todo) = 1 THEN IdleApi
                                   ELSE [api EXCEPT !.todo = Tail(@)]
    /\ answered' = IF Len(api.todo) = 1 THEN answered \cup {api.key}
                                        ELSE answered
    /\ UNCHANGED <<worker, operator, uploaded, expired, bounds>>

-----------------------------------------------------------------------------
(* The edge client and the clock.                                          *)

\* The client uploads with the URL of a presign request that was answered.
Upload(k) ==
    /\ k \in answered \ uploaded
    /\ uploaded' = uploaded \cup {k}
    /\ UNCHANGED <<table, api, worker, operator, answered, expired, bounds>>

Expire(k) ==
    /\ presigns[k] > 0
    /\ k \notin expired
    /\ expired' = expired \cup {k}
    /\ UNCHANGED <<table, api, worker, operator, answered, uploaded, bounds>>

-----------------------------------------------------------------------------
(* The transcriber: pending_uploads and process_pending_uploads_once.      *)

\* Mutant: clips that wait for their upload are not polled again.
PolledOnce == {"pending", "processing"}

Polled == {"pending", "waiting_upload", "processing"}
            \cup (IF RetryErrors THEN {"error"} ELSE {})

Oldest(S, n) == {k \in S : Cardinality({j \in S : j < k}) < n}

\* The rows one query per status and channel returns.
Queried(s) ==
    UNION {Oldest({k \in Keys : /\ <<QueueRow(s), k>> \in rows
                                /\ ChannelOf[k] = channel}, Limit) :
             channel \in {ChannelOf[k] : k \in Keys}}

\* The records found: one for each row whose clip's state is still polled.
Found == {r \in [key : Keys, row : Polled] :
             r.key \in Queried(r.row) /\ state[r.key].status \in Polled}

Ready   == {r \in Found : state[r.key].status # "waiting_upload"}
Waiting == Found \ Ready

\* The first n records by age, or all of them; of several rows of a clip, any.
First(n, records) ==
    {S \in SUBSET records :
        /\ Cardinality(S) <= n
        /\ S # records => Cardinality(S) = n
        /\ \A r \in S, q \in records \ S : r.key <= q.key}

\* Mutant: no slot is kept.
ReadySlotsUnreserved(waiting) == Limit

\* _fair_pending_records: one slot is kept for a clip still to be uploaded.
ReadySlots(waiting) ==
    IF waiting = {} THEN Limit ELSE IF Limit > 1 THEN Limit - 1 ELSE 1

\* The clips of the records by age, a clip once for each of its records.
ByAge(records) ==
    {clips \in [1 .. Cardinality(records) -> {r.key : r \in records}] :
        /\ \A i, j \in DOMAIN clips : i < j => clips[i] <= clips[j]
        /\ \A k \in {r.key : r \in records} :
              Cardinality({i \in DOMAIN clips : clips[i] = k})
                = Cardinality({r \in records : r.key = k})}

Poll ==
    /\ worker.pc = "poll"
    /\ \E ready \in First(ReadySlots(Waiting), Ready) :
       \E waiting \in First(Limit - Cardinality(ready), Waiting) :
       \E batch \in ByAge(ready \cup waiting) :
          /\ ready \cup waiting # {}
          /\ worker' = [IdleWorker EXCEPT !.pc = "claim", !.batch = batch,
                                          !.old = Range(batch) \cap expired]
    /\ UNCHANGED <<table, api, operator, world, bounds>>

Clip == Head(worker.batch)

\* mark_processing, mark_transcribed, ...: read the item, then write it with
\* its new status, then record the event.
Mark(item, pc) ==
    worker' = [worker EXCEPT
                 !.pc = pc, !.key = Clip, !.item = item,
                 !.todo = Append(PutState(item, state[Clip].status), RecordEvent)]

Claim ==
    /\ worker.pc = "claim"
    /\ Mark([state[Clip] EXCEPT !.status = "processing"], "claiming")
    /\ UNCHANGED <<table, api, operator, world, bounds>>

Verdict(status) == [NoItem EXCEPT !.status = status]

Outcomes ==
    {[status |-> "transcribed", quarantined |-> q, featured |-> FALSE] :
       q \in BOOLEAN}
      \cup {Verdict("empty"), Verdict("error")}

\* Download and transcription.  A missing object is retried until it was too
\* old at the start of the poll (observed_at); an exception of S3, ffmpeg or
\* the model is the outcome "error".
Fetch ==
    /\ worker.pc = "fetch"
    /\ \E verdict \in
          IF Clip \in uploaded THEN Outcomes
          ELSE {Verdict("error")}
                 \cup (IF Clip \in worker.old THEN {}
                       ELSE {Verdict("waiting_upload")}) :
          worker' = [worker EXCEPT !.pc = "settle", !.verdict = verdict]
    /\ UNCHANGED <<table, api, operator, world, bounds>>

\* Only mark_transcribed touches the quality of the item.
Settle ==
    /\ worker.pc = "settle"
    /\ Mark([state[Clip] EXCEPT
               !.status = worker.verdict.status,
               !.quarantined = IF worker.verdict.status = "transcribed"
                               THEN worker.verdict.quarantined ELSE @],
            "settling")
    /\ UNCHANGED <<table, api, operator, world, bounds>>

\* Where the worker goes when the last write of a mark is done.
AfterMark ==
    IF worker.pc = "claiming"
    THEN [worker EXCEPT !.pc = "fetch", !.key = 0, !.item = NoItem, !.todo = <<>>]
    ELSE IF Len(worker.batch) = 1
    THEN IdleWorker
    ELSE [IdleWorker EXCEPT !.pc = "claim", !.batch = Tail(worker.batch),
                            !.old = worker.old]

WorkerWrites ==
    /\ Request(worker)
    /\ worker' = IF Len(worker.todo) = 1 THEN AfterMark
                 ELSE [worker EXCEPT !.todo = Tail(@)]
    /\ UNCHANGED <<api, operator, world, bounds>>

\* A request of the worker raises.  Inside the try block (a result is being
\* settled) the clip is marked as failed; in mark_processing or in an except
\* clause the exception ends the process.
Settling == worker.pc \in {"settle", "settling"}
              /\ worker.verdict.status \in {"transcribed", "empty"}

WorkerFault ==
    /\ faults < MaxFaults
    /\ worker.pc \in {"claim", "claiming", "settle", "settling"}
    /\ faults' = faults + 1
    /\ worker' =
         IF Settling
         THEN [worker EXCEPT !.pc = "settle", !.key = 0, !.item = NoItem,
                             !.todo = <<>>,
                             !.verdict = Verdict("error")]
         ELSE IdleWorker
    /\ UNCHANGED <<table, api, operator, world, presigns, stars, crashes>>

-----------------------------------------------------------------------------
(* Crashes: the process is restarted and remembers nothing.                *)

WorkerCrash ==
    /\ crashes < MaxCrashes
    /\ worker # IdleWorker
    /\ worker' = IdleWorker
    /\ crashes' = crashes + 1
    /\ UNCHANGED <<table, api, operator, world, presigns, stars, faults>>

ApiCrash ==
    /\ crashes < MaxCrashes
    /\ api # IdleApi
    /\ api' = IdleApi
    /\ crashes' = crashes + 1
    /\ UNCHANGED <<table, worker, operator, world, presigns, stars, faults>>

-----------------------------------------------------------------------------
(* The operator: set_clip_featured.                                        *)

\* The clip is found by its public row ...
FindClip(k, star) ==
    /\ operator = IdleOperator
    /\ stars < MaxStars
    /\ <<<<"public", "channel">>, k>> \in rows
    /\ operator' = [IdleOperator EXCEPT !.pc = "found", !.key = k, !.star = star]
    /\ stars' = stars + 1
    /\ UNCHANGED <<table, api, worker, world, presigns, crashes, faults>>

\* ... and its state item is read and written back with the star.
Star ==
    /\ operator.pc = "found"
    /\ LET item == [state[operator.key] EXCEPT !.featured = operator.star]
       IN  operator' = [operator EXCEPT
                          !.pc = "writing", !.item = item,
                          !.todo = Append(PutState(item, "transcribed"),
                                          RecordEvent)]
    /\ UNCHANGED <<table, api, worker, world, bounds>>

OperatorWrites ==
    /\ Request(operator)
    /\ operator' = IF Len(operator.todo) = 1 THEN IdleOperator
                   ELSE [operator EXCEPT !.todo = Tail(@)]
    /\ UNCHANGED <<api, worker, world, bounds>>

-----------------------------------------------------------------------------
Work == Poll \/ Claim \/ Fetch \/ Settle \/ WorkerWrites

Next ==
    \/ \E k \in Keys : Presign(k) \/ Upload(k) \/ Expire(k)
    \/ ApiWrites
    \/ Work
    \/ WorkerFault \/ WorkerCrash \/ ApiCrash
    \/ \E k \in Keys, star \in BOOLEAN : FindClip(k, star)
    \/ Star
    \/ OperatorWrites

Spec == Init /\ [][Next]_vars

\* The service manager keeps the worker and the API running, and time passes.
FairSpec ==
    /\ Spec
    /\ WF_vars(Work)
    /\ WF_vars(ApiWrites)
    /\ \A k \in Keys : WF_vars(Expire(k))

-----------------------------------------------------------------------------
(* Properties.                                                             *)

Writes == {Put(r) : r \in RowNames} \cup {Del(r) : r \in RowNames}
            \cup {PutItem, RecordEvent}

\* Every variable has the shape the code gives it.
TypeOK ==
    /\ state \in [Keys -> Items \cup {NoItem}]
    /\ rows \subseteq RowNames \X Keys
    /\ \A actor \in {api, worker, operator} :
          /\ actor.key \in Keys \cup {0}
          /\ actor.item \in Items \cup {NoItem}
          /\ actor.todo \in Seq(Writes)
    /\ worker.batch \in Seq(Keys) /\ Len(worker.batch) <= Limit
    /\ worker.old \subseteq expired
    /\ answered \subseteq Keys /\ uploaded \subseteq answered
    /\ expired \subseteq Keys
    /\ presigns \in [Keys -> 0 .. MaxPresigns]
    /\ stars \in 0 .. MaxStars
    /\ crashes \in 0 .. MaxCrashes /\ faults \in 0 .. MaxFaults

\* No actor is in the middle of writing this clip.
Resting(k) ==
    \A actor \in {api, worker, operator} : actor.key = k => actor.todo = <<>>

RowsIn(k, names) == {r \in names : <<r, k>> \in rows}

RowsRight(k) == RowsIn(k, RowNames) = RowsOf(state[k])

PublicRowsRight(k) ==
    RowsIn(k, RowNames \ FeaturedRows) = RowsOf(state[k]) \ FeaturedRows

\* As long as nothing fails, a clip presigned once that nobody is writing has exactly
\* the index rows its state item calls for: it is neither counted, queued or listed
\* twice, nor lost (_put_state's bookkeeping of old_status).  Even while the operator
\* stars and unstars clips that the transcriber is still writing, the rows that queue,
\* list and count them come out right.  (The featured rows do not: mark_transcribed ends
\* by deleting them, so a star set from the first public row on can lose its rows.)
RowsAreRight ==
    /\ TypeOK
    /\ (crashes = 0 /\ faults = 0) =>
          \A k \in Keys : (presigns[k] <= 1 /\ Resting(k)) =>
             PublicRowsRight(k) /\ (stars = 0 => RowsRight(k))

\* A crash, a failed request or a star leaves at most one clip with wrong rows,
\* the one that was being written, of the clips that were presigned once.
DamageIsContained ==
    Cardinality({k \in Keys : presigns[k] <= 1 /\ Resting(k) /\ ~RowsRight(k)})
      <= crashes + faults + stars

\* A clip that was interrupted while it was processed can still be found in
\* the queue by the restarted worker (docs/transcriber-cpu-policy.md).
InterruptedClipStaysQueued ==
    \A k \in Keys :
        (Resting(k) /\ k \notin Range(worker.batch)
           /\ state[k].status = "processing")
          => \E s \in Polled : <<QueueRow(s), k>> \in rows

\* Uploads that never arrive do not take all of a poll's places, nor do ready clips
\* take the one kept for retrying an upload (_fair_pending_records).
FairPoll ==
    Poll =>
        LET chosen == Range(worker'.batch)
        IN  /\ Ready # {} => \E r \in Ready : r.key \in chosen
            /\ (Waiting # {} /\ Limit > 1) => \E r \in Waiting : r.key \in chosen
            /\ \A r, q \in Ready :
                  (r.key < q.key /\ q.key \in chosen) => r.key \in chosen

PollIsFair == [][FairPoll]_vars

\* A clip whose audio was uploaded is transcribed, found empty or reported as
\* an error in the end, however many other uploads never arrive.
EveryUploadFinishes ==
    \A k \in Keys :
        k \in uploaded ~> state[k].status \in {"transcribed", "empty", "error"}
=============================================================================
