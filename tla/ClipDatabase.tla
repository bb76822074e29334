----------------------------- MODULE ClipDatabase -----------------------------
(***************************************************************************)
(* UploadedClipStore, the SQLite store of clip_transcriber.py: the API     *)
(* registers clips, the worker polls, claims and settles them, operators   *)
(* star them, and readers go through the transcribed ones page by page.    *)
(* Every "with sqlite3.connect" is one transaction, so one step here, save *)
(* that Python opens no transaction for a SELECT; the durable event of a   *)
(* change is written after its transaction, and a reader gets the segments *)
(* of a clip in a later transaction than the clip.                         *)
(***************************************************************************)
EXTENDS Naturals, FiniteSets, SequencesExt

CONSTANTS Keys,
          StartOf,        \* started_at of each clip
          Limit,          \* clips per poll
          PageSize,
          Operators,      \* star requests that may overlap
          Kinds,          \* the kinds of reads
          MaxClips, MaxStars, MaxWaits, MaxFaults, MaxCrashes   \* bounds, for a reader of each kind

VARIABLES clips,      \* table uploaded_clips: the rows in order of their id
          segments,   \* table uploaded_clip_segments: the transcripts they are of
          stars,      \* table uploaded_clip_features: featured_at
          events,     \* durable events, those of the transcripts: the other kinds are
                      \* written and may fail alike, but nothing here is about them
          worker,
          operator,
          reader,
          steady,     \* ghost: clips the reader's list has had since it began
          shrunk,     \* ghost: whether that list has lost a clip since
          requests, waits, faults, crashes

tables == <<clips, segments, stars, events>>
ghosts == <<steady, shrunk>>
bounds == <<requests, waits, faults, crashes>>
vars   == <<tables, worker, operator, reader, ghosts, bounds>>

None == 0
IdleWorker == [pc |-> "poll", batch |-> <<>>]
IdleOperator == [pc |-> "idle", key |-> None, star |-> FALSE, at |-> None]
IdleReader(kind) == [kind |-> kind, pc |-> "idle", page |-> 0, cursor |-> None, rows |-> <<>>,
                     out |-> <<>>]

Init ==
    /\ clips = <<>>
    /\ segments = [k \in Keys |-> {}]
    /\ stars = [k \in Keys |-> None]
    /\ events = {}
    /\ worker = IdleWorker /\ operator = [o \in Operators |-> IdleOperator]
    /\ \E kind \in Kinds : reader = IdleReader(kind)
    /\ steady = {} /\ shrunk = FALSE
    /\ requests = 0 /\ waits = 0 /\ faults = 0 /\ crashes = 0

-----------------------------------------------------------------------------
(* The rows.                                                               *)

Id(k) == CHOOSE i \in DOMAIN clips : clips[i].key = k
Row(k) == clips[Id(k)]
Known == {clips[i].key : i \in DOMAIN clips}
Transcribed == {k \in Known : Row(k).status = "transcribed"}

Earlier(a, b) == StartOf[a] < StartOf[b] \/ (StartOf[a] = StartOf[b] /\ Id(a) < Id(b))

Later(a, b) == Earlier(b, a)

\* The clips that each kind of read goes through, and their order: the raw scan
\* (iter_transcribed_raw), pages of the visible clips, oldest or newest first,
\* and pages of the starred ones (recent_transcribed).
Listed(kind) ==
    CASE kind = "scan"    -> Transcribed
      [] kind = "starred" -> {k \in Transcribed : Row(k).good /\ stars[k] # None}
      [] OTHER            -> {k \in Transcribed : Row(k).good}

Precedes(kind, a, b) ==
    CASE kind = "oldest"  -> Earlier(a, b)
      [] kind = "starred" -> stars[a] > stars[b] \/ (stars[a] = stars[b] /\ Later(a, b))
      [] OTHER            -> Later(a, b)

Sorted(kind, S) == SetToSortSeq(S, LAMBDA a, b : Precedes(kind, a, b))

Limited(s, n) == SubSeq(s, 1, IF Len(s) < n THEN Len(s) ELSE n)

\* What a write does to the list of the reader at work.
Watch ==
    LET list == Listed(reader.kind)' IN
    IF reader.pc = "reading"
    THEN /\ steady' = steady \cap list
         /\ shrunk' = (shrunk \/ \E k \in Listed(reader.kind) : k \notin list)
    ELSE UNCHANGED ghosts

-----------------------------------------------------------------------------
(* The API and the operators.                                              *)

\* record_presigned_upload: INSERT OR IGNORE, the second request changes nothing.
Presign(k) ==
    /\ k \notin Known /\ Len(clips) < MaxClips[reader.kind]
    /\ clips' = Append(clips, [key |-> k, status |-> "pending", text |-> None, good |-> TRUE])
    /\ UNCHANGED <<segments, stars, events, worker, operator, reader, ghosts, bounds>>

\* set_clip_featured: the clip is looked up, its star read, the star written and
\* the event recorded.
StarRequest(o, k, star) ==
    /\ operator[o] = IdleOperator /\ k \in Transcribed
    /\ requests < MaxStars[reader.kind] /\ requests' = requests + 1
    /\ operator' = [operator EXCEPT ![o] =
                       [pc |-> IF star THEN "select" ELSE "write", key |-> k, star |-> star,
                        at |-> requests + 1]]
    /\ UNCHANGED <<tables, worker, reader, ghosts, waits, faults, crashes>>

\* ON CONFLICT leaves featured_at as it is.
StarWritten(k, at) == IF stars[k] = None THEN at ELSE stars[k]

SelectStar(o) ==
    LET k == operator[o].key IN
    /\ operator[o].pc = "select"
    /\ operator' = [operator EXCEPT ![o].pc = "write",
                       ![o].at = IF stars[k] = None THEN @ ELSE stars[k]]
    /\ UNCHANGED <<tables, worker, reader, ghosts, bounds>>

\* The durable event that follows reaches nobody here; if it raises, so does the
\* request, with the star written.
WriteStar(o) ==
    LET r == operator[o] IN
    /\ r.pc = "write"
    /\ stars' = [stars EXCEPT ![r.key] = IF r.star THEN StarWritten(r.key, r.at) ELSE None]
    /\ operator' = [operator EXCEPT ![o] = IdleOperator]
    /\ UNCHANGED <<clips, segments, events, worker, reader, bounds>>
    /\ Watch

-----------------------------------------------------------------------------
(* The worker: process_pending_uploads_once.                               *)

ByKey(s) == SetToSortSeq(ToSet(s), LAMBDA a, b :
                    StartOf[a] < StartOf[b] \/ (StartOf[a] = StartOf[b] /\ a < b))

\* The oldest of each query; one slot is kept for the clips that wait for their
\* upload (pending_uploads, _fair_pending_records).
Batch ==
    LET Of(statuses) == Limited(Sorted("oldest", {k \in Known : Row(k).status \in statuses}), Limit)
        ready == Of({"pending", "processing", "error"})
        waiting == Of({"waiting_upload"})
        slots == IF waiting = <<>> \/ Limit = 1 THEN Limit ELSE Limit - 1
        chosen == Limited(ByKey(ready), slots)
    IN  ByKey(chosen \o Limited(ByKey(waiting), Limit - Len(chosen)))

Poll ==
    /\ worker.pc = "poll"
    /\ LET batch == Batch IN
       batch # <<>> /\ worker' = [worker EXCEPT !.pc = "claim", !.batch = batch]
    /\ UNCHANGED <<tables, operator, reader, ghosts, bounds>>

Finished == IF Len(worker.batch) = 1 THEN IdleWorker
            ELSE [pc |-> "claim", batch |-> Tail(worker.batch)]

\* An exception on the way to settling a clip marks it failed; one of the claim
\* and one of that mark itself end the worker.
AfterEventFault(type) ==
    IF type \in {"transcribed", "empty"} THEN [worker EXCEPT !.pc = "failing"] ELSE IdleWorker

AfterEvent(type) == IF type = "processing" THEN [worker EXCEPT !.pc = "work"] ELSE Finished

Event(type) ==
    \/ worker' = AfterEvent(type) /\ UNCHANGED faults
    \/ /\ faults < MaxFaults[reader.kind] /\ faults' = faults + 1
       /\ worker' = AfterEventFault(type)

\* One transaction on the clip at hand.
Write(row) ==
    /\ clips' = [clips EXCEPT ![Id(row.key)] = row]
    /\ UNCHANGED <<stars, events, operator, reader, requests, crashes>>
    /\ Watch

\* A transaction and its event.  Nobody looks at the events but for those of the
\* transcripts, so the two may be one step.
SetStatus(status, type) ==
    /\ Write([Row(Head(worker.batch)) EXCEPT !.status = status])
    /\ Event(type)

Claim ==
    /\ worker.pc = "claim"
    /\ SetStatus("processing", "processing")
    /\ UNCHANGED <<segments, waits>>

NotAvailable ==
    /\ worker.pc = "work"
    /\ waits < MaxWaits[reader.kind] /\ waits' = waits + 1
    /\ SetStatus("waiting_upload", "waiting_upload") \/ SetStatus("error", "failed")
    /\ UNCHANGED segments

MarkFailed ==
    /\ worker.pc = "failing"
    /\ SetStatus("error", "failed")
    /\ UNCHANGED <<segments, waits>>

\* mark_empty; the number of the last transcript is kept to tell a later one apart.
MarkEmpty ==
    /\ worker.pc = "work"
    /\ SetStatus("empty", "empty")
    /\ segments' = [segments EXCEPT ![Head(worker.batch)] = {}]
    /\ UNCHANGED waits

\* Mutant: the segments of an earlier transcription are kept.
SegmentsAdded(k, text) == segments[k] \cup {text}

SegmentsOf(k, text) == {text}

\* mark_transcribed: a new transcript, numbered here, and its segments.
MarkTranscribed(good) ==
    LET k == Head(worker.batch)
        text == Row(k).text + 1
    IN  /\ worker.pc = "work"
        /\ Write([key |-> k, status |-> "transcribed", text |-> text, good |-> good])
        /\ segments' = [segments EXCEPT ![k] = SegmentsOf(k, text)]
        /\ worker' = [worker EXCEPT !.pc = "event"]
        /\ UNCHANGED <<waits, faults>>

TranscribedEvent ==
    LET k == Head(worker.batch) IN
    /\ worker.pc = "event" /\ Event("transcribed")
    /\ events' = IF faults' = faults THEN events \cup {<<k, Row(k).text>>} ELSE events
    /\ UNCHANGED <<clips, segments, stars, operator, reader, ghosts, requests, waits, crashes>>

Crash ==
    /\ worker # IdleWorker
    /\ crashes < MaxCrashes[reader.kind] /\ crashes' = crashes + 1
    /\ worker' = IdleWorker
    /\ UNCHANGED <<tables, operator, reader, ghosts, requests, waits, faults>>

-----------------------------------------------------------------------------
(* A reader that follows the pages of its list to the end.                 *)

StartRead ==
    /\ reader.pc = "idle"
    /\ reader' = [reader EXCEPT !.pc = "reading"]
    /\ steady' = Listed(reader.kind) /\ shrunk' = FALSE
    /\ UNCHANGED <<tables, worker, operator, bounds>>

\* The cursor of the scan is the last row's started_at and id.
Beyond(k) == reader.cursor = None \/ Earlier(k, reader.cursor)

\* One query: the raw scan seeks behind its cursor, a page skips an offset.
Rows ==
    IF reader.kind = "scan"
    THEN Limited(Sorted("scan", {k \in Transcribed : Beyond(k)}), PageSize)
    ELSE LET list == Sorted(reader.kind, Listed(reader.kind))
             offset == reader.page * PageSize
         IN  Limited(SubSeq(list, offset + 1, Len(list)), PageSize)

Query ==
    /\ reader.pc = "reading" /\ reader.rows = <<>>
    /\ LET found == Rows IN
       reader' =
         IF found = <<>> THEN [reader EXCEPT !.pc = "ended"]
         ELSE [reader EXCEPT
                  !.page = IF reader.kind = "scan" THEN @ ELSE @ + 1,
                  !.cursor = IF reader.kind = "scan" THEN Last(found) ELSE @,
                  !.rows = [i \in DOMAIN found |->
                              [key |-> found[i], text |-> Row(found[i]).text]]]
    /\ UNCHANGED <<tables, worker, operator, ghosts, bounds>>

\* segments_for_clip of the next row.
Give ==
    /\ reader.rows # <<>>
    /\ LET row == Head(reader.rows) IN
       reader' = [reader EXCEPT !.rows = Tail(@),
                     !.out = Append(@, [key |-> row.key, text |-> row.text,
                                        segments |-> segments[row.key]])]
    /\ UNCHANGED <<tables, worker, operator, ghosts, bounds>>

-----------------------------------------------------------------------------
OperatorNext(o) ==
    \/ \E k \in Keys, star \in BOOLEAN : StarRequest(o, k, star)
    \/ SelectStar(o) \/ WriteStar(o)

Settles == \/ NotAvailable \/ MarkEmpty \/ MarkFailed
           \/ \E good \in BOOLEAN : MarkTranscribed(good)

Next ==
    \/ \E k \in Keys : Presign(k)
    \/ \E o \in Operators : OperatorNext(o)
    \/ Poll \/ Claim \/ Settles \/ TranscribedEvent \/ Crash
    \/ StartRead \/ Query \/ Give

-----------------------------------------------------------------------------
Given == {reader.out[i].key : i \in DOMAIN reader.out}

\* A reader that reaches the end has been given every clip that was in its list
\* from its first query to its last, although clips are settled, failed and
\* starred between the pages: the raw scan always, and never twice or out of
\* order; pages by offset as long as no clip left the list.  Unless an event was
\* lost, the segments given with a clip are its transcript's.
ReadsAreComplete ==
    /\ reader.pc = "ended" /\ (reader.kind = "scan" \/ ~shrunk) => steady \subseteq Given
    /\ reader.kind = "scan" =>
          \A i, j \in DOMAIN reader.out :
              i < j => Earlier(reader.out[j].key, reader.out[i].key)
    /\ faults = 0 => \A i \in DOMAIN reader.out : reader.out[i].segments = {reader.out[i].text}

\* The tables agree with each other and with the durable events, whatever was
\* retried: a transcribed clip has the segments of its last transcript and no
\* others, and, but for a crash between the transaction and its event, the event
\* of that transcript.
TablesAgree ==
    \A k \in Transcribed :
        /\ segments[k] = {Row(k).text}
        /\ crashes = 0 =>
              \/ <<k, Row(k).text>> \in events
              \/ worker.batch # <<>> /\ Head(worker.batch) = k

=============================================================================
