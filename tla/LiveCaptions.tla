----------------------------- MODULE LiveCaptions ----------------------------
(***************************************************************************)
(* The live captions (live_transcriber.py): one thread reads the stream in *)
(* chunks, transcribes each and adds its segments to the store and then to *)
(* the list it shows; requests read that list, or page through the store.  *)
(* Reading, transcribing and the store may fail, the stream may end, and   *)
(* the service may be restarted.                                           *)
(***************************************************************************)
EXTENDS Naturals, FiniteSets, SequencesExt

CONSTANTS Chunks,       \* possible chunks: the segments of each, "speech" or "blank"
          Limit,        \* limit of a request for the recent entries
          PageSize,     \* rows of a page of the store
          MaxEntries,   \* entries that are shown
          MaxSegments, MaxFaults, MaxRestarts, MaxRequests     \* bounds

VARIABLES loop,       \* the transcription loop: pc, what is left of the chunk
          ffmpeg,     \* ffmpeg processes that run
          said,       \* segments taken from the stream so far
          store,      \* entries in the store, numbered in order of their start
          entries,    \* state.entries
          status,     \* state.status and state.error
          request,    \* a request for the recent entries
          appended,   \* ghost: entries added since the service was started
          faults, restarts, requests

vars == <<loop, ffmpeg, said, store, entries, status, request, appended,
          faults, restarts, requests>>

Connecting == [pc |-> "connect", todo |-> <<>>]
NoRequest == [pc |-> "none", rows |-> {}, stored |-> {}]

Init ==
    /\ loop = Connecting /\ ffmpeg = 0
    /\ said = 0 /\ store = {}
    /\ entries = <<>> /\ appended = <<>>
    /\ status = [status |-> "running", error |-> FALSE]
    /\ request = NoRequest
    /\ faults = 0 /\ restarts = 0 /\ requests = 0

Fault == faults < MaxFaults /\ faults' = faults + 1

Running == [status |-> "running", error |-> FALSE]
Failed  == [status |-> "error", error |-> TRUE]

-----------------------------------------------------------------------------
(* run_transcription_loop.                                                 *)

\* iter_pcm_chunks starts ffmpeg.
Connect ==
    /\ loop.pc = "connect"
    /\ ffmpeg' = ffmpeg + 1 /\ loop' = [loop EXCEPT !.pc = "read"]
    /\ UNCHANGED <<said, store, entries, status, request, appended, faults, restarts, requests>>

\* One chunk, its segments numbered as they were said.
Read(chunk) ==
    /\ loop.pc = "read" /\ said + Len(chunk) <= MaxSegments
    /\ status' = Running
    /\ said' = said + Len(chunk)
    /\ loop' = [pc |-> "append",
                todo |-> [i \in DOMAIN chunk |-> [id |-> said + i, text |-> chunk[i]]]]
    /\ UNCHANGED <<ffmpeg, store, entries, request, appended, faults, restarts, requests>>

\* The stream ends, or is gone: ffmpeg is terminated and the loop connects again.
StreamEnds ==
    /\ loop.pc = "read" /\ Fault
    /\ ffmpeg' = ffmpeg - 1 /\ loop' = Connecting /\ status' = Failed
    /\ UNCHANGED <<said, store, entries, request, appended, restarts, requests>>

\* transcribe_audio_file raises, or the iterator over its segments does.
TranscriptionFails ==
    /\ loop.pc = "append" /\ Fault
    /\ loop' = [pc |-> "read", todo |-> <<>>] /\ status' = Failed
    /\ UNCHANGED <<ffmpeg, said, store, entries, request, appended, restarts, requests>>

SkipBlank ==
    /\ loop.pc = "append" /\ loop.todo # <<>> /\ Head(loop.todo).text = "blank"
    /\ loop' = [loop EXCEPT !.todo = Tail(@)]
    /\ UNCHANGED <<ffmpeg, said, store, entries, status, request, appended, faults,
                   restarts, requests>>

Shown(list) == IF Len(list) > MaxEntries THEN Tail(list) ELSE list

\* TranscriptState.add_entry in two steps: the store first.
Store ==
    /\ loop.pc = "append" /\ loop.todo # <<>> /\ Head(loop.todo).text = "speech"
    /\ \/ /\ store' = store \cup {Head(loop.todo).id}
          /\ loop' = [loop EXCEPT !.pc = "show"]
          /\ UNCHANGED <<status, faults>>
       \* the write raises, and whether it was made is not known
       \/ /\ Fault
          /\ store' \in {store, store \cup {Head(loop.todo).id}}
          /\ loop' = [pc |-> "read", todo |-> <<>>] /\ status' = Failed
    /\ UNCHANGED <<ffmpeg, said, entries, request, appended, restarts, requests>>

Show ==
    LET id == Head(loop.todo).id IN
    /\ loop.pc = "show"
    /\ entries' = Shown(Append(entries, id)) /\ appended' = Append(appended, id)
    /\ status' = [status EXCEPT !.error = FALSE]
    /\ loop' = [pc |-> "append", todo |-> Tail(loop.todo)]
    /\ UNCHANGED <<ffmpeg, said, store, request, faults, restarts, requests>>

ChunkDone ==
    /\ loop.pc = "append" /\ loop.todo = <<>>
    /\ loop' = [loop EXCEPT !.pc = "read"]
    /\ UNCHANGED <<ffmpeg, said, store, entries, status, request, appended, faults,
                   restarts, requests>>

Restart ==
    /\ restarts < MaxRestarts /\ restarts' = restarts + 1
    /\ loop' = Connecting /\ ffmpeg' = 0
    /\ entries' = <<>> /\ appended' = <<>> /\ status' = Running
    /\ request' = NoRequest
    /\ UNCHANGED <<said, store, faults, requests>>

-----------------------------------------------------------------------------
(* GET /api/transcripts/recent with the DynamoDB store: _query_items from  *)
(* the newest entry back, page by page.                                    *)

Ask ==
    /\ request.pc = "none" /\ requests < MaxRequests /\ requests' = requests + 1
    /\ request' = [pc |-> "page", rows |-> {}, stored |-> store]
    /\ UNCHANGED <<loop, ffmpeg, said, store, entries, status, appended, faults, restarts>>

\* What lies behind the rows of the pages before.
NextOf(page, rows) == {i \in page : \A r \in rows : i < r}

Newest(n, page) == {i \in page : Cardinality({j \in page : j > i}) < n}

Page ==
    LET left == NextOf(store, request.rows)
        asked == Limit - Cardinality(request.rows)
        size == IF asked < PageSize THEN asked ELSE PageSize
        rows == request.rows \cup Newest(size, left)
        ends == Cardinality(left) <= size \/ Cardinality(rows) = Limit
    IN  /\ request.pc = "page"
        /\ request' = [request EXCEPT !.rows = rows,
                                      !.pc = IF ends THEN "done" ELSE "page"]
        /\ UNCHANGED <<loop, ffmpeg, said, store, entries, status, appended, faults, restarts,
                       requests>>

Answered ==
    /\ request.pc = "done" /\ request' = NoRequest
    /\ UNCHANGED <<loop, ffmpeg, said, store, entries, status, appended, faults, restarts,
                   requests>>

-----------------------------------------------------------------------------
\* What is shown is the end of what was added since the service was started, in the
\* order it was said, all of it is in the store whatever failed, and at most one
\* ffmpeg reads the stream (TranscriptState.add_entry, iter_pcm_chunks).
CaptionsAreStored ==
    /\ ToSet(entries) \subseteq store
    /\ IsSuffix(entries, appended) /\ Len(entries) <= MaxEntries
    /\ \A i, j \in DOMAIN appended : i < j => appended[i] < appended[j]
    /\ ffmpeg <= 1

\* The recent entries that are answered are without a gap and no more than asked for: no
\* entry that was in the store when the request began is newer than the oldest of them and
\* missing, and fewer than Limit means that there are no more (_query_items).
RecentIsWithoutGap ==
    request.pc = "done" =>
        /\ Cardinality(request.rows) <= Limit
        /\ \A e \in request.stored \ request.rows :
              Cardinality(request.rows) = Limit /\ \A r \in request.rows : e < r
=============================================================================
