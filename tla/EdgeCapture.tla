----------------------------- MODULE EdgeCapture -----------------------------
(***************************************************************************)
(* One edge_capture.py process: the main thread reads the receiver's       *)
(* stream, records it in segments (ContinuousWavRecorder), feeds the live  *)
(* encoder, cuts clips and handles each of them before it reads on; a      *)
(* second thread uploads finished segments (SegmentUploadWorker).  The     *)
(* service manager restarts the process whenever it ends.                  *)
(* A chunk is one frame, so that segments are counted in frames.           *)
(***************************************************************************)
EXTENDS Naturals, Sequences, FiniteSets, FiniteSetsExt, SequencesExt

CONSTANTS PreRoll,         \* frames kept from before a burst
          PostRoll,        \* quiet frames that end a burst
          MinClip,         \* a shorter burst is not a clip
          MaxClip,         \* a clip is cut at this length
          Lookahead,       \* frames the live feed is delayed by
          SegmentFrames,   \* length of a segment
          Retention,       \* segments older than this many frames expire
          QueueSize,       \* places of the upload queue
          DeleteAfterUpload,
          Kind(_, _),      \* the frames a receiver sends at a time, with or without
                           \* recording
          MaxFrames,       \* bound: frames the receiver sends
          MaxFaults,       \* bound: failed uploads
          MaxStops         \* bound: kills and failures of the main thread

\* EdgeCaptureConfig.__post_init__ asks for MaxClip >= MinClip only.  A clip is
\* cut by its length with the pre-roll, so that a limit nearer to MinClip would
\* cut clips which are then too short; the defaults (450, 10 and 5 frames) are
\* far from it.  The frame that opens a burst never ends it, so that no limit can
\* keep a clip to one frame.
ASSUME DetectorAssumption ==
    /\ PreRoll \in Nat /\ PostRoll \in Nat /\ Lookahead \in Nat
    /\ MinClip \in Nat \ {0}
    /\ MaxClip \in Nat \ {0, 1} /\ MaxClip >= MinClip + PreRoll

ASSUME CaptureAssumption ==
    /\ SegmentFrames \in Nat \ {0} /\ QueueSize \in Nat \ {0}
    /\ Retention \in Nat /\ DeleteAfterUpload \in BOOLEAN
    /\ MaxFrames \in Nat /\ MaxFaults \in Nat /\ MaxStops \in Nat
    /\ \A n \in 1 .. MaxFrames, record \in BOOLEAN :
          Kind(n, record) \subseteq {"voice", "static", "quiet"}

VARIABLES recording,  \* whether the process is run with --record-dir
          heard,      \* the frames of the receiver, in order
          from,       \* the first frame of this process
          main,       \* where the main thread is, and how the last process ended
          detector,   \* state of detect_activity_clips
          live,       \* state of _squelched_pcm_chunk_stream
          played,     \* what was written to the live encoder
          clips,      \* every clip cut, by the process that cut it
          paused,     \* thermal pause
          segment,    \* the segment being recorded, or 0
          files,      \* the files of each segment, by its first frame
          queue,      \* segments waiting for the worker, or the stop mark
          worker,     \* the worker thread
          fate,       \* what became of each segment
          faults, stops

recorder == <<segment, files>>
sound    == <<detector, live, played, clips>>
thread   == <<queue, worker, fate>>
process == <<heard, from, main, sound, paused, recorder, thread, faults, stops>>
vars == <<recording, process>>

Stop == 0
Now  == Len(heard)

\* What the files of a segment can be: an open temporary file, a named audio
\* file without metadata, both, metadata alone, or nothing.
FileStates == {"none", "tmp", "audio", "complete", "metadata"}

-----------------------------------------------------------------------------
(* The two squelches, frame by frame: detect_activity_clips cuts the       *)
(* stream into clips, _squelched_pcm_chunk_stream renders the live feed.   *)
(* A frame is reduced to what they tell apart: loud speech, a loud static  *)
(* burst, or a quiet frame, numbered from 1 in the order of hearing.       *)

Kinds == {"voice", "static", "quiet"}

IsUnsquelched(kind) == kind = "voice"

-----------------------------------------------------------------------------
\* Clips.  `frames` holds the frames of the open burst, each with its number and
\* whether it is live; `quiet` counts the quiet frames at its end.
Silent == [open |-> FALSE, frames |-> <<>>, quiet |-> 0, preRoll |-> <<>>]

Muted(i) == [at |-> i, live |-> FALSE]

\* process_frame without its end: append the frame to the burst or the pre-roll.
Heard(d, i, loud) ==
    IF d.open
    THEN [d EXCEPT !.frames = Append(@, [at |-> i, live |-> loud]),
                   !.quiet  = IF loud THEN 0 ELSE @ + 1]
    ELSE IF loud
         THEN [d EXCEPT !.open   = TRUE,
                        !.frames = Append([p \in DOMAIN d.preRoll |-> Muted(d.preRoll[p])],
                                          [at |-> i, live |-> TRUE]),
                        !.quiet  = 0]
         ELSE [d EXCEPT !.preRoll =
                  LET kept == Append(@, i)
                  IN  IF Len(kept) > PreRoll THEN Tail(kept) ELSE kept]

\* The frame that opens a burst never ends it.
Ends(before, after) ==
    /\ before.open
    /\ \/ Len(after.frames) >= MaxClip
       \/ after.quiet > 0 /\ after.quiet >= PostRoll

\* Mutant: the pre-roll and the quiet end stay in the clip.
TrimNothing(frames) == frames

TrimUnsquelchedEdges(frames) ==
    LET loud == {p \in DOMAIN frames : frames[p].live}
    IN  IF loud = {} THEN <<>> ELSE SubSeq(frames, Min(loud), Max(loud))

\* The clip of a burst: its start and its length, from which the code computes
\* when it ended.  `last` is the number of its last frame.
ClipsOf(d) ==
    LET frames == TrimUnsquelchedEdges(d.frames)
    IN  IF Len(frames) < MinClip
        THEN {}
        ELSE {[first |-> frames[1].at, length |-> Len(frames),
               last |-> frames[Len(frames)].at]}

\* The pre-roll is cleared by the caller, and only when there is a clip.
Finished(d) ==
    [Silent EXCEPT !.preRoll = IF ClipsOf(d) = {} THEN d.preRoll ELSE <<>>]

-----------------------------------------------------------------------------
\* Live feed.  `hang` frames may still be heard after a loud one, `delayed`
\* holds the rendered frames that were not written yet.
Unrendered == [hang |-> 0, delayed |-> <<>>]

Audible(l, kind) == kind = "voice" \/ (kind = "quiet" /\ l.hang > 0)

AppendRendered(l, i, kind) ==
    [hang    |-> CASE kind = "static" -> 0
                   [] kind = "voice"  -> PostRoll
                   [] OTHER           -> IF l.hang > 0 THEN l.hang - 1 ELSE 0,
     delayed |-> Append(l.delayed, [at |-> i, audible |-> Audible(l, kind)])]

Ready(l, keep) ==
    IF Len(l.delayed) > keep THEN SubSeq(l.delayed, 1, Len(l.delayed) - keep) ELSE <<>>

Drained(l, keep) ==
    [l EXCEPT !.delayed = SubSeq(@, Len(Ready(l, keep)) + 1, Len(@))]

-----------------------------------------------------------------------------
Init ==
    /\ recording \in BOOLEAN
    /\ heard = <<>> /\ from = 1
    /\ main = [pc |-> "read", ended |-> FALSE, exit |-> "none"]
    /\ detector = Silent /\ live = Unrendered /\ played = <<>> /\ clips = {}
    /\ paused = FALSE
    /\ segment = 0 /\ files = [s \in 1 .. MaxFrames |-> "none"]
    /\ queue = <<>> /\ worker = [pc |-> "idle", seg |-> 0]
    /\ fate = [s \in 1 .. MaxFrames |-> {}]
    /\ faults = 0 /\ stops = 0

Goto(pc) == main' = [main EXCEPT !.pc = pc]

-----------------------------------------------------------------------------
\* The recorder.  write: open a segment when there is none, append, and close it
\* when it is full.
FirstFrame == IF segment = 0 THEN Now + 1 ELSE segment

FillsSegment == recording /\ Now + 2 - FirstFrame >= SegmentFrames

ReadFrame(kind) ==
    /\ main.pc = "read" /\ Now < MaxFrames
    /\ heard' = Append(heard, kind)
    /\ IF recording /\ segment = 0
       THEN /\ segment' = Now + 1
            /\ files' = [files EXCEPT ![Now + 1] = "tmp"]
       ELSE UNCHANGED recorder
    /\ Goto(IF FillsSegment THEN "close" ELSE "listen")
    /\ UNCHANGED <<from, sound, paused, thread, faults, stops>>

\* Mutant: the open segment is left alone at the end of the stream.
EndWithoutClosing ==
    /\ main.pc = "read"
    /\ main' = [main EXCEPT !.pc = "flush", !.ended = TRUE]
    /\ UNCHANGED <<heard, from, sound, paused, recorder, thread, faults, stops>>

\* The stream is at its end: record_chunks closes the open segment.
EndOfStream ==
    /\ main.pc = "read"
    /\ main' = [main EXCEPT !.pc = IF segment = 0 THEN "flush" ELSE "close",
                            !.ended = TRUE]
    /\ UNCHANGED <<heard, from, sound, paused, recorder, thread, faults, stops>>

\* _close_segment: the audio gets its name, then the metadata gets its own ...
NameAudio ==
    /\ main.pc = "close"
    /\ files' = [files EXCEPT ![segment] = "audio"]
    /\ Goto("describe")
    /\ UNCHANGED <<heard, from, sound, paused, segment, thread, faults, stops>>

NameMetadata ==
    /\ main.pc = "describe"
    /\ files' = [files EXCEPT ![segment] = "complete"]
    /\ Goto("hand")
    /\ UNCHANGED <<heard, from, sound, paused, segment, thread, faults, stops>>

\* ... and the segment is offered to the worker, unless its queue is full.
Enqueue ==
    IF Len(queue) < QueueSize
    THEN queue' = Append(queue, segment) /\ UNCHANGED fate
    ELSE fate' = [fate EXCEPT ![segment] = @ \cup {"refused"}] /\ UNCHANGED queue

\* prune_expired, by the age of the last write of a file.
Expired(s) == s + SegmentFrames - 1 + Retention < Now

PruneExpired ==
    files' = [s \in DOMAIN files |-> IF Expired(s) THEN "none" ELSE files[s]]

HandOver ==
    /\ main.pc = "hand"
    /\ Enqueue
    /\ PruneExpired
    /\ segment' = 0
    /\ Goto(IF main.ended THEN "flush" ELSE "listen")
    /\ UNCHANGED <<heard, from, sound, paused, worker, faults, stops>>

-----------------------------------------------------------------------------
\* tee_chunks, then detect_activity_clips.
Cut(found) == [c \in found |-> [from |-> from, first |-> c.first,
                                length |-> c.length, last |-> c.last]]
NewClips(found) == {Cut(found)[c] : c \in found}

Listen ==
    LET kind     == heard[Now]
        rendered == AppendRendered(live, Now, kind)
        burst    == Heard(detector, Now, IsUnsquelched(kind))
        ends     == Ends(detector, burst)
        found    == IF ends THEN ClipsOf(burst) ELSE {}
    IN  /\ main.pc = "listen"
        /\ played' = played \o Ready(rendered, Lookahead)
        /\ live' = Drained(rendered, Lookahead)
        /\ detector' = IF ends THEN Finished(burst) ELSE burst
        /\ clips' = clips \cup NewClips(found)
        /\ Goto(IF found = {} THEN "read" ELSE "clip")
        /\ UNCHANGED <<heard, from, paused, recorder, thread, faults, stops>>

\* After the last frame the delayed frames are written and the burst is ended.
Flush ==
    LET found == IF detector.open THEN ClipsOf(detector) ELSE {}
    IN  /\ main.pc = "flush"
        /\ played' = played \o Ready(live, 0)
        /\ live' = Drained(live, 0)
        /\ detector' = IF detector.open THEN Finished(detector) ELSE detector
        /\ clips' = clips \cup NewClips(found)
        /\ Goto(IF found = {} THEN "stop" ELSE "clip")
        /\ UNCHANGED <<heard, from, paused, recorder, thread, faults, stops>>

\* A clip: write_spooled_clip, the thermal policy, and unless paused the encoding
\* and the upload.  should_pause_processing resumes below a lower temperature
\* than it pauses at; a load that is too high pauses at any temperature.
Weather == {"cool", "warm", "hot", "unknown"}

ShouldPause(temp, busy) ==
    \/ busy
    \/ temp = "hot"
    \/ temp = "warm" /\ paused

Afterwards == IF main.ended THEN "stop" ELSE "read"

HandleClip(temp, busy) ==
    /\ main.pc = "clip"
    /\ paused' = ShouldPause(temp, busy)
    /\ Goto(IF ShouldPause(temp, busy) THEN Afterwards ELSE "upload")
    /\ UNCHANGED <<heard, from, sound, recorder, thread, faults, stops>>

UploadClip ==
    /\ main.pc = "upload"
    /\ Goto(Afterwards)
    /\ UNCHANGED <<heard, from, sound, paused, recorder, thread, faults, stops>>

\* The encoder, the upload or the live feed's pipe fails: the exception leaves the
\* loop, whose finally clause stops the worker.  The recorder is still open.
MainFails ==
    /\ main.pc \in {"upload", "listen"}
    /\ stops < MaxStops
    /\ stops' = stops + 1
    /\ main' = [main EXCEPT !.pc = "stop", !.ended = FALSE]
    /\ UNCHANGED <<heard, from, sound, paused, recorder, thread, faults>>

-----------------------------------------------------------------------------
\* Mutant: the stop mark is dropped when the queue is full.
StopWorkerOrNot ==
    /\ main.pc = "stop"
    /\ queue' = IF Len(queue) < QueueSize THEN Append(queue, Stop) ELSE queue
    /\ Goto("join")
    /\ UNCHANGED <<heard, from, sound, paused, recorder, worker, fate, faults, stops>>

\* SegmentUploadWorker.close: the stop mark waits for a place in the queue.
StopWorker ==
    /\ main.pc = "stop"
    /\ Len(queue) < QueueSize
    /\ queue' = Append(queue, Stop)
    /\ Goto("join")
    /\ UNCHANGED <<heard, from, sound, paused, recorder, worker, fate, faults, stops>>

\* The interpreter waits for the worker's thread whatever join() waited for.  When
\* the main thread failed, the recorder is closed with its frame, if at all, and
\* offers its segment to a worker that is gone.
Exit ==
    /\ main.pc = "join" /\ worker.pc = "done"
    /\ main' = [main EXCEPT !.pc = "down",
                            !.exit = IF main.ended THEN "clean" ELSE "failed"]
    /\ \/ UNCHANGED files
       \/ segment # 0 /\ files' = [files EXCEPT ![segment] = "complete"]
    /\ UNCHANGED <<heard, from, sound, paused, segment, thread, faults, stops>>

Kill ==
    /\ main.pc # "down"
    /\ stops < MaxStops
    /\ stops' = stops + 1
    /\ main' = [main EXCEPT !.pc = "down", !.exit = "killed"]
    /\ UNCHANGED <<heard, from, sound, paused, recorder, thread, faults>>

\* A new process knows nothing of the one before it, and looks for no files.
Restart ==
    /\ main.pc = "down" /\ Now < MaxFrames
    /\ from' = Now + 1
    /\ main' = [pc |-> "read", ended |-> FALSE, exit |-> "none"]
    /\ detector' = Silent /\ live' = Unrendered /\ played' = <<>>
    /\ paused' = FALSE
    /\ segment' = 0
    /\ queue' = <<>> /\ worker' = [pc |-> "idle", seg |-> 0]
    /\ UNCHANGED <<heard, clips, files, fate, faults, stops>>

-----------------------------------------------------------------------------
\* The worker.
Working(pc) == main.pc # "down" /\ worker.pc = pc

Take ==
    /\ Working("idle") /\ queue # <<>>
    /\ queue' = Tail(queue)
    /\ worker' = IF Head(queue) = Stop THEN [pc |-> "done", seg |-> 0]
                                       ELSE [pc |-> "upload", seg |-> Head(queue)]
    /\ UNCHANGED <<heard, from, main, sound, paused, recorder, fate, faults, stops>>

Idle == worker' = [pc |-> "idle", seg |-> 0]

\* What an upload can come to: the clip is registered, then its audio is put.  Both
\* files may have expired; a request may fail, or be answered too late.
Outcomes(s) ==
    (IF files[s] = "complete" THEN {{"registered", "uploaded"}} ELSE {})
    \cup (IF files[s] # "complete" \/ faults < MaxFaults
          THEN {{"failed"}, {"registered", "failed"}} ELSE {})
    \cup (IF files[s] = "complete" /\ faults < MaxFaults
          THEN {{"registered", "uploaded", "failed"}} ELSE {})

\* upload; what fails is logged and not tried again.
UploadSegment(outcome) ==
    /\ fate' = [fate EXCEPT ![worker.seg] = @ \cup outcome]
    /\ IF "failed" \in outcome \/ ~DeleteAfterUpload
       THEN Idle
       ELSE worker' = [worker EXCEPT !.pc = "audio"]
    /\ faults' = IF "failed" \in outcome /\ files[worker.seg] = "complete"
                 THEN faults + 1 ELSE faults
    /\ UNCHANGED <<heard, from, main, sound, paused, recorder, queue, stops>>

RemoveAudio ==
    /\ Working("audio")
    /\ files' = [files EXCEPT ![worker.seg] =
                    IF @ = "complete" THEN "metadata" ELSE "none"]
    /\ worker' = [worker EXCEPT !.pc = "metadata"]
    /\ UNCHANGED <<heard, from, main, sound, paused, segment, queue, fate, faults, stops>>

RemoveMetadata ==
    /\ Working("metadata")
    /\ files' = [files EXCEPT ![worker.seg] = "none"]
    /\ Idle
    /\ UNCHANGED <<heard, from, main, sound, paused, segment, queue, fate, faults, stops>>

-----------------------------------------------------------------------------
MainStep == \/ NameAudio \/ NameMetadata \/ HandOver \/ Listen \/ Flush
            \/ \E temp \in Weather, busy \in BOOLEAN : HandleClip(temp, busy)
            \/ UploadClip \/ StopWorker \/ Exit

WorkerStep == \/ Take
              \/ Working("upload") /\ \E outcome \in Outcomes(worker.seg) :
                                       UploadSegment(outcome)
              \/ RemoveAudio \/ RemoveMetadata

CaptureNext ==
    /\ \/ \E kind \in Kind(Now + 1, recording) : ReadFrame(kind)
       \/ EndOfStream \/ MainStep \/ MainFails \/ WorkerStep \/ Kill \/ Restart
    /\ UNCHANGED recording

CaptureSpec == Init /\ [][CaptureNext]_vars

-----------------------------------------------------------------------------
\* Every variable has its type.
EdgeTypeOK ==
    /\ heard \in Seq(Kinds) /\ from \in 1 .. MaxFrames + 1
    /\ main.pc \in {"read", "close", "describe", "hand", "listen", "flush",
                    "clip", "upload", "stop", "join", "down"}
    /\ segment \in 0 .. MaxFrames
    /\ files \in [1 .. MaxFrames -> FileStates]
    /\ Len(queue) <= QueueSize
    /\ \A p \in DOMAIN queue : queue[p] \in 0 .. MaxFrames
    /\ worker.pc \in {"idle", "upload", "audio", "metadata", "done"}
    /\ fate \in [1 .. MaxFrames -> SUBSET {"registered", "uploaded", "failed", "refused"}]

\* The frames this process has put through the squelches.
Listened == from .. from + Len(played) + Len(live.delayed) - 1

Covered(i) == \/ \E c \in clips : i \in c.first .. c.last
              \/ \E p \in DOMAIN detector.frames : detector.frames[p].at = i

Voice(i) == heard[i] = "voice"

\* Clips are what their times say: whole runs of frames, loud at both ends, within
\* the limits, never two of one moment, without a pause of PostRoll inside; and
\* speech of at least MinClip frames in a row is always heard in part.
ClipsMatchActivity ==
    /\ \A c \in clips :
          /\ c.last = c.first + c.length - 1
          /\ c.first >= c.from
          /\ Voice(c.first) /\ Voice(c.last)
          /\ c.length \in MinClip .. MaxClip
          /\ PostRoll > 0 =>
                \A i \in c.first .. c.last - PostRoll :
                    \E j \in i .. i + PostRoll - 1 : Voice(j)
    /\ \A c, d \in clips : c = d \/ c.last < d.first \/ d.last < c.first
    /\ \A i \in Listened :
          LET run == i .. i + MinClip - 1
          IN  run \subseteq Listened /\ (\A j \in run : Voice(j))
                  => \E j \in run : Covered(j)

\* The live feed has every frame once, in order and Lookahead late, and a frame is
\* heard when speech came at most PostRoll frames before it and no static since.
Opened(i) == \E j \in from .. i : /\ Voice(j) /\ i - j <= PostRoll
                                  /\ \A k \in j .. i : heard[k] # "static"

LiveFeedIsRight ==
    /\ \A p \in DOMAIN played : /\ played[p].at = from + p - 1
                                /\ played[p].audible = Opened(from + p - 1)
    /\ main.pc = "read" => Len(played) + Min({Lookahead, Now + 1 - from}) = Now + 1 - from

\* When a process stops at the end of its stream, every frame it heard is in a
\* segment that was uploaded, failed, was refused by the full queue, or expired.
CleanStopHandsOver ==
    recording /\ main.pc = "down" /\ main.exit = "clean" =>
        \A s \in from .. Now :
            (s - from) % SegmentFrames = 0 => fate[s] # {} /\ files[s] # "tmp"

\* What the squelches hear and let through is right (detect_activity_clips,
\* squelched_pcm_chunk_stream).
ActivityIsRight == ClipsMatchActivity /\ LiveFeedIsRight

\* Every segment of a process that stops at the end of its stream is dealt with, and
\* the variables have their types (ContinuousWavRecorder, SegmentUploadWorker).
SegmentsAreRight == EdgeTypeOK /\ CleanStopHandsOver

\* A process whose stream has ended stops in the end, although the stop mark has
\* to wait for a place in the queue.
EndedStreamStops == main.ended ~> main.pc = "down"

=============================================================================
