------------------------------ MODULE HlsPublisher ------------------------------
(***************************************************************************)
(* hls_publisher.py: a loop that mirrors the directory of one HLS stream   *)
(* to the bucket.  Every pass lists the files, uploads those whose size or *)
(* time is another than when they were last uploaded, the playlist before  *)
(* the segments as its path sorts first, and deletes the segments that are *)
(* not there any more.  The encoder writes segments and replaces the       *)
(* playlist meanwhile, and removes old segments.                           *)
(***************************************************************************)
EXTENDS Integers, FiniteSets, FiniteSetsExt

CONSTANTS ListSize,     \* segments of the playlist
          MaxSegments,  \* bound: segments of the stream
          MaxFaults     \* bound: uploads that fail, kills

VARIABLES files,      \* segments in the directory: segment -> "part" or "whole"
          playlist,   \* the segments current.m3u8 names
          bucket,     \* segments in the bucket, like files
          shown,      \* the segments its playlist names
          published,  \* what the process remembers: segment -> fingerprint
          noted,      \* and the playlist it remembers
          pc,         \* "start", "playlist", "segments", "put", "rest"
          stat,       \* the fingerprint of the segment that is put
          todo,       \* the files of this pass still to come
          listed,     \* the segments of this pass
          recent,     \* segments that have appeared since the directory was listed
          faults

dir == <<files, playlist>>
remote == <<bucket, shown>>
memory == <<published, noted>>
vars == <<dir, remote, memory, pc, stat, todo, listed, recent, faults>>

NoFiles == [s \in {} |-> "whole"]
NoList == {}

Init ==
    /\ files = NoFiles /\ playlist = NoList
    /\ bucket = NoFiles /\ shown = NoList
    /\ published = NoFiles /\ noted = NoList
    /\ pc = "start" /\ stat = "none" /\ todo = {} /\ listed = {} /\ recent = {} /\ faults = 0

With(f, s, v) == [t \in DOMAIN f \cup {s} |-> IF t = s THEN v ELSE f[t]]
Less(f, s) == [t \in DOMAIN f \ {s} |-> f[t]]

-----------------------------------------------------------------------------
\* The encoder: a segment is begun when the one before is finished, and named by
\* the playlist when it is finished itself; the oldest goes when it is not named.
Newest == Max(DOMAIN files \cup {0})
Mirror == UNCHANGED <<remote, memory, pc, stat, todo, listed, faults>>

BeginSegment ==
    /\ Newest < MaxSegments /\ \A s \in DOMAIN files : files[s] = "whole" /\ Newest \in playlist \cup {0}
    /\ files' = With(files, Newest + 1, "part") /\ recent' = recent \cup {Newest + 1}
    /\ UNCHANGED playlist /\ Mirror

FinishSegment ==
    /\ Newest > 0 /\ files[Newest] = "part"
    /\ files' = With(files, Newest, "whole")
    /\ UNCHANGED <<playlist, recent>> /\ Mirror

ReplacePlaylist ==
    /\ Newest > 0 /\ files[Newest] = "whole" /\ Newest \notin playlist
    /\ playlist' = {s \in DOMAIN files : s > Newest - ListSize}
    /\ UNCHANGED <<files, recent>> /\ Mirror

RemoveSegment ==
    /\ \E s \in DOMAIN files : s < Newest /\ s \notin playlist /\ files' = Less(files, s)
    /\ UNCHANGED <<playlist, recent>> /\ Mirror

-----------------------------------------------------------------------------
\* publish_once
Pass(place, then) == pc = place /\ pc' = then /\ UNCHANGED dir

BeginPass ==
    /\ pc \in {"start", "rest"} /\ pc' = "playlist" /\ UNCHANGED dir
    /\ listed' = DOMAIN files /\ todo' = DOMAIN files /\ recent' = {}
    /\ UNCHANGED <<remote, memory, stat, faults>>

\* Two playlists that are not the same differ in size or time.
UploadPlaylist ==
    /\ Pass("playlist", "segments")
    /\ IF noted = playlist THEN UNCHANGED <<shown, noted>>
       ELSE shown' = playlist /\ noted' = playlist
    /\ UNCHANGED <<bucket, published, stat, todo, listed, recent, faults>>

\* The size and the time of a segment are read first, then the segment.
Look ==
    /\ pc = "segments" /\ todo # {} /\ Min(todo) \in DOMAIN files
    /\ LET s == Min(todo) IN
       IF s \in DOMAIN published /\ published[s] = files[s]
       THEN todo' = todo \ {s} /\ UNCHANGED <<pc, stat>>
       ELSE pc' = "put" /\ stat' = files[s] /\ UNCHANGED todo
    /\ UNCHANGED <<dir, remote, memory, listed, recent, faults>>

\* Mutant: the segment is read first, then its size and time.
PutReadBefore ==
    /\ pc = "put" /\ Min(todo) \in DOMAIN files
    /\ Pass("put", "segments")
    /\ LET s == Min(todo) IN
       /\ bucket' = With(bucket, s, stat) /\ published' = With(published, s, files[s])
       /\ todo' = todo \ {s} /\ stat' = "none"
    /\ UNCHANGED <<shown, noted, listed, recent, faults>>

Put ==
    /\ pc = "put" /\ Min(todo) \in DOMAIN files
    /\ Pass("put", "segments")
    /\ LET s == Min(todo) IN
       /\ bucket' = With(bucket, s, files[s]) /\ published' = With(published, s, stat)
       /\ todo' = todo \ {s} /\ stat' = "none"
    /\ UNCHANGED <<shown, noted, listed, recent, faults>>

Gone == DOMAIN published \ listed

Delete ==
    /\ pc = "segments" /\ todo = {} /\ Gone # {}
    /\ bucket' = Less(bucket, Min(Gone)) /\ published' = Less(published, Min(Gone))
    /\ UNCHANGED <<dir, shown, noted, pc, stat, todo, listed, recent, faults>>

EndPass ==
    /\ todo = {} /\ Gone = {} /\ Pass("segments", "rest")
    /\ listed' = {}
    /\ UNCHANGED <<remote, memory, stat, todo, recent, faults>>

\* The process ends when a file it has listed is gone, and when a request fails;
\* the next one remembers nothing.
Ends ==
    /\ pc \notin {"start", "rest"}
    /\ \/ pc \in {"segments", "put"} /\ todo # {} /\ Min(todo) \notin DOMAIN files
          /\ UNCHANGED faults
       \/ faults < MaxFaults /\ faults' = faults + 1
    /\ published' = NoFiles /\ noted' = NoList /\ stat' = "none"
    /\ pc' = "start" /\ todo' = {} /\ listed' = {} /\ recent' = {}
    /\ UNCHANGED <<dir, remote>>

Next ==
    \/ BeginSegment \/ FinishSegment \/ ReplacePlaylist \/ RemoveSegment
    \/ BeginPass \/ UploadPlaylist \/ Look \/ Put \/ Delete \/ EndPass \/ Ends

Spec == Init /\ [][Next]_vars

-----------------------------------------------------------------------------
\* After a pass, a player finds every segment the playlist in the bucket names,
\* finished, but those that have appeared since the pass listed the directory; the
\* process has forgotten no segment it put there (hls_publisher.py 43-77).
StreamIsWhole ==
    pc = "rest" =>
        /\ \A s \in shown \ recent : s \in DOMAIN bucket /\ bucket[s] = "whole"
        /\ DOMAIN published \subseteq DOMAIN bucket
=============================================================================
