------------------------------- MODULE Retention -------------------------------
(***************************************************************************)
(* The retention of the raw recordings.  A rule of the bucket expires the  *)
(* recordings tagged featured=false.  A request of the operator stars a    *)
(* clip, or takes the star away, in the store and then tags the recording  *)
(* (feature_clip); the tool retention.py reads the starred clips page by   *)
(* page, lists the recordings, and tags every one with what it has read.   *)
(***************************************************************************)
EXTENDS Integers, FiniteSets

CONSTANTS Clips,       \* numbers, later clips are greater
          PageSize,
          MaxRequests, \* bound: the operator's requests
          MaxRuns,     \* bound: runs of the tool
          MaxFaults    \* bound: calls of S3 and of the store that fail

VARIABLES stars,        \* the clips that are featured in the store
          quarantined,  \* the clips the quality gate has put away
          tags,         \* the recordings tagged featured=true
          request,      \* one between store and tag: [clip, star], or None
          requests,     \* how many there have been
          tool,         \* where the tool is: "idle", "read", "list", "tag"
          offset, featured, \* its reading
          left,         \* keys it still tags
          runs, faults,
          crossed,      \* clips whose star was changed beside a run of the tool
          shrunk,       \* whether the list of starred clips lost one while it was read
          excused       \* clips whose tag cannot be expected to be right

vars == <<stars, quarantined, tags, request, requests, tool, offset, featured, left,
          runs, faults, crossed, shrunk, excused>>

reading == <<tool, offset, featured, left, runs>>

None == [clip |-> 0]

Init ==
    /\ stars = {} /\ quarantined = {} /\ tags = {}
    /\ request = None /\ requests = 0
    /\ tool = "idle" /\ offset = 0 /\ featured = {} /\ left = {} /\ runs = 0 /\ faults = 0
    /\ crossed = {} /\ shrunk = FALSE /\ excused = {}

Fault == faults < MaxFaults /\ faults' = faults + 1

-----------------------------------------------------------------------------
\* feature_clip: set_clip_featured finds visible clips only.  The event loop of the
\* API answers one such request at a time, but the tool is a process of its own.
Feature(c, star) ==
    /\ request = None /\ requests < MaxRequests /\ requests' = requests + 1
    /\ c \notin quarantined
    /\ stars' = IF star THEN stars \cup {c} ELSE stars \ {c}
    /\ request' = [clip |-> c, star |-> star]
    /\ crossed' = IF tool = "idle" THEN crossed ELSE crossed \cup {c}
    /\ shrunk' = (shrunk \/ (tool = "read" /\ ~star /\ c \in stars))
    /\ UNCHANGED <<quarantined, tags, reading, faults, excused>>

\* tag_raw_clip_featured, the request's call of it; it fails, or the API is stopped.
TagRequested ==
    LET c == request.clip IN
    /\ request # None /\ request' = None
    /\ \/ /\ tags' = IF request.star THEN tags \cup {c} ELSE tags \ {c}
          /\ excused' = excused \ {c}
          /\ UNCHANGED faults
       \/ /\ Fault /\ excused' = excused \cup {c} /\ UNCHANGED tags
    /\ UNCHANGED <<stars, quarantined, requests, reading, crossed, shrunk>>

\* A fallback transcription puts a clip away; it keeps its star.
Quarantine(c) ==
    /\ c \notin quarantined /\ quarantined' = quarantined \cup {c}
    /\ shrunk' = (shrunk \/ (tool = "read" /\ c \in stars))
    /\ UNCHANGED <<stars, tags, request, requests, reading, faults, crossed, excused>>

-----------------------------------------------------------------------------
\* tag_raw_audio_retention
ToolStep == UNCHANGED <<stars, quarantined, request, requests>>

BeginTool ==
    /\ tool = "idle" /\ runs < MaxRuns /\ runs' = runs + 1
    /\ tool' = "read" /\ offset' = 0 /\ featured' = {}
    /\ crossed' = {} /\ shrunk' = FALSE
    /\ ToolStep /\ UNCHANGED <<tags, left, faults, excused>>

\* recent_transcribed(featured_only): from the newest on, visible clips
Visible == stars \ quarantined

Place(c) == Cardinality({d \in Visible : d > c})

Page == {c \in Visible : Place(c) \in offset .. offset + PageSize - 1}

\* _featured_clip_keys: the first page that is not full is the last.
Read ==
    /\ tool = "read"
    /\ featured' = featured \cup Page
    /\ IF Cardinality(Visible) < offset + PageSize THEN tool' = "list" /\ UNCHANGED offset
       ELSE offset' = offset + PageSize /\ UNCHANGED tool
    /\ ToolStep /\ UNCHANGED <<tags, left, runs, faults, crossed, shrunk, excused>>

\* iter_raw_audio_keys; a recording stays where it is.
List ==
    /\ tool = "list" /\ tool' = "tag" /\ left' = Clips
    /\ ToolStep /\ UNCHANGED <<tags, offset, featured, runs, faults, crossed, shrunk, excused>>

\* apply_tag, by one of the threads; when a call fails the others still go on.
Misread(c) == c \in crossed \/ (c \in stars /\ (shrunk \/ c \in quarantined))

Tag(c) ==
    /\ tool = "tag" /\ c \in left /\ left' = left \ {c}
    /\ tool' = IF left = {c} THEN "idle" ELSE "tag"
    /\ \/ /\ tags' = IF c \in featured THEN tags \cup {c} ELSE tags \ {c}
          /\ excused' = IF Misread(c) THEN excused \cup {c} ELSE excused \ {c}
          /\ UNCHANGED faults
       \/ Fault /\ UNCHANGED <<tags, excused>>
    /\ IF left = {c} THEN featured' = {} /\ offset' = 0 /\ crossed' = {} /\ shrunk' = FALSE
       ELSE UNCHANGED <<featured, offset, crossed, shrunk>>
    /\ ToolStep /\ UNCHANGED runs

ToolFails ==
    /\ tool \in {"read", "list"} /\ Fault /\ tool' = "idle"
    /\ ToolStep
    /\ UNCHANGED <<tags, offset, featured, left, runs, crossed, shrunk, excused>>

Next ==
    \/ \E c \in Clips, star \in BOOLEAN : Feature(c, star)
    \/ TagRequested
    \/ BeginTool \/ Read \/ List \/ ToolFails
    \/ \E c \in Clips : Quarantine(c) \/ Tag(c)

Spec == Init /\ [][Next]_vars

-----------------------------------------------------------------------------
\* Between requests and runs of the tool a recording is kept exactly when its clip
\* is starred.  Excused are the clips of a failed tag,
\* those whose star was changed beside a run, and the starred clips of a run that
\* cannot see them: put away, or pushed out of the page when another star went
\* (retention.py 17-95, api.py 843-880).
RetentionFollowsStars ==
    tool = "idle" /\ request = None =>
        tags \ excused = stars \ excused
=============================================================================
