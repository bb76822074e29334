----------------------------- MODULE SpoolUploader -----------------------------
(***************************************************************************)
(* The edge uploader: receivers leave recordings in a spool directory, and *)
(* a daemon polls it, sweeps out what it will not send, merges neighbours, *)
(* uploads the newest first and removes what was sent                      *)
(* (process_spool_once in src/src/talkingboats/spool_uploader.py).  The    *)
(* daemon keeps nothing between polls but the files, may crash between any *)
(* two file operations, and an upload may fail before or after the object  *)
(* has landed in the bucket.  Times are whole ticks.                       *)
(***************************************************************************)
EXTENDS Integers, FiniteSets, SequencesExt

CONSTANTS
    Clips,          \* recordings, numbered so that <= breaks ties of start
    Recording,      \* clip -> [channel, start, end], end may be NoTime
    NoTime,         \* the end of a clip whose duration cannot be probed
    MergeGap,       \* --merge-gap-seconds
    MaxSpan,        \* --merge-max-duration-seconds
    MinDuration,    \* --min-duration-seconds
    Second,         \* ticks per second
    Empty,          \* recordings of zero bytes
    MaxFiles,       \* --max-files-per-poll
    MaxRetained,    \* --max-retained-files
    MaxChannels,    \* --max-synchronous-channels, 0 to disable
    MaxFailures,    \* bound: uploads that fail before the object lands
    MaxTroubles     \* bound: uploads that fail after it has landed, crashes

ASSUME GroupingAssumption ==
    /\ Clips \subseteq Nat /\ IsFiniteSet(Clips)
    /\ MergeGap \in Nat /\ MaxSpan \in Nat \ {0} /\ MinDuration \in Nat
    /\ Second \in Nat \ {0}
    /\ \A c \in Clips :
          LET start == Recording[c].start
              end   == Recording[c].end
          IN  start \in Nat /\ end \in Nat \cup {NoTime} /\ (end # NoTime => end >= start)

ASSUME SpoolAssumption ==
    /\ Empty \subseteq Clips
    /\ MaxFiles \in Nat \ {0}
    /\ {MaxRetained, MaxChannels, MaxFailures, MaxTroubles} \subseteq Nat

VARIABLES
    spool,      \* what became of each recording's file
    stable,     \* files that have not been written to for --min-age-seconds
    bucket,     \* uploaded objects: the sets of recordings merged in each
    uploader,   \* the daemon
    failures,   \* uploads that failed before the object landed, so far
    troubles    \* lost answers and crashes so far

vars == <<spool, stable, bucket, uploader, failures, troubles>>

-----------------------------------------------------------------------------
(* How neighbouring recordings are merged into one clip:                   *)
(* group_completed_audio_clips and its helpers.                            *)

Channel(c) == Recording[c].channel
Start(c)   == Recording[c].start
End(c)     == Recording[c].end

Earlier(c, d) == Start(c) < Start(d) \/ (Start(c) = Start(d) /\ c < d)

ByStart(S) ==
    CHOOSE s \in SetToSeqs(S) : \A i, j \in DOMAIN s : i < j => Earlier(s[i], s[j])

\* A group is the sequence of its members; it ends when its last one ends.
GroupStart(g) == Start(Head(g))
GroupEnd(g)   == End(Last(g))

\* The silence between the group and a later recording allows a merge.
Follows(start, g) ==
    GroupEnd(g) # NoTime /\ start - GroupEnd(g) \in 0 .. MergeGap

Joins(c, g) ==
    Follows(Start(c), g) /\ End(c) # NoTime /\ End(c) - GroupStart(g) <= MaxSpan

\* One clip more, in order of start: it joins the last group or opens one.
AddClip(groups, c) ==
    IF groups # <<>> /\ Joins(c, Last(groups))
    THEN Append(Front(groups), Append(Last(groups), c))
    ELSE Append(groups, <<c>>)

Merged(clips) == Range(FoldLeft(AddClip, <<>>, clips))

ByChannel(S) == {ByStart({c \in S : Channel(c) = Channel(d)}) : d \in S}

Groups(S) == UNION {Merged(clips) : clips \in ByChannel(S)}

IsShort(g) == GroupEnd(g) # NoTime /\ GroupEnd(g) - GroupStart(g) < MinDuration

-----------------------------------------------------------------------------
(* What a grouping should be, without the order in which it is computed.   *)

Neighbours(S, c, d) ==
    /\ Channel(c) = Channel(d) /\ Earlier(c, d)
    /\ ~ \E e \in S : Channel(e) = Channel(c) /\ Earlier(c, e) /\ Earlier(e, d)

\* The groups are runs of neighbouring clips that cover S once, every member
\* may join those before it, and no group could have taken the clip after it.
IsGrouping(S, groups) ==
    /\ \A c \in S : Cardinality({g \in groups : c \in Range(g)}) = 1
    /\ \A g \in groups : Range(g) \subseteq S
    /\ \A g \in groups : \A i \in 1 .. Len(g) - 1 :
          Neighbours(S, g[i], g[i + 1]) /\ Joins(g[i + 1], SubSeq(g, 1, i))
    /\ \A g \in groups, c \in S : Neighbours(S, Last(g), c) => ~Joins(c, g)

-----------------------------------------------------------------------------
Idle == [pc |-> "idle", aged |-> {}, groups |-> {},
         removing |-> <<>>, reason |-> "sent"]

Init ==
    /\ spool = [c \in Clips |-> "unrecorded"]
    /\ stable = {}
    /\ bucket = {}
    /\ uploader = Idle
    /\ failures = 0
    /\ troubles = 0

Spooled == {c \in Clips : spool[c] = "spooled"}

\* The n newest of S.
Newest(S, n) == {c \in S : Cardinality({d \in S : Earlier(c, d)}) < n}

-----------------------------------------------------------------------------
(* The receiver: a file gets its final name when it is complete, in the    *)
(* order of recording on each channel, and then ages.                      *)

Before(c) == {d \in Clips : Channel(d) = Channel(c) /\ Earlier(d, c)}

Record(c) ==
    /\ spool[c] = "unrecorded"
    /\ \A d \in Before(c) : spool[d] # "unrecorded"
    /\ spool' = [spool EXCEPT ![c] = "spooled"]
    /\ UNCHANGED <<stable, bucket, uploader, failures, troubles>>

Age(c) ==
    /\ c \in Spooled \ stable
    /\ Before(c) \subseteq stable
    /\ stable' = stable \cup {c}
    /\ UNCHANGED <<spool, bucket, uploader, failures, troubles>>

-----------------------------------------------------------------------------
(* One poll.  Whether a file is old enough is judged by the "now" taken at *)
(* its start, so the stable files of that moment are kept in "aged".       *)

\* prune_completed_audio_files counts from the newest recording.
Pruned(aged) == (aged \ Empty) \ Newest(aged \ Empty, MaxRetained)

\* quarantine_stale_empty_audio_files.
Quarantined(aged) == aged \cap Empty

Sweep ==
    /\ uploader.pc = "idle"
    /\ \E aged \in {stable \cap Spooled} :
          /\ spool' = [c \in Clips |->
                         IF c \in Quarantined(aged) THEN "failed"
                         ELSE IF c \in Pruned(aged) THEN "pruned"
                         ELSE spool[c]]
          /\ uploader' = [Idle EXCEPT !.pc = "discover", !.aged = aged]
    /\ UNCHANGED <<stable, bucket, failures, troubles>>

\* Clips that began in the same second on more channels than can be real.
Burst(S) ==
    IF MaxChannels = 0 THEN {}
    ELSE {c \in S : Cardinality({Channel(d) : d \in
                      {e \in S : Start(e) \div Second = Start(c) \div Second}})
                        > MaxChannels}

\* discover_completed_audio_files.
Discovered == Newest((uploader.aged \cap Spooled) \ Empty, MaxFiles)

\* The burst guard and the grouping of what was discovered.
Discover ==
    /\ uploader.pc = "discover"
    /\ \E found \in {Discovered} :
       \E burst \in {Burst(found)} :
          uploader' = [uploader EXCEPT
                         !.pc = "hold",
                         !.groups = Groups(found \ burst),
                         !.removing = Reverse(ByStart(burst)),
                         !.reason = "burst"]
    /\ UNCHANGED <<spool, stable, bucket, failures, troubles>>

\* _discard_spooled_clip and quarantine_spooled_clip, one file at a time.
RemoveFile ==
    /\ uploader.removing # <<>>
    /\ spool' = [spool EXCEPT ![Head(uploader.removing)] = uploader.reason]
    /\ uploader' = [uploader EXCEPT !.removing = Tail(@)]
    /\ UNCHANGED <<stable, bucket, failures, troubles>>

\* Mutant: a follower holds the group back however old it has become.
HeldAlways(g) ==
    \E c \in stable : Channel(c) = Channel(Head(g)) /\ Follows(Start(c), g)

\* A younger recording may still join the group.
Held(g) ==
    \E c \in Spooled \ uploader.aged :
        Channel(c) = Channel(Head(g)) /\ Follows(Start(c), g)

\* discover_pending_audio_starts: a group waits for a younger recording that
\* may still join it.
Hold ==
    /\ uploader.pc = "hold"
    /\ uploader.removing = <<>>
    /\ uploader' = [uploader EXCEPT !.pc = "upload",
                                    !.groups = {g \in @ : ~Held(g)}]
    /\ UNCHANGED <<spool, stable, bucket, failures, troubles>>

\* The newest group left is in hand: its files are removed for the reason
\* given, or (an upload that raised) stay for a later poll.
InHand(g) ==
    /\ uploader.pc = "upload"
    /\ uploader.removing = <<>>
    /\ g \in uploader.groups
    /\ \A h \in uploader.groups : GroupStart(h) <= GroupStart(g)

\* Mutant: the files of the group stay in the spool.
DoneButSpooled(g, reason) ==
    uploader' = [uploader EXCEPT !.groups = @ \ {g}]

Done(g, reason) ==
    uploader' = [uploader EXCEPT !.groups = @ \ {g}, !.removing = g,
                                 !.reason = reason]

\* Mutant: the files are removed whether or not the upload raised.
KeptNowhere(g) ==
    uploader' = [uploader EXCEPT !.groups = @ \ {g}, !.removing = g,
                                 !.reason = "sent"]

Kept(g) == uploader' = [uploader EXCEPT !.groups = @ \ {g}]

DiscardShort(g) ==
    /\ InHand(g)
    /\ IsShort(g)
    /\ Done(g, "short")
    /\ UNCHANGED <<spool, stable, bucket, failures, troubles>>

\* ffmpeg rejects a member or the merged audio.
Quarantine(g) ==
    /\ InHand(g)
    /\ ~IsShort(g)
    /\ Done(g, "failed")
    /\ UNCHANGED <<spool, stable, bucket, failures, troubles>>

\* The object's key is made of the channel, the start and the members, so
\* sending the same group again replaces the same object.
Upload(g) ==
    /\ InHand(g)
    /\ ~IsShort(g)
    /\ bucket' = bucket \cup {Range(g)}
    /\ Done(g, "sent")
    /\ UNCHANGED <<spool, stable, failures, troubles>>

UploadFails(g) ==
    /\ InHand(g)
    /\ ~IsShort(g)
    /\ failures < MaxFailures
    /\ failures' = failures + 1
    /\ Kept(g)
    /\ UNCHANGED <<spool, stable, bucket, troubles>>

\* The PUT landed but its answer was lost.
UploadUnanswered(g) ==
    /\ InHand(g)
    /\ ~IsShort(g)
    /\ troubles < MaxTroubles
    /\ troubles' = troubles + 1
    /\ bucket' = bucket \cup {Range(g)}
    /\ Kept(g)
    /\ UNCHANGED <<spool, stable, failures>>

Finish ==
    /\ uploader.pc = "upload"
    /\ uploader.removing = <<>>
    /\ uploader.groups = {}
    /\ uploader' = Idle
    /\ UNCHANGED <<spool, stable, bucket, failures, troubles>>

Crash ==
    /\ uploader # Idle
    /\ troubles < MaxTroubles
    /\ troubles' = troubles + 1
    /\ uploader' = Idle
    /\ UNCHANGED <<spool, stable, bucket, failures>>

-----------------------------------------------------------------------------
Settle(g) == DiscardShort(g) \/ Quarantine(g) \/ Upload(g)
               \/ UploadFails(g) \/ UploadUnanswered(g)

Step == Sweep \/ Discover \/ RemoveFile \/ Hold \/ Finish
          \/ \E g \in uploader.groups : Settle(g)

Next ==
    \/ \E c \in Clips : Record(c) \/ Age(c)
    \/ Step
    \/ Crash

Spec == Init /\ [][Next]_vars

\* The daemon is kept running and files that are left alone grow old.
FairSpec == Spec /\ WF_vars(Step) /\ WF_vars(\E c \in Clips : Age(c))

-----------------------------------------------------------------------------
(* Properties.                                                             *)

Reasons == {"sent", "failed", "short", "burst", "pruned"}

\* Every variable has the shape the code gives it; the daemon's groups are
\* disjoint and made of files that are still in the spool.
TypeOK ==
    /\ spool \in [Clips -> {"unrecorded", "spooled"} \cup Reasons]
    /\ stable \subseteq Clips
    /\ \A object \in bucket : object # {} /\ object \subseteq Clips
    /\ uploader.pc \in {"idle", "discover", "hold", "upload"}
    /\ uploader.aged \subseteq stable
    /\ \A g \in uploader.groups : g # <<>> /\ Range(g) \subseteq Spooled
    /\ Range(uploader.removing) \subseteq Spooled
    /\ uploader.reason \in Reasons
    /\ failures \in 0 .. MaxFailures
    /\ troubles \in 0 .. MaxTroubles

Recorded == {c \in Clips : spool[c] # "unrecorded"}

\* A recording leaves the spool only when an object in the bucket holds its
\* audio, or for a reason the code gives: it is by itself too short, more
\* channels than are possible opened in its second, or enough newer
\* recordings exist.  Crashes and failed uploads never lose one.
NothingLost ==
    \A c \in Clips :
        /\ spool[c] = "sent"  => c \in UNION bucket
        /\ spool[c] = "short" => IsShort(<<c>>)
        /\ spool[c] = "burst" => c \in Burst(Recorded)
        /\ spool[c] = "pruned" =>
              Cardinality({d \in Recorded : Earlier(c, d)}) >= MaxRetained

\* No recording is part of two uploaded clips: "a stable group idempotency
\* key, so a retry cannot create a duplicate clip" (docs/deployment-hygiene.md).
NoDuplicateAudio ==
    \A x, y \in bucket : x # y => x \cap y = {}

\* Retries after uploads that failed before the object landed never make a
\* duplicate, whatever else was recorded in between.
RetriesMakeNoDuplicate ==
    troubles = 0 => NoDuplicateAudio

\* The groups found in a poll are the merge the documentation describes: runs
\* of neighbours within the gap and the span, as long as they can be.
GroupsAreRight ==
    uploader.pc = "hold" =>
        IsGrouping(UNION {Range(g) : g \in uploader.groups}, uploader.groups)

\* Recordings leave the spool uploaded or for a reason, what is uploaded are groups
\* that the limits allow, and the variables have their types (drain_once).
DeliveryIsRight == TypeOK /\ NothingLost /\ GroupsAreRight

\* Every recording leaves the spool in the end (once the receiver is quiet it
\* is empty), although newer ones go first, groups are held back for followers,
\* and uploads fail for a while.
SpoolDrains == []<>(Spooled = {})
=============================================================================
