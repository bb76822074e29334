----------------------------- MODULE MCQueueProgress -----------------------------
(***************************************************************************)
(* The transcription queue on small instances.  A behaviour is of one of   *)
(* three kinds: three clips of two channels that nobody stars, for which   *)
(* of them a poll takes when there is room for two; two clips that the     *)
(* operator stars while they are written, and whose uploads may come too   *)
(* late; and two clips that nobody stars while a process crashes or a      *)
(* request fails.                                                          *)
(***************************************************************************)
EXTENDS TranscriptionQueue

\* Clips numbered by age; the second one is on another channel.
MCChannelOf == [k \in Keys |-> IF k = 2 THEN "14" ELSE "16"]

VARIABLE part       \* which of these kinds this behaviour is of

QueueInit == Init /\ part \in {"two", "three", "failures"}

Two == part = "two" /\ UNCHANGED part
Three == part = "three" /\ UNCHANGED part
Failures == part = "failures" /\ UNCHANGED part

\* One trouble: with a second one, both clips may be damaged.
Trouble == Failures /\ crashes + faults = 0

QueueNext ==
    \/ UNCHANGED part /\ (ApiWrites \/ Work)
    \/ Three /\ \E k \in Keys : Presign(k) \/ Upload(k)
    \/ Two /\ \E k \in Keys \ {3} : Presign(k) \/ Upload(k) \/ Expire(k)
    \/ Two /\ \E k \in Keys \ {3}, star \in BOOLEAN : FindClip(k, star)
    \/ Two /\ Star
    \/ Two /\ OperatorWrites
    \/ Failures /\ \E k \in Keys \ {3} : Presign(k) \/ Upload(k) \/ Expire(k)
    \/ Trouble /\ WorkerFault
    \/ Trouble /\ WorkerCrash
    \/ Trouble /\ ApiCrash

\* As FairSpec, for the two clips.
QueueSpec ==
    /\ QueueInit /\ [][QueueNext]_<<part, vars>>
    /\ WF_vars(part = "two" /\ Work)
    /\ WF_vars(part = "two" /\ ApiWrites)
    /\ \A k \in Keys \ {3} : WF_vars(part = "two" /\ Expire(k))

FailuresInit == QueueInit /\ part = "failures"
FailuresSpec == FailuresInit /\ [][QueueNext]_<<part, vars>>

-----------------------------------------------------------------------------
\* Of the two clips, a clip whose audio was uploaded is transcribed, found empty
\* or reported as an error in the end (pending_uploads: one that waits is polled again).
UploadsFinish ==
    part = "two" => \A k \in Keys \ {3} :
        k \in uploaded ~> state[k].status \in {"transcribed", "empty", "error"}
=============================================================================
