----------------------------- MODULE MCClipCounts -----------------------------
(***************************************************************************)
(* The consumers of a new table, alone; or those of a table that was in    *)
(* use before the stream mapping was created, beside the operator's        *)
(* backfill.                                                               *)
(***************************************************************************)
EXTENDS ClipCountAggregates

CONSTANTS s1, s2, a

\* One clip's row in the backlog, carried by one stream shard, and its row among
\* the transcribed clips, carried by another.
Pending == [part |-> "pending", clip |-> a]

Transcribed == [part |-> "transcribed", clip |-> a]

MCRows == {Pending, Transcribed}

MCShardOf == [r \in MCRows |-> IF r = Pending THEN s1 ELSE s2]

\* A new table, whose every row has passed through the stream.
NewTable == [r \in MCRows |-> NoItem]

\* A table that was in use before the stream mapping was created.
OldTable == [r \in MCRows |->
                [channel |-> "16", quality |-> "ok", displayable |-> TRUE]]

-----------------------------------------------------------------------------
VARIABLES part,       \* which of the two this behaviour is of
          oldSource, oldMember, oldSummary, oldStream, oldBatch, oldPos, oldFailed,
          oldJob, oldPage, oldCursor, oldWrites, oldFaults

oldVars == <<oldSource, oldMember, oldSummary, oldStream, oldBatch, oldPos, oldFailed,
             oldJob, oldPage, oldCursor, oldWrites, oldFaults>>

B == INSTANCE ClipCountAggregates WITH
    WithBackfill <- TRUE, InitialSource <- OldTable, BatchSize <- 1, MaxWrites <- 1,
    source <- oldSource, member <- oldMember, summary <- oldSummary, stream <- oldStream,
    batch <- oldBatch, pos <- oldPos, failed <- oldFailed, job <- oldJob,
    page <- oldPage, cursor <- oldCursor, writes <- oldWrites, faults <- oldFaults

BothInit == Init /\ B!Init /\ part \in {"new", "old"}

OnlyNew == part = "new" /\ UNCHANGED <<part, oldVars>>
OnlyOld == part = "old" /\ UNCHANGED <<part, vars>>

BothNext ==
    \/ OnlyNew /\ \E r \in Rows, item \in Contents : Write(r, item)
    \/ OnlyNew /\ \E s \in Shards : Invoke(s)
    \/ OnlyNew /\ \E s \in Shards : TakeRecord(s)
    \/ OnlyNew /\ \E s \in Shards : Checkpoint(s)
    \/ OnlyNew /\ \E s \in Shards : Timeout(s)
    \/ OnlyNew /\ \E p \in Shards : Reconcile(p)
    \/ OnlyNew /\ \E p \in Shards : Fault(p)
    \/ OnlyNew /\ \E p \in Shards : Unacknowledged(p)
    \/ OnlyOld /\ \E r \in Rows, item \in Contents : B!Write(r, item)
    \/ OnlyOld /\ \E s \in Shards : B!Invoke(s)
    \/ OnlyOld /\ \E s \in Shards : B!TakeRecord(s)
    \/ OnlyOld /\ \E s \in Shards : B!Checkpoint(s)
    \/ OnlyOld /\ \E s \in Shards : B!Timeout(s)
    \/ OnlyOld /\ \E p \in Processes : B!Reconcile(p)
    \/ OnlyOld /\ \E p \in Processes : B!Fault(p)
    \/ OnlyOld /\ \E p \in Processes : B!Unacknowledged(p)
    \/ OnlyOld /\ B!QueryPage
    \/ OnlyOld /\ B!BackfillItem

\* As FairSpec, for the new table.
BothSpec ==
    /\ BothInit /\ [][BothNext]_<<part, vars, oldVars>>
    /\ \A s \in Shards : WF_vars(part = "new" /\ Consume(s))

\* One part only, with whatever processes its constants name.
OnePartInit == BothInit /\ part = "new"

OnePartSpec == OnePartInit /\ [][OnlyNew /\ Next]_<<part, vars, oldVars>>

-----------------------------------------------------------------------------
\* Beside the backfill, too, the old table's counters are right (IndInv, which the
\* proofs rest on, holds of them), and once it has come to its end every row that
\* nobody wrote meanwhile is counted (backfill_clip_count_aggregates).
BackfillIsRight == part = "old" => B!IndInv /\ B!BackfillCountsQuietRows
=============================================================================
