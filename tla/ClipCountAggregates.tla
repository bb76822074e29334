------------------------- MODULE ClipCountAggregates -------------------------
(***************************************************************************)
(* The DynamoDB-stream consumers that keep the clip counters, and the      *)
(* operator's paged backfill (src/src/talkingboats/                        *)
(* clip_count_aggregates.py).                                              *)
(*                                                                         *)
(* The serving-index rows are written by others (Write).  Each effective   *)
(* write appends the row's key to the stream of its shard.  One Lambda     *)
(* worker per shard takes a batch of records, reconciles them one by one   *)
(* and reports the ones that failed; the batch is checkpointed up to the   *)
(* lowest failed record and the rest is delivered again.  Every read and   *)
(* write of a reconciliation is a step of its own (only ensure_summary     *)
(* runs with the read that follows it), so workers of different shards,    *)
(* the backfill and the writers interleave between any two.                *)
(***************************************************************************)
EXTENDS ClipCountIndexes, Integers, Sequences

CONSTANTS
    Shards,         \* stream shards, each with its one consumer
    ShardOf,        \* the shard that carries a row's records
    Backfill,       \* the process that runs the paged backfill
    WithBackfill,   \* whether an operator starts it while the stream runs
    InitialSource,  \* the rows older than the stream mapping
    MaxAttempts,    \* reconcile_key's max_attempts (8 in the code)
    BatchSize,      \* the mapping's batch_size (100)
    MaxWrites,      \* bound: effective writes to each index row
    MaxFaults       \* bound: failed, conflicting and unanswered calls, killed ones

Processes == Shards \cup {Backfill}

ASSUME ParametersAssumption ==
    /\ Backfill \notin Shards
    /\ ShardOf \in [Rows -> Shards]
    /\ WithBackfill \in BOOLEAN
    /\ InitialSource \in [Rows -> Contents]
    /\ MaxAttempts \in Nat \ {0}
    /\ BatchSize \in Nat \ {0}
    /\ MaxWrites \in Nat
    /\ MaxFaults \in Nat

VARIABLES
    source,     \* content of every serving-index row
    member,     \* its membership item: the contribution it is counted with
    summary,    \* the summary item: revision and counters
    stream,     \* per shard, the keys not yet checkpointed
    batch,      \* per shard, length of the invocation's batch (0: none)
    pos,        \* per shard, the record of the batch in hand
    failed,     \* per shard, lowest record of the batch that failed (0: none)
    job,        \* per process, the locals of the reconciliation in hand
    page,       \* rows of the backfill's current page, as they were read
    cursor,     \* partitions the backfill has queried
    writes,     \* effective writes to each row so far
    faults      \* failures so far

table == <<source, member, summary>>
feed  == <<batch, pos, failed>>
walk  == <<page, cursor>>
vars  == <<table, stream, feed, job, walk, writes, faults>>

-----------------------------------------------------------------------------
SummaryItems == [present : BOOLEAN, revision : Nat, counts : [Counters -> Nat]]

EmptySummary == [present |-> TRUE, revision |-> 0,
                 counts |-> [c \in Counters |-> 0]]

NoSummary == [EmptySummary EXCEPT !.present = FALSE]

MembershipItems == [present : BOOLEAN, contribution : SUBSET Counters]

\* An absent membership item normalises to the empty contribution.
NoMembership == [present |-> FALSE, contribution |-> {}]

CountedAs(r) == member[r].contribution

Idle == [pc |-> "idle", key |-> CHOOSE r \in Rows : TRUE, attempt |-> 0,
         desired |-> {}, previous |-> NoMembership, base |-> NoSummary]

\* Mutant: the backlog partitions are forgotten.
SourcePksListed == <<"transcribed", "featured">>

\* source_pks of _serving_index_items, in its order.
SourcePks == <<"transcribed", "featured",
               "pending", "processing", "waiting_upload", "error">>

\* The cursor of a backfill that an exception ended.
Aborted == Len(SourcePks) + 1

Init ==
    /\ source = InitialSource
    /\ member = [r \in Rows |-> NoMembership]
    /\ summary = NoSummary
    /\ stream = [s \in Shards |-> <<>>]
    /\ batch = [s \in Shards |-> 0]
    /\ pos = [s \in Shards |-> 0]
    /\ failed = [s \in Shards |-> 0]
    /\ job = [p \in Processes |-> Idle]
    /\ page = {}
    /\ cursor = 0
    /\ writes = [r \in Rows |-> 0]
    /\ faults = 0

-----------------------------------------------------------------------------
(* The writers of the index rows, and the stream.                          *)

\* DynamoDB emits a record only for a write that changes the item.
Write(r, item) ==
    /\ writes[r] < MaxWrites
    /\ item # source[r]
    /\ source' = [source EXCEPT ![r] = item]
    /\ stream' = [stream EXCEPT ![ShardOf[r]] = Append(@, r)]
    /\ writes' = [writes EXCEPT ![r] = @ + 1]
    /\ UNCHANGED <<member, summary, feed, job, walk, faults>>

\* A consumer is invoked with some prefix of what its shard holds.
Invoke(s) ==
    /\ batch[s] = 0
    /\ stream[s] # <<>>
    /\ \E n \in 1 .. BatchSize :
          /\ n <= Len(stream[s])
          /\ batch' = [batch EXCEPT ![s] = n]
    /\ pos' = [pos EXCEPT ![s] = 1]
    /\ failed' = [failed EXCEPT ![s] = 0]
    /\ UNCHANGED <<table, stream, job, walk, writes, faults>>

\* The handler's loop reaches its next record.
TakeRecord(s) ==
    /\ batch[s] # 0
    /\ pos[s] <= batch[s]
    /\ job[s].pc = "idle"
    /\ job' = [job EXCEPT ![s] = [Idle EXCEPT !.pc = "source",
                                              !.key = stream[s][pos[s]],
                                              !.attempt = 1]]
    /\ UNCHANGED <<table, stream, feed, walk, writes, faults>>

\* Mutant: the whole batch is checkpointed whatever failed in it.
ConsumedAll(s) == batch[s]

\* Records of a finished batch that are not delivered again: those before
\* the lowest failure.
Consumed(s) == IF failed[s] = 0 THEN batch[s] ELSE failed[s] - 1

\* The handler returns its batchItemFailures.
Checkpoint(s) ==
    /\ batch[s] # 0
    /\ pos[s] > batch[s]
    /\ job[s].pc = "idle"
    /\ stream' = [stream EXCEPT ![s] = SubSeq(@, Consumed(s) + 1, Len(@))]
    /\ batch' = [batch EXCEPT ![s] = 0]
    /\ pos' = [pos EXCEPT ![s] = 0]
    /\ failed' = [failed EXCEPT ![s] = 0]
    /\ UNCHANGED <<table, job, walk, writes, faults>>

-----------------------------------------------------------------------------
(* A reconciliation, shared by the consumers and the backfill.             *)

\* The reconciliation of p ends.  A consumer goes on with its batch and
\* remembers a failure; a failure leaves the backfill by its exception.
Return(p, ok) ==
    /\ job' = [job EXCEPT ![p] = Idle]
    /\ IF p = Backfill
       THEN /\ UNCHANGED feed
            /\ IF ok THEN UNCHANGED walk
                     ELSE page' = {} /\ cursor' = Aborted
       ELSE /\ pos' = [pos EXCEPT ![p] = @ + 1]
            /\ failed' = [failed EXCEPT ![p] = IF ok \/ @ # 0 THEN @ ELSE pos[p]]
            /\ UNCHANGED <<batch, walk>>

\* reconcile_key: the current source row, read consistently.
ReadSource(p) ==
    /\ job[p].pc = "source"
    /\ job' = [job EXCEPT ![p] =
                 [@ EXCEPT !.pc = "member",
                           !.desired = Contribution(job[p].key,
                                                    source[job[p].key])]]
    /\ UNCHANGED <<table, stream, feed, walk, writes, faults>>

\* ensure_summary creates the summary item at most once (its put is
\* conditional); then the membership item is read.
EnsuredSummary == IF summary.present THEN summary ELSE EmptySummary

\* Mutant: a row that has a membership item counts as done.
AlreadyCountedOnce(p) == member[job[p].key].present

AlreadyCounted(p) == CountedAs(job[p].key) = job[p].desired

ReadMembership(p) ==
    /\ job[p].pc = "member"
    /\ summary' = EnsuredSummary
    /\ IF AlreadyCounted(p)
       THEN Return(p, TRUE)
       ELSE /\ job' = [job EXCEPT ![p] =
                         [@ EXCEPT !.pc = "summary",
                                   !.previous = member[job[p].key]]]
            /\ UNCHANGED <<feed, walk>>
    /\ UNCHANGED <<source, member, stream, writes, faults>>

ReadSummary(p) ==
    /\ job[p].pc = "summary"
    /\ job' = [job EXCEPT ![p] = [@ EXCEPT !.pc = "commit",
                                           !.base = summary]]
    /\ UNCHANGED <<table, stream, feed, walk, writes, faults>>

\* Mutant: a counter is never decremented.
ShiftedUp(counts, before, after) ==
    [c \in Counters |-> IF c \in after \ before THEN counts[c] + 1 ELSE counts[c]]

\* The counters after a row moves from one contribution to another; a
\* counter that would not be positive is dropped from its map.
Shifted(counts, before, after) ==
    [c \in Counters |->
        LET moved == IF c \in after \ before THEN counts[c] + 1
                     ELSE IF c \in before \ after THEN counts[c] - 1
                     ELSE counts[c]
        IN  IF moved > 0 THEN moved ELSE 0]

\* Mutant: the condition on the summary is left out.
SummaryUnchecked(p) == TRUE

\* The two condition expressions of the transaction.
SummaryUnchanged(p) ==
    ~summary.present \/ summary.revision = job[p].base.revision

MembershipUnchanged(p) == member[job[p].key] = job[p].previous

Conditions(p) == SummaryUnchanged(p) /\ MembershipUnchanged(p)

Transact(p) ==
    /\ job[p].pc = "commit"
    /\ Conditions(p)
    /\ summary' = [present |-> TRUE,
                   revision |-> job[p].base.revision + 1,
                   counts |-> Shifted(job[p].base.counts,
                                      job[p].previous.contribution,
                                      job[p].desired)]
    /\ member' = [member EXCEPT ![job[p].key] =
                     [present |-> TRUE, contribution |-> job[p].desired]]

Commit(p) ==
    /\ Transact(p)
    /\ Return(p, TRUE)
    /\ UNCHANGED <<source, stream, writes, faults>>

MayRetry(p) == job[p].attempt < MaxAttempts

\* A cancelled transaction, for a condition or for a conflict with a request
\* in flight, is a "retry": the next attempt reads everything again, the row
\* included.  The first try of reconcile_item (attempt 0) is followed by a
\* whole reconcile_key.
Rejected(p) ==
    /\ job[p].pc = "commit"
    /\ \/ ~Conditions(p) /\ faults' = faults
       \/ faults < MaxFaults /\ faults' = faults + 1
    /\ IF MayRetry(p)
       THEN /\ job' = [job EXCEPT ![p] =
                         [Idle EXCEPT !.pc = "source",
                                      !.key = job[p].key,
                                      !.attempt = job[p].attempt + 1]]
            /\ UNCHANGED <<feed, walk>>
       ELSE Return(p, FALSE)
    /\ UNCHANGED <<table, stream, writes>>

\* A DynamoDB call raises something other than a failed condition.
Fault(p) ==
    /\ faults < MaxFaults
    /\ job[p].pc # "idle"
    /\ Return(p, FALSE)
    /\ faults' = faults + 1
    /\ UNCHANGED <<table, stream, writes>>

\* The transaction is applied but its answer is lost.
Unacknowledged(p) ==
    /\ faults < MaxFaults
    /\ Transact(p)
    /\ Return(p, FALSE)
    /\ faults' = faults + 1
    /\ UNCHANGED <<source, stream, writes>>

\* The invocation is killed at its 30 s timeout: nothing is checkpointed.
Timeout(s) ==
    /\ faults < MaxFaults
    /\ batch[s] # 0
    /\ job' = [job EXCEPT ![s] = Idle]
    /\ batch' = [batch EXCEPT ![s] = 0]
    /\ pos' = [pos EXCEPT ![s] = 0]
    /\ failed' = [failed EXCEPT ![s] = 0]
    /\ faults' = faults + 1
    /\ UNCHANGED <<table, stream, walk, writes>>

-----------------------------------------------------------------------------
(* The paged backfill.                                                     *)

\* _serving_index_items queries the next partition; a page holds all of it.
QueryPage ==
    /\ WithBackfill
    /\ job[Backfill].pc = "idle"
    /\ page = {}
    /\ cursor < Len(SourcePks)
    /\ cursor' = cursor + 1
    /\ page' = {[row |-> r, item |-> source[r]] :
                  r \in {q \in Rows : /\ q.part = SourcePks[cursor + 1]
                                      /\ source[q] # NoItem}}
    /\ UNCHANGED <<table, stream, feed, job, writes, faults>>

\* reconcile_item first tries the row as the page had it.
BackfillItem ==
    /\ job[Backfill].pc = "idle"
    /\ \E entry \in page :
          /\ page' = page \ {entry}
          /\ job' = [job EXCEPT ![Backfill] =
                       [Idle EXCEPT
                          !.pc = "member",
                          !.key = entry.row,
                          !.desired = Contribution(entry.row, entry.item)]]
    /\ UNCHANGED <<table, stream, feed, cursor, writes, faults>>

-----------------------------------------------------------------------------
Reconcile(p) ==
    \/ ReadSource(p)
    \/ ReadMembership(p)
    \/ ReadSummary(p)
    \/ Commit(p)
    \/ Rejected(p)

Consume(s) ==
    \/ Invoke(s)
    \/ TakeRecord(s)
    \/ Checkpoint(s)
    \/ Reconcile(s)

Next ==
    \/ \E r \in Rows, item \in Contents : Write(r, item)
    \/ \E s \in Shards : Invoke(s) \/ TakeRecord(s) \/ Checkpoint(s) \/ Timeout(s)
    \/ \E p \in Processes : Reconcile(p) \/ Fault(p) \/ Unacknowledged(p)
    \/ QueryPage
    \/ BackfillItem

Spec == Init /\ [][Next]_vars

\* The event source mapping keeps polling and invoking every shard.
FairSpec == Spec /\ \A s \in Shards : WF_vars(Consume(s))

-----------------------------------------------------------------------------
(* Properties.                                                             *)

Jobs == [pc : {"idle", "source", "member", "summary", "commit"},
         key : Rows,
         attempt : 0 .. MaxAttempts,
         desired : SUBSET Counters,
         previous : MembershipItems,
         base : SummaryItems]

\* Every variable has the shape the code gives it.
TypeOK ==
    /\ source \in [Rows -> Contents]
    /\ member \in [Rows -> MembershipItems]
    /\ summary \in SummaryItems
    /\ stream \in [Shards -> Seq(Rows)]
    /\ batch \in [Shards -> Nat]
    /\ pos \in [Shards -> Nat]
    /\ failed \in [Shards -> Nat]
    /\ job \in [Processes -> Jobs]
    /\ page \in SUBSET [row : Rows, item : Items]
    /\ cursor \in 0 .. Aborted
    /\ writes \in [Rows -> 0 .. MaxWrites]
    /\ faults \in 0 .. MaxFaults

Counts == summary.counts

\* Concurrent reconciliations, retries, lost answers and killed invocations
\* never make a counter differ from the memberships it is the sum of
\* (_reconcile_contribution's two conditional puts).
SummaryMatchesMembership ==
    \A c \in Counters : Counts[c] = Cardinality({r \in Rows : c \in CountedAs(r)})

\* The invocation in hand of every shard lies within its stream.
FeedOK ==
    \A s \in Shards :
        /\ batch[s] <= Len(stream[s])
        /\ failed[s] <= batch[s]
        /\ batch[s] # 0 => pos[s] \in 1 .. batch[s] + 1
        /\ job[s].pc # "idle" => batch[s] # 0 /\ pos[s] <= batch[s]

\* What a reconciliation holds of the table when it reaches a phase: a
\* contribution its row had, and a summary that is current unless the
\* revision has moved on.
JobOK(p) ==
    /\ job[p].pc \in {"member", "summary", "commit"} =>
          \E item \in Contents :
              job[p].desired = Contribution(job[p].key, item)
    /\ job[p].pc \in {"summary", "commit"} => summary.present
    /\ job[p].pc = "commit" =>
          /\ job[p].base.revision <= summary.revision
          /\ job[p].base.revision = summary.revision =>
                job[p].base.counts = summary.counts

JobsOK == /\ ~summary.present => summary = NoSummary
          /\ \A p \in Processes : JobOK(p)

\* Every row is counted with a contribution that some content would make.
MembersOK ==
    \A r \in Rows : \E item \in Contents : CountedAs(r) = Contribution(r, item)

\* The inductive invariant that SummaryMatchesMembership is proved from.
IndInv == TypeOK /\ FeedOK /\ JobsOK /\ MembersOK /\ SummaryMatchesMembership

\* Readers combine roots: what counts_for("all") says of a channel is the
\* visible clips plus the quarantined ones, in every published state.
ViewsAgree ==
    \A featured \in BOOLEAN, ch \in Channels :
        Counts[<< <<"all", featured>>, ch >>] =
            Counts[<< <<"visible", featured>>, ch >>]
              + Counts[<< <<"quarantined", featured>>, ch >>]

\* A row counted with something else than its current content still has a
\* record that was not checkpointed: no change is ever forgotten
\* (lambda_handler's batchItemFailures; the class docstring's "converge on
\* the current value").
StaleRowStillQueued ==
    \A r \in Rows :
        CountedAs(r) # Contribution(r, source[r])
          => \E i \in 1 .. Len(stream[ShardOf[r]]) : stream[ShardOf[r]][i] = r

\* A backfill that ran to its end has counted every row that nobody wrote
\* meanwhile, the ones no stream record was ever written for included.
BackfillCountsQuietRows ==
    (cursor = Len(SourcePks) /\ page = {} /\ job[Backfill].pc = "idle")
      => \A r \in Rows :
            writes[r] = 0 => CountedAs(r) = Contribution(r, source[r])

-----------------------------------------------------------------------------
(* The inductive invariants that the last two are proved from.             *)

IsCounted(r) == CountedAs(r) = Contribution(r, source[r])

\* A record of row r in shard s, past the n-th one.
Later(s, r, n) == \E i \in 1 .. Len(stream[s]) : i > n /\ stream[s][i] = r

\* A record of row r that is yet to be handled, or will be delivered again.
Outstanding(r) ==
    LET s == ShardOf[r]
    IN  \/ batch[s] = 0 /\ Later(s, r, 0)
        \/ Later(s, r, pos[s] - 1)
        \/ failed[s] # 0 /\ Later(s, r, failed[s] - 1)

\* A shard carries the records of its own rows, and its consumer reconciles the
\* row of the record in hand, past those that failed.
OwnRecords(s) ==
    /\ \A i \in 1 .. Len(stream[s]) : ShardOf[stream[s][i]] = s
    /\ job[s].pc # "idle" => job[s].key = stream[s][pos[s]]
    /\ failed[s] # 0 => failed[s] < pos[s]

Computed(p) == job[p].pc \in {"member", "summary", "commit"}

Wants(p, r) == job[p].desired = Contribution(r, source[r])

\* What a consumer is about to count is of the current content, or the write that
\* came since has a record further on.
WantsCurrent(s) ==
    Computed(s) => Wants(s, job[s].key) \/ Later(s, job[s].key, pos[s])

NoBackfill == job[Backfill].pc = "idle" /\ page = {}

\* Without a backfill, nothing but a record of its own row makes a row counted.
QueueInv ==
    /\ NoBackfill
    /\ \A s \in Shards : OwnRecords(s) /\ WantsCurrent(s)
    /\ \A r \in Rows : ~IsCounted(r) => Outstanding(r)

\* The backfill has queried the partition of r.
Queried(r) == \E k \in 1 .. cursor : k <= Len(SourcePks) /\ SourcePks[k] = r.part

InHand(r) == job[Backfill].pc # "idle" /\ job[Backfill].key = r

\* A row that nobody wrote is in no stream, and from its partition's query on it
\* is on the page, in the backfill's hand, or counted.
Quiet(r) ==
    /\ \A s \in Shards : /\ ~Later(s, r, 0)
                         /\ job[s].pc # "idle" => job[s].key # r
    /\ \A entry \in page : entry.row = r => entry.item = source[r]
    /\ Computed(Backfill) /\ job[Backfill].key = r => Wants(Backfill, r)
    /\ IsCounted(r) \/ CountedAs(r) = {}
    /\ Queried(r) /\ cursor # Aborted =>
          \/ IsCounted(r) \/ InHand(r)
          \/ [row |-> r, item |-> source[r]] \in page

BackfillInv == \A r \in Rows : writes[r] = 0 => Quiet(r)

-----------------------------------------------------------------------------
Current == \A r \in Rows : CountedAs(r) = Contribution(r, source[r])

\* Once the writers stop, the counters become those of the index rows and
\* stay so, whatever failed on the way.
Converges == <>[]Current

View == INSTANCE ClipCountView WITH
            counted <- [r \in Rows |-> CountedAs(r)],
            counts <- Counts

\* Readers only ever see the exact count of one assignment of rows to
\* contributions, moving one row at a time.
ImplementsView == View!Spec
=============================================================================
