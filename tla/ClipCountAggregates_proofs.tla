---------------------- MODULE ClipCountAggregates_proofs ----------------------
(***************************************************************************)
(* Proofs about the clip-count consumers, for any number of rows, shards,  *)
(* channels, attempts, writes and faults, with or without a backfill.      *)
(***************************************************************************)
EXTENDS ClipCountAggregates, FiniteSetTheorems, SequenceTheorems, TLAPS

USE DEF Processes

-----------------------------------------------------------------------------
(* Contributions and counters.                                             *)

\* Every counter a row contributes to is one the summary has
\* (contribution_for_index).
LEMMA ContributionType ==
    ASSUME NEW r \in Rows, NEW item \in Contents
    PROVE  Contribution(r, item) \in SUBSET Counters
<1>1. r.part \in Partitions
  BY RowsAssumption
<1>2. CASE item = NoItem
  BY <1>2 DEF Contribution
<1>3. CASE item # NoItem /\ r.part \in BacklogStatuses
  <2>1. Contribution(r, item) = {<< <<"backlog", FALSE>>, r.part >>}
    BY <1>3 DEF Contribution
  <2>2. << <<"backlog", FALSE>>, r.part >>
           \in {<<"backlog", FALSE>>} \X BacklogStatuses
    BY <1>3
  <2> QED
    BY <2>1, <2>2 DEF Counters
<1>4. CASE item # NoItem /\ r.part \notin BacklogStatuses
  <2>1. item.channel \in Channels
    BY <1>4 DEF Contents, Items
  <2>2. ASSUME NEW v \in Views
        PROVE  << <<v, r.part = "featured">>, item.channel >> \in Counters
    BY <2>1 DEF Counters
  <2> QED
    BY <1>4, <2>2 DEF Contribution, Views
<1> QED
  BY <1>2, <1>3, <1>4

\* Moving the counters by what one row's new contribution adds and takes away
\* makes them those of the new contributions; none is taken below zero.
LEMMA RecountShifts ==
    ASSUME NEW was \in [Rows -> SUBSET Counters],
           NEW k \in Rows, NEW new \in SUBSET Counters
    PROVE  Shifted(CountsOf(was), was[k], new)
             = CountsOf([was EXCEPT ![k] = new])
<1> SUFFICES ASSUME NEW c \in Counters
             PROVE  Shifted(CountsOf(was), was[k], new)[c]
                      = CountsOf([was EXCEPT ![k] = new])[c]
  BY DEF Shifted, CountsOf
<1> DEFINE old == {r \in Rows : c \in was[r]}
           upd == {r \in Rows : c \in [was EXCEPT ![k] = new][r]}
           n   == Cardinality(old)
           shifted == Shifted(CountsOf(was), was[k], new)[c]
<1>1. /\ IsFiniteSet(old) /\ n \in Nat
      /\ CountsOf(was)[c] = n
      /\ CountsOf([was EXCEPT ![k] = new])[c] = Cardinality(upd)
  <2>1. IsFiniteSet(old)
    BY RowsAssumption, FS_Subset
  <2> QED
    BY <2>1, FS_CardinalityType DEF CountsOf
<1>2. CASE c \in new \ was[k]
  <2>1. upd = old \cup {k} /\ k \notin old
    BY <1>2
  <2>2. shifted = n + 1
    BY <1>1, <1>2 DEF Shifted
  <2> HIDE DEF old, upd, shifted
  <2>3. Cardinality(upd) = n + 1
    BY <1>1, <2>1, FS_AddElement
  <2> QED
    BY <1>1, <2>2, <2>3 DEF upd, shifted
<1>3. CASE c \in was[k] \ new
  <2>1. upd = old \ {k} /\ k \in old
    BY <1>3
  <2>2. shifted = IF n - 1 > 0 THEN n - 1 ELSE 0
    BY <1>1, <1>3 DEF Shifted
  <2> HIDE DEF old, upd, shifted
  <2>3. Cardinality(upd) = n - 1 /\ IsFiniteSet(upd)
    BY <1>1, <2>1, FS_RemoveElement
  <2>4. n - 1 \in Nat
    BY <2>3, FS_CardinalityType
  <2> HIDE DEF n
  <2>5. shifted = n - 1
    BY <1>1, <2>2, <2>4
  <2> QED
    BY <1>1, <2>3, <2>5 DEF upd, shifted
<1>4. CASE c \in was[k] <=> c \in new
  <2>1. upd = old
    BY <1>4
  <2>2. shifted = n
    BY <1>1, <1>4 DEF Shifted
  <2> QED
    BY <1>1, <2>1, <2>2
<1> QED
  BY <1>2, <1>3, <1>4

-----------------------------------------------------------------------------
(* Types, and the invocation in hand of every shard.                       *)

\* A process without a reconciliation in hand has well-typed locals.
LEMMA IdleType == Idle \in Jobs /\ Idle.pc = "idle"
<1>1. (CHOOSE r \in Rows : TRUE) \in Rows
  BY RowsAssumption
<1>2. EmptySummary \in SummaryItems /\ NoSummary \in SummaryItems
  BY DEF EmptySummary, NoSummary, SummaryItems
<1>3. NoMembership \in MembershipItems
  BY DEF NoMembership, MembershipItems
<1> QED
  BY <1>1, <1>2, <1>3, ParametersAssumption DEF Idle, Jobs

\* The attempt counter of reconcile_key stays within max_attempts on a retry.
LEMMA AttemptType ==
    ASSUME NEW k \in Rows, NEW n \in 0 .. MaxAttempts
    PROVE  [Idle EXCEPT !.pc = "source", !.key = k, !.attempt = n] \in Jobs
BY IdleType DEF Jobs

\* The end of a reconciliation keeps the types of what it changes, and
\* moves a consumer to the next record of its batch.
LEMMA ReturnType ==
    ASSUME TypeOK, FeedOK, NEW p \in Processes, NEW ok \in BOOLEAN,
           job[p].pc # "idle", Return(p, ok), stream' = stream
    PROVE  /\ job' \in [Processes -> Jobs]
           /\ batch' \in [Shards -> Nat]
           /\ pos' \in [Shards -> Nat]
           /\ failed' \in [Shards -> Nat]
           /\ page' \in SUBSET [row : Rows, item : Items]
           /\ cursor' \in 0 .. Aborted
           /\ FeedOK'
           /\ job' = [job EXCEPT ![p] = Idle]
<1>1. Aborted \in 0 .. Aborted
  BY DEF Aborted, SourcePks
<1>2. CASE p = Backfill
  <2>1. job' \in [Processes -> Jobs] /\ job' = [job EXCEPT ![p] = Idle]
    BY <1>2, IdleType DEF Return, TypeOK
  <2>2. FeedOK'
    BY <1>2, <2>1, ParametersAssumption DEF Return, feed, FeedOK, TypeOK
  <2> QED
    BY <1>1, <1>2, <2>1, <2>2 DEF Return, feed, walk, TypeOK
<1>3. CASE p # Backfill
  <2>1. p \in Shards /\ pos[p] \in Nat /\ pos[p] <= batch[p]
    BY <1>3 DEF TypeOK, FeedOK
  <2>2. /\ job' = [job EXCEPT ![p] = Idle]
        /\ pos' = [pos EXCEPT ![p] = pos[p] + 1]
        /\ failed' = [failed EXCEPT ![p] =
                         IF ok \/ failed[p] # 0 THEN failed[p] ELSE pos[p]]
        /\ batch' = batch /\ page' = page /\ cursor' = cursor
    BY <1>3 DEF Return, walk
  <2>3. pos' \in [Shards -> Nat] /\ failed' \in [Shards -> Nat]
    <3>1. pos[p] + 1 \in Nat
      BY <2>1
    <3> QED
      BY <2>1, <2>2, <3>1 DEF TypeOK
  <2>4. job' \in [Processes -> Jobs]
    BY <2>2, IdleType DEF TypeOK
  <2>5. FeedOK'
    <3> SUFFICES ASSUME NEW s \in Shards
                 PROVE  /\ batch[s] <= Len(stream[s])
                        /\ failed'[s] <= batch[s]
                        /\ batch[s] # 0 => pos'[s] \in 1 .. batch[s] + 1
                        /\ job'[s].pc # "idle" =>
                              batch[s] # 0 /\ pos'[s] <= batch[s]
      BY <2>2 DEF FeedOK
    <3>1. CASE s = p
      BY <2>1, <2>2, <3>1, IdleType DEF TypeOK, FeedOK
    <3>2. CASE s # p
      BY <2>1, <2>2, <3>2 DEF TypeOK, FeedOK
    <3> QED
      BY <3>1, <3>2
  <2> QED
    BY <1>3, <2>2, <2>3, <2>4, <2>5 DEF TypeOK
<1> QED
  BY <1>2, <1>3

\* What a transaction writes has the table's types.
LEMMA TransactType ==
    ASSUME TypeOK, NEW p \in Processes, Transact(p)
    PROVE  /\ summary' \in SummaryItems
           /\ member' \in [Rows -> MembershipItems]
<1> DEFINE j == job[p]
           next == Shifted(j.base.counts, j.previous.contribution, j.desired)
<1>1. j \in Jobs
  BY DEF TypeOK
<1>2. j.base.revision \in Nat /\ j.base.counts \in [Counters -> Nat]
  BY <1>1 DEF Jobs, SummaryItems
<1>3. next \in [Counters -> Nat]
  BY <1>2 DEF Shifted
<1>4. summary' \in SummaryItems
  <2> HIDE DEF next
  <2> QED
    BY <1>2, <1>3 DEF Transact, SummaryItems, next
<1>5. member' \in [Rows -> MembershipItems]
  BY <1>1 DEF Transact, TypeOK, Jobs, MembershipItems
<1> QED
  BY <1>4, <1>5

\* Every step keeps the types and the feeds.
LEMMA TypeStep == TypeOK /\ FeedOK /\ [Next]_vars => TypeOK' /\ FeedOK'
<1> SUFFICES ASSUME TypeOK, FeedOK, [Next]_vars
             PROVE  TypeOK' /\ FeedOK'
  OBVIOUS
<1> USE ParametersAssumption, IdleType
<1>1. ASSUME NEW r \in Rows, NEW item \in Contents, Write(r, item)
      PROVE  TypeOK' /\ FeedOK'
  <2>1. stream' \in [Shards -> Seq(Rows)]
    BY <1>1, AppendProperties DEF Write, TypeOK
  <2>2. \A s \in Shards : Len(stream'[s]) >= Len(stream[s])
    BY <1>1, AppendProperties DEF Write, TypeOK
  <2>3. /\ source' \in [Rows -> Contents]
        /\ writes' \in [Rows -> 0 .. MaxWrites]
    BY <1>1 DEF Write, TypeOK
  <2>4. TypeOK'
    BY <1>1, <2>1, <2>3 DEF Write, TypeOK, feed, walk
  <2>5. FeedOK'
    BY <1>1, <2>1, <2>2 DEF Write, TypeOK, FeedOK, feed
  <2> QED
    BY <2>4, <2>5
<1>2. ASSUME NEW s \in Shards, Invoke(s)
      PROVE  TypeOK' /\ FeedOK'
  <2>0. PICK n \in 1 .. BatchSize :
          n <= Len(stream[s]) /\ batch' = [batch EXCEPT ![s] = n]
    BY <1>2 DEF Invoke
  <2>1. /\ batch' \in [Shards -> Nat]
        /\ pos' \in [Shards -> Nat]
        /\ failed' \in [Shards -> Nat]
    <3>1. n \in Nat /\ 1 \in Nat /\ 0 \in Nat
      BY <2>0
    <3>2. batch' \in [Shards -> Nat]
      BY <2>0, <3>1 DEF TypeOK
    <3>3. pos' = [pos EXCEPT ![s] = 1] /\ failed' = [failed EXCEPT ![s] = 0]
      BY <1>2 DEF Invoke
    <3> QED
      BY <3>1, <3>2, <3>3 DEF TypeOK
  <2>2. TypeOK'
    BY <1>2, <2>1 DEF Invoke, TypeOK, table, walk
  <2>3. FeedOK'
    <3>2. n \in Nat /\ n # 0
      BY <2>0
    <3>3. /\ pos' = [pos EXCEPT ![s] = 1] /\ failed' = [failed EXCEPT ![s] = 0]
          /\ job' = job /\ stream' = stream /\ job[s].pc = "idle"
      BY <1>2 DEF Invoke, FeedOK
    <3>4. SUFFICES ASSUME NEW q \in Shards
                   PROVE  /\ batch'[q] <= Len(stream[q])
                          /\ failed'[q] <= batch'[q]
                          /\ batch'[q] # 0 => pos'[q] \in 1 .. batch'[q] + 1
                          /\ job[q].pc # "idle" =>
                                batch'[q] # 0 /\ pos'[q] <= batch'[q]
      BY <3>3 DEF FeedOK
    <3>5. CASE q = s
      BY <2>0, <3>2, <3>3, <3>5 DEF TypeOK
    <3>6. CASE q # s
      BY <2>0, <3>3, <3>6 DEF TypeOK, FeedOK
    <3> QED
      BY <3>5, <3>6
  <2> QED
    BY <2>2, <2>3
<1>3. ASSUME NEW s \in Shards, TakeRecord(s)
      PROVE  TypeOK' /\ FeedOK'
  <2>1. stream[s][pos[s]] \in Rows
    BY <1>3 DEF TakeRecord, TypeOK, FeedOK
  <2>2. [Idle EXCEPT !.pc = "source", !.key = stream[s][pos[s]],
                     !.attempt = 1] \in Jobs
    <3>1. 1 \in 0 .. MaxAttempts
      OBVIOUS
    <3> QED
      BY <2>1, <3>1, AttemptType
  <2>2a. job' \in [Processes -> Jobs]
    BY <1>3, <2>2 DEF TakeRecord, TypeOK
  <2>3. TypeOK'
    BY <1>3, <2>2a DEF TakeRecord, TypeOK, table, feed, walk
  <2>4. FeedOK'
    BY <1>3 DEF TakeRecord, TypeOK, FeedOK, feed
  <2> QED
    BY <2>3, <2>4
<1>4. ASSUME NEW s \in Shards, Checkpoint(s)
      PROVE  TypeOK' /\ FeedOK'
  <2>1. Consumed(s) \in Nat /\ Consumed(s) <= Len(stream[s])
    BY <1>4 DEF Consumed, TypeOK, FeedOK
  <2>2. SubSeq(stream[s], Consumed(s) + 1, Len(stream[s])) \in Seq(Rows)
    BY <2>1, SubSeqProperties DEF TypeOK
  <2>3. stream' \in [Shards -> Seq(Rows)]
    BY <1>4, <2>2 DEF Checkpoint, TypeOK
  <2>4. TypeOK'
    BY <1>4, <2>3 DEF Checkpoint, TypeOK, table, walk
  <2>5. FeedOK'
    BY <1>4, <2>3 DEF Checkpoint, TypeOK, FeedOK
  <2> QED
    BY <2>4, <2>5
<1>5. ASSUME NEW s \in Shards, Timeout(s)
      PROVE  TypeOK' /\ FeedOK'
  <2>1. /\ batch' \in [Shards -> Nat]
        /\ pos' \in [Shards -> Nat]
        /\ failed' \in [Shards -> Nat]
        /\ job' \in [Processes -> Jobs]
        /\ faults' \in 0 .. MaxFaults
    BY <1>5 DEF Timeout, TypeOK
  <2>2. TypeOK'
    BY <1>5, <2>1 DEF Timeout, TypeOK, table, walk
  <2>3. FeedOK'
    <3>1. /\ batch' = [batch EXCEPT ![s] = 0] /\ pos' = [pos EXCEPT ![s] = 0]
          /\ failed' = [failed EXCEPT ![s] = 0]
          /\ job' = [job EXCEPT ![s] = Idle] /\ stream' = stream
      BY <1>5 DEF Timeout
    <3>2. SUFFICES ASSUME NEW q \in Shards
                   PROVE  /\ batch'[q] <= Len(stream[q])
                          /\ failed'[q] <= batch'[q]
                          /\ batch'[q] # 0 => pos'[q] \in 1 .. batch'[q] + 1
                          /\ job'[q].pc # "idle" =>
                                batch'[q] # 0 /\ pos'[q] <= batch'[q]
      BY <3>1 DEF FeedOK
    <3>3. CASE q = s
      BY <3>1, <3>3 DEF TypeOK
    <3>4. CASE q # s
      BY <3>1, <3>4 DEF TypeOK, FeedOK
    <3> QED
      BY <3>3, <3>4
  <2> QED
    BY <2>2, <2>3
<1>6. ASSUME NEW p \in Processes, Reconcile(p)
      PROVE  TypeOK' /\ FeedOK'
  <2>1. CASE ReadSource(p)
    <3>1. Contribution(job[p].key, source[job[p].key]) \in SUBSET Counters
      BY ContributionType DEF TypeOK, Jobs
    <3>1a. [job[p] EXCEPT !.pc = "member",
                          !.desired = Contribution(job[p].key,
                                                   source[job[p].key])] \in Jobs
      BY <3>1 DEF TypeOK, Jobs
    <3>2. job' \in [Processes -> Jobs]
      BY <2>1, <3>1a DEF ReadSource, TypeOK
    <3>3. TypeOK'
      BY <2>1, <3>2 DEF ReadSource, TypeOK, table, feed, walk
    <3>4. FeedOK'
      BY <2>1 DEF ReadSource, TypeOK, FeedOK, feed
    <3> QED
      BY <3>3, <3>4
  <2>2. CASE ReadMembership(p)
    <3>1. summary' \in SummaryItems
      BY <2>2 DEF ReadMembership, EnsuredSummary, EmptySummary, SummaryItems, TypeOK
    <3>2. CASE AlreadyCounted(p)
      <4>1. Return(p, TRUE) /\ stream' = stream /\ job[p].pc # "idle"
        BY <2>2, <3>2 DEF ReadMembership
      <4>2. UNCHANGED <<source, member, writes, faults>>
        BY <2>2 DEF ReadMembership
      <4> HIDE DEF Return
      <4> QED
        BY <3>1, <4>1, <4>2, ReturnType DEF TypeOK
    <3>3. CASE ~AlreadyCounted(p)
      <4>0. [job[p] EXCEPT !.pc = "summary",
                           !.previous = member[job[p].key]] \in Jobs
        BY DEF TypeOK, Jobs
      <4>1. job' \in [Processes -> Jobs]
        BY <2>2, <3>3, <4>0 DEF ReadMembership, TypeOK
      <4>2. TypeOK'
        BY <2>2, <3>1, <3>3, <4>1 DEF ReadMembership, TypeOK, feed, walk
      <4>3. FeedOK'
        BY <2>2, <3>3 DEF ReadMembership, TypeOK, FeedOK, feed
      <4> QED
        BY <4>2, <4>3
    <3> QED
      BY <3>2, <3>3
  <2>3. CASE ReadSummary(p)
    <3>1a. [job[p] EXCEPT !.pc = "commit", !.base = summary] \in Jobs
      BY DEF TypeOK, Jobs
    <3>1. job' \in [Processes -> Jobs]
      BY <2>3, <3>1a DEF ReadSummary, TypeOK
    <3>2. TypeOK'
      BY <2>3, <3>1 DEF ReadSummary, TypeOK, table, feed, walk
    <3>3. FeedOK'
      BY <2>3 DEF ReadSummary, TypeOK, FeedOK, feed
    <3> QED
      BY <3>2, <3>3
  <2>4. CASE Commit(p)
    <3>1. /\ Return(p, TRUE) /\ stream' = stream /\ job[p].pc # "idle"
          /\ Transact(p)
      BY <2>4 DEF Commit, Transact
    <3> QED
      BY <2>4, <3>1, ReturnType, TransactType DEF Commit, TypeOK
  <2>5. CASE Rejected(p)
    <3>0. faults' \in 0 .. MaxFaults
      BY <2>5, ParametersAssumption DEF Rejected, TypeOK
    <3>1. CASE MayRetry(p)
      <4>0. [Idle EXCEPT !.pc = "source", !.key = job[p].key,
                         !.attempt = job[p].attempt + 1] \in Jobs
        <5>1. job[p].key \in Rows /\ job[p].attempt + 1 \in 0 .. MaxAttempts
          <6>1. job[p] \in Jobs
            BY DEF TypeOK
          <6> QED
            BY <3>1, <6>1 DEF MayRetry, Jobs
        <5> QED
          BY <5>1, AttemptType
      <4>1. job' \in [Processes -> Jobs]
        BY <2>5, <3>1, <4>0 DEF Rejected, TypeOK
      <4>2. TypeOK'
        BY <2>5, <3>0, <3>1, <4>1 DEF Rejected, TypeOK, table, feed, walk
      <4>3. FeedOK'
        BY <2>5, <3>1 DEF Rejected, TypeOK, FeedOK, feed
      <4> QED
        BY <4>2, <4>3
    <3>2. CASE ~MayRetry(p)
      <4>1. Return(p, FALSE) /\ stream' = stream /\ job[p].pc # "idle"
        BY <2>5, <3>2 DEF Rejected
      <4> QED
        BY <2>5, <3>0, <4>1, ReturnType DEF Rejected, TypeOK, table
    <3> QED
      BY <3>1, <3>2
  <2> QED
    BY <1>6, <2>1, <2>2, <2>3, <2>4, <2>5 DEF Reconcile
<1>7. ASSUME NEW p \in Processes, Fault(p)
      PROVE  TypeOK' /\ FeedOK'
  <2>1. Return(p, FALSE) /\ stream' = stream /\ job[p].pc # "idle"
    BY <1>7 DEF Fault
  <2>2. faults' \in 0 .. MaxFaults
    BY <1>7 DEF Fault, TypeOK
  <2> QED
    BY <1>7, <2>1, <2>2, ReturnType DEF Fault, TypeOK, table
<1>8. ASSUME NEW p \in Processes, Unacknowledged(p)
      PROVE  TypeOK' /\ FeedOK'
  <2>1. /\ Return(p, FALSE) /\ stream' = stream /\ job[p].pc # "idle"
        /\ Transact(p)
    BY <1>8 DEF Unacknowledged, Transact
  <2>2. faults' \in 0 .. MaxFaults
    BY <1>8 DEF Unacknowledged, TypeOK
  <2> QED
    BY <1>8, <2>1, <2>2, ReturnType, TransactType DEF Unacknowledged, TypeOK
<1>9. CASE QueryPage
  <2>1. page' \in SUBSET [row : Rows, item : Items]
    BY <1>9 DEF QueryPage, TypeOK, Contents
  <2>2. cursor' \in 0 .. Aborted
    BY <1>9 DEF QueryPage, TypeOK, Aborted, SourcePks
  <2>3. TypeOK'
    BY <1>9, <2>1, <2>2 DEF QueryPage, TypeOK, table, feed
  <2>4. FeedOK'
    BY <1>9 DEF QueryPage, FeedOK, feed
  <2> QED
    BY <2>3, <2>4
<1>10. CASE BackfillItem
  <2>1. PICK entry \in page :
          /\ page' = page \ {entry}
          /\ job' = [job EXCEPT ![Backfill] =
                       [Idle EXCEPT
                          !.pc = "member",
                          !.key = entry.row,
                          !.desired = Contribution(entry.row, entry.item)]]
    BY <1>10 DEF BackfillItem
  <2>2. entry.row \in Rows /\ entry.item \in Contents
    BY DEF TypeOK, Contents
  <2>3. job' \in [Processes -> Jobs]
    BY <2>1, <2>2, ContributionType DEF TypeOK, Jobs
  <2>4. TypeOK'
    BY <1>10, <2>1, <2>3 DEF BackfillItem, TypeOK, table, feed
  <2>5. FeedOK'
    BY <1>10, <2>1 DEF BackfillItem, TypeOK, FeedOK, feed
  <2> QED
    BY <2>4, <2>5
<1>11. CASE UNCHANGED vars
  BY <1>11 DEF TypeOK, FeedOK, vars, table, feed, walk
<1> QED
  BY <1>1, <1>2, <1>3, <1>4, <1>5, <1>6, <1>7, <1>8, <1>9, <1>10, <1>11 DEF Next

-----------------------------------------------------------------------------
(* What the reconciliations in hand know of the table.                     *)

\* A step that leaves the summary alone only has to account for the job it
\* changes.
LEMMA JobsStepOfOne ==
    ASSUME TypeOK, JobsOK, NEW p \in Processes, NEW j,
           job' = [job EXCEPT ![p] = j], summary' = summary,
           JobOK(p)'
    PROVE  JobsOK'
<1>1. ASSUME NEW q \in Processes, q # p
      PROVE  JobOK(q)'
  BY <1>1 DEF TypeOK, JobsOK, JobOK
<1> QED
  BY <1>1 DEF JobsOK

\* A job that has ended knows nothing.
LEMMA JobsStepOfReturn ==
    ASSUME TypeOK, JobsOK, NEW p \in Processes,
           job' = [job EXCEPT ![p] = Idle], summary' = summary
    PROVE  JobsOK'
<1>1. JobOK(p)'
  BY IdleType DEF TypeOK, JobOK
<1> QED
  BY <1>1, JobsStepOfOne

\* A transaction that is applied was based on the current summary, and
\* outdates every other summary that was read.
LEMMA TransactFacts ==
    ASSUME TypeOK, JobsOK, NEW p \in Processes, Transact(p)
    PROVE  /\ job[p].key \in Rows
           /\ job[p].previous = member[job[p].key]
           /\ job[p].base.counts = summary.counts
           /\ summary.present
           /\ summary'.present
           /\ summary'.revision = summary.revision + 1
           /\ summary'.counts = Shifted(summary.counts,
                                        CountedAs(job[p].key), job[p].desired)
           /\ member' = [member EXCEPT ![job[p].key] =
                           [present |-> TRUE, contribution |-> job[p].desired]]
           /\ \E item \in Contents :
                 job[p].desired = Contribution(job[p].key, item)
<1>1. JobOK(p) /\ job[p].pc = "commit"
  BY DEF JobsOK, Transact
<1>2. summary.present /\ job[p].base.revision = summary.revision
  BY <1>1 DEF JobOK, Transact, Conditions, SummaryUnchanged
<1>3. job[p].base.counts = summary.counts
  BY <1>1, <1>2 DEF JobOK
<1>4. job[p].key \in Rows
  BY DEF TypeOK, Jobs
<1> QED
  BY <1>1, <1>2, <1>3, <1>4
     DEF JobOK, Transact, Conditions, MembershipUnchanged, CountedAs

\* A transaction moves the summary's revision on, so what every other process
\* read of the summary stays no newer than it (the condition of the next put).
LEMMA JobsStepOfTransact ==
    ASSUME TypeOK, JobsOK, NEW p \in Processes, Transact(p),
           job' = [job EXCEPT ![p] = Idle]
    PROVE  JobsOK'
<1>1. summary'.present /\ summary'.revision = summary.revision + 1
  BY TransactFacts
<1>2. summary.revision \in Nat
  BY DEF TypeOK, SummaryItems
<1>3. ASSUME NEW q \in Processes
      PROVE  JobOK(q)'
  <2>1. CASE q = p
    BY <2>1, IdleType DEF TypeOK, JobOK
  <2>2. CASE q # p
    <3>1. job'[q] = job[q] /\ JobOK(q) /\ job[q].base.revision \in Nat
      BY <2>2 DEF TypeOK, JobsOK, Jobs, SummaryItems
    <3> QED
      BY <1>1, <1>2, <3>1 DEF JobOK
  <2> QED
    BY <2>1, <2>2
<1> QED
  BY <1>1, <1>3 DEF JobsOK

\* Every step keeps what the reconciliations know.
LEMMA JobsStep ==
    TypeOK /\ FeedOK /\ JobsOK /\ [Next]_vars => JobsOK'
<1> SUFFICES ASSUME TypeOK, FeedOK, JobsOK, [Next]_vars
             PROVE  JobsOK'
  OBVIOUS
<1>1. ASSUME summary' = summary, job' = job
      PROVE  JobsOK'
  BY <1>1 DEF JobsOK, JobOK
<1>2. ASSUME NEW r \in Rows, NEW item \in Contents, Write(r, item)
      PROVE  JobsOK'
  BY <1>1, <1>2 DEF Write
<1>3. ASSUME NEW s \in Shards, Invoke(s) \/ Checkpoint(s)
      PROVE  JobsOK'
  BY <1>1, <1>3 DEF Invoke, Checkpoint, table
<1>4. ASSUME NEW s \in Shards, TakeRecord(s)
      PROVE  JobsOK'
  <2>1. JobOK(s)'
    BY <1>4, IdleType DEF TakeRecord, TypeOK, JobOK, Jobs
  <2> QED
    BY <1>4, <2>1, JobsStepOfOne DEF TakeRecord, table
<1>5. ASSUME NEW s \in Shards, Timeout(s)
      PROVE  JobsOK'
  BY <1>5, JobsStepOfReturn DEF Timeout, table
<1>6. ASSUME NEW p \in Processes, ReadSource(p)
      PROVE  JobsOK'
  <2>1. source[job[p].key] \in Contents
    BY DEF TypeOK, Jobs
  <2>2. JobOK(p)'
    BY <1>6, <2>1 DEF ReadSource, TypeOK, Jobs, JobOK
  <2> QED
    BY <1>6, <2>2, JobsStepOfOne DEF ReadSource, table
<1>7. ASSUME NEW p \in Processes, ReadMembership(p)
      PROVE  JobsOK'
  <2> DEFINE j == IF AlreadyCounted(p) THEN Idle
                  ELSE [job[p] EXCEPT !.pc = "summary",
                                      !.previous = member[job[p].key]]
  <2>1. job' = [job EXCEPT ![p] = j] /\ summary' = EnsuredSummary
    BY <1>7 DEF ReadMembership, Return, TypeOK
  <2>2. j.pc # "commit" /\ (j.pc # "idle" => /\ j.desired = job[p].desired
                                             /\ j.key = job[p].key)
    BY IdleType DEF TypeOK, Jobs
  <2>3. summary'.present
    BY <2>1 DEF EnsuredSummary, EmptySummary
  <2>4. JobOK(p)'
    <3> HIDE DEF j
    <3>1. JobOK(p) /\ job[p].pc = "member"
      BY <1>7 DEF JobsOK, ReadMembership
    <3>2. job'[p] = j
      BY <2>1 DEF TypeOK
    <3>3. j.pc \in {"idle", "summary"}
      BY IdleType DEF j, TypeOK, Jobs
    <3> QED
      BY <2>2, <2>3, <3>1, <3>2, <3>3 DEF JobOK
  <2>5. ASSUME NEW q \in Processes, q # p
        PROVE  JobOK(q)'
    <3>1. job'[q] = job[q] /\ JobOK(q)
      BY <2>1, <2>5 DEF TypeOK, JobsOK
    <3>2. job[q].pc = "commit" => summary' = summary
      BY <2>1, <3>1 DEF JobOK, EnsuredSummary
    <3> QED
      BY <2>3, <3>1, <3>2 DEF JobOK
  <2> QED
    BY <2>3, <2>4, <2>5 DEF JobsOK
<1>8. ASSUME NEW p \in Processes, ReadSummary(p)
      PROVE  JobsOK'
  <2>1. summary.revision \in Nat /\ JobOK(p) /\ job[p].pc = "summary"
    BY <1>8 DEF TypeOK, SummaryItems, JobsOK, ReadSummary
  <2>2. JobOK(p)'
    BY <1>8, <2>1 DEF ReadSummary, TypeOK, Jobs, JobOK, table
  <2> QED
    BY <1>8, <2>2, JobsStepOfOne DEF ReadSummary, table
<1>9. ASSUME NEW p \in Processes, Commit(p) \/ Unacknowledged(p)
      PROVE  JobsOK'
  BY <1>9, JobsStepOfTransact DEF Commit, Unacknowledged, Return
<1>10. ASSUME NEW p \in Processes, Rejected(p)
       PROVE  JobsOK'
  <2>1. CASE MayRetry(p)
    <3> DEFINE j == [Idle EXCEPT !.pc = "source", !.key = job[p].key,
                                 !.attempt = job[p].attempt + 1]
    <3>0. job' = [job EXCEPT ![p] = j]
      BY <1>10, <2>1 DEF Rejected
    <3>1. j.pc = "source"
      BY IdleType DEF Jobs
    <3> HIDE DEF j
    <3>3. job'[p].pc = "source"
      BY <3>0, <3>1 DEF TypeOK
    <3>2. JobOK(p)'
      BY <3>3 DEF JobOK
    <3> QED
      BY <1>10, <2>1, <3>0, <3>2, JobsStepOfOne DEF Rejected, table
  <2>2. CASE ~MayRetry(p)
    BY <1>10, <2>2, JobsStepOfReturn DEF Rejected, Return, table
  <2> QED
    BY <2>1, <2>2
<1>11. ASSUME NEW p \in Processes, Fault(p)
       PROVE  JobsOK'
  BY <1>11, JobsStepOfReturn DEF Fault, Return, table
<1>12. CASE QueryPage
  BY <1>1, <1>12 DEF QueryPage, table
<1>13. CASE BackfillItem
  <2>1. PICK entry \in page :
          job' = [job EXCEPT ![Backfill] =
                    [Idle EXCEPT
                       !.pc = "member",
                       !.key = entry.row,
                       !.desired = Contribution(entry.row, entry.item)]]
    BY <1>13 DEF BackfillItem
  <2>2. entry.item \in Contents
    BY DEF TypeOK, Contents
  <2>3. JobOK(Backfill)'
    BY <2>1, <2>2, IdleType DEF TypeOK, Jobs, JobOK
  <2> QED
    BY <1>13, <2>1, <2>3, JobsStepOfOne DEF BackfillItem, table
<1>14. CASE UNCHANGED vars
  BY <1>1, <1>14 DEF vars, table
<1> QED
  BY <1>2, <1>3, <1>4, <1>5, <1>6, <1>7, <1>8, <1>9, <1>10, <1>11, <1>12,
     <1>13, <1>14 DEF Next, Reconcile

-----------------------------------------------------------------------------
(* The counters are the sum of the memberships.                            *)

\* The contribution every row is counted with.
Counted == [r \in Rows |-> CountedAs(r)]

\* The memberships assign a set of counters to every row.
LEMMA CountedType == TypeOK => Counted \in [Rows -> SUBSET Counters]
BY DEF TypeOK, Counted, CountedAs, MembershipItems

\* The invariant says that the published counters are those of Counted.
LEMMA MatchIsCountsOf ==
    TypeOK => (SummaryMatchesMembership <=> Counts = CountsOf(Counted))
BY DEF TypeOK, SummaryMatchesMembership, CountsOf, Counted, Counts, SummaryItems

\* A transaction recounts one row, and every counter moves with it.
LEMMA TransactRecounts ==
    ASSUME TypeOK, JobsOK, SummaryMatchesMembership,
           NEW p \in Processes, Transact(p)
    PROVE  /\ Counted' = [Counted EXCEPT ![job[p].key] = job[p].desired]
           /\ Counts' = CountsOf(Counted')
<1>1. /\ job[p].key \in Rows /\ job[p].desired \in SUBSET Counters
      /\ Counted \in [Rows -> SUBSET Counters]
  BY CountedType DEF TypeOK, Jobs
<1>2. Counted' = [Counted EXCEPT ![job[p].key] = job[p].desired]
  <2> DEFINE new == [present |-> TRUE, contribution |-> job[p].desired]
  <2>1. member' = [member EXCEPT ![job[p].key] = new]
    BY TransactFacts
  <2>2. ASSUME NEW r \in Rows
        PROVE  CountedAs(r)' = IF r = job[p].key THEN job[p].desired
                                                ELSE CountedAs(r)
    BY <1>1, <2>1 DEF TypeOK, CountedAs
  <2> QED
    BY <1>1, <2>2 DEF Counted
<1>3. Counts' = Shifted(Counts, Counted[job[p].key], job[p].desired)
  BY <1>1, TransactFacts DEF Counts, Counted
<1>4. Counts = CountsOf(Counted)
  BY MatchIsCountsOf
<1> HIDE DEF Counted
<1> QED
  BY <1>1, <1>2, <1>3, <1>4, RecountShifts

\* Only a transaction writes a membership or a counter.
LEMMA WhoWrites ==
    ASSUME TypeOK, JobsOK, [Next]_vars
    PROVE  \/ \E p \in Processes : Transact(p)
           \/ member' = member /\ Counts' = Counts
<1>1. ASSUME NEW p \in Processes, ReadMembership(p)
      PROVE  member' = member /\ Counts' = Counts
  BY <1>1 DEF ReadMembership, EnsuredSummary, Counts, JobsOK, NoSummary,
              EmptySummary
<1>2. ASSUME NEW p \in Processes, Reconcile(p) \/ Fault(p) \/ Unacknowledged(p)
      PROVE  Transact(p) \/ (member' = member /\ Counts' = Counts)
  BY <1>1, <1>2 DEF Reconcile, ReadSource, ReadSummary, Commit, Rejected, Fault,
                    Unacknowledged, Counts, table
<1>3. CASE ~ \E p \in Processes : Reconcile(p) \/ Fault(p) \/ Unacknowledged(p)
  BY <1>3 DEF Next, Write, Invoke, TakeRecord, Checkpoint, Timeout, QueryPage,
              BackfillItem, Counts, vars, table
<1> QED
  BY <1>2, <1>3

\* No step of any process, a transaction included, makes a counter differ from
\* the number of memberships that hold it.
LEMMA CountStep ==
    TypeOK /\ FeedOK /\ JobsOK /\ SummaryMatchesMembership /\ [Next]_vars
      => SummaryMatchesMembership'
<1> SUFFICES ASSUME TypeOK, FeedOK, JobsOK, SummaryMatchesMembership, [Next]_vars
             PROVE  SummaryMatchesMembership'
  OBVIOUS
<1>1. CASE \E p \in Processes : Transact(p)
  <2>1. Counts' = CountsOf(Counted')
    BY <1>1, TransactRecounts
  <2>2. Counts' \in [Counters -> Nat]
    BY TypeStep DEF TypeOK, Counts, SummaryItems
  <2> QED
    BY <2>1 DEF SummaryMatchesMembership, CountsOf, Counted
<1>2. CASE member' = member /\ Counts' = Counts
  BY <1>2 DEF SummaryMatchesMembership, CountedAs
<1> QED
  BY <1>1, <1>2, WhoWrites

\* Every step leaves every row counted with a contribution of some content:
\* the transaction writes the contribution that the reconciliation computed.
LEMMA MembersStep == TypeOK /\ JobsOK /\ MembersOK /\ [Next]_vars => MembersOK'
<1> SUFFICES ASSUME TypeOK, JobsOK, MembersOK, [Next]_vars, NEW r \in Rows
             PROVE  \E item \in Contents : CountedAs(r)' = Contribution(r, item)
  BY DEF MembersOK
<1>1. ASSUME NEW p \in Processes, Transact(p)
      PROVE  \E item \in Contents : CountedAs(r)' = Contribution(r, item)
  <2> DEFINE new == [present |-> TRUE, contribution |-> job[p].desired]
  <2>1. member' = [member EXCEPT ![job[p].key] = new]
    BY <1>1, TransactFacts
  <2>2. CASE r = job[p].key
    BY <1>1, <2>1, <2>2, TransactFacts DEF TypeOK, CountedAs
  <2>3. CASE r # job[p].key
    BY <2>1, <2>3 DEF TypeOK, CountedAs, MembersOK
  <2> QED
    BY <2>2, <2>3
<1>2. CASE member' = member
  BY <1>2 DEF MembersOK, CountedAs
<1> QED
  BY <1>1, <1>2, WhoWrites

-----------------------------------------------------------------------------
(* The theorems.                                                           *)

\* The tables of a new deployment satisfy the inductive invariant.
LEMMA InitIndInv == Init => IndInv
<1> SUFFICES ASSUME Init PROVE IndInv
  OBVIOUS
<1>1. TypeOK
  <2>1. summary \in SummaryItems /\ member \in [Rows -> MembershipItems]
    BY DEF Init, NoSummary, EmptySummary, SummaryItems, NoMembership, MembershipItems
  <2>2. cursor \in 0 .. Aborted
    BY DEF Init, Aborted, SourcePks
  <2>3. writes \in [Rows -> 0 .. MaxWrites] /\ faults \in 0 .. MaxFaults
    BY ParametersAssumption DEF Init
  <2>4. <<>> \in Seq(Rows)
    OBVIOUS
  <2>5. job \in [Processes -> Jobs]
    BY IdleType DEF Init
  <2> QED
    BY <2>1, <2>2, <2>3, <2>4, <2>5, ParametersAssumption DEF Init, TypeOK
<1>2. FeedOK
  BY ParametersAssumption, IdleType DEF Init, FeedOK
<1>3. JobsOK
  BY IdleType DEF Init, JobsOK, JobOK
<1>4. MembersOK
  <2>1. NoItem \in Contents /\ \A r \in Rows : Contribution(r, NoItem) = {}
    BY DEF Contents, Contribution
  <2> QED
    BY <2>1 DEF Init, MembersOK, CountedAs, NoMembership
<1>5. SummaryMatchesMembership
  <2> SUFFICES ASSUME NEW c \in Counters
               PROVE  Counts[c] = Cardinality({r \in Rows : c \in CountedAs(r)})
    BY DEF SummaryMatchesMembership
  <2>1. {r \in Rows : c \in CountedAs(r)} = {} /\ Counts[c] = 0
    BY DEF Init, CountedAs, NoMembership, Counts, NoSummary, EmptySummary
  <2> QED
    BY <2>1, FS_EmptySet
<1> QED
  BY <1>1, <1>2, <1>3, <1>4, <1>5 DEF IndInv

\* The inductive invariant holds of every behaviour of the consumers.
THEOREM Invariance == Spec => []IndInv
<1>1. IndInv /\ [Next]_vars => IndInv'
  BY TypeStep, JobsStep, MembersStep, CountStep DEF IndInv
<1> QED
  BY InitIndInv, <1>1, PTL DEF Spec

\* The consumers and the backfill keep every item in its shape.
THEOREM TypeCorrectness == Spec => []TypeOK
<1>1. IndInv => TypeOK
  BY DEF IndInv
<1> QED
  BY Invariance, <1>1, PTL

\* No interleaving of consumers, backfill, lost answers and killed
\* invocations makes a counter differ from the memberships it sums
\* (_reconcile_contribution).
THEOREM SummaryIsMembership == Spec => []SummaryMatchesMembership
<1>1. IndInv => SummaryMatchesMembership
  BY DEF IndInv
<1> QED
  BY Invariance, <1>1, PTL

\* The rows of one channel and view that a summary of memberships counts.
LEMMA ViewsOfCounted ==
    ASSUME NEW r \in Rows, NEW item \in Contents,
           NEW featured \in BOOLEAN, NEW ch \in Channels
    PROVE  LET In(v) == << <<v, featured>>, ch >> \in Contribution(r, item)
           IN  /\ In("all") <=> In("visible") \/ In("quarantined")
               /\ ~(In("visible") /\ In("quarantined"))
BY DEF Contribution

\* Counters that are sums of memberships agree between the three view roots,
\* because every single contribution does.
LEMMA IndInvViewsAgree == IndInv => ViewsAgree
<1> SUFFICES ASSUME IndInv, NEW featured \in BOOLEAN, NEW ch \in Channels
             PROVE  Counts[<< <<"all", featured>>, ch >>] =
                      Counts[<< <<"visible", featured>>, ch >>]
                        + Counts[<< <<"quarantined", featured>>, ch >>]
  BY DEF ViewsAgree
<1> DEFINE C(v) == << <<v, featured>>, ch >>
           In(v) == {r \in Rows : C(v) \in CountedAs(r)}
<1>1. \A v \in Views : C(v) \in Counters
  BY DEF Counters
<1>2. \A v \in Views : Counts[C(v)] = Cardinality(In(v)) /\ IsFiniteSet(In(v))
  BY <1>1, RowsAssumption, FS_Subset DEF IndInv, SummaryMatchesMembership
<1>3. In("all") = In("visible") \cup In("quarantined")
  BY ViewsOfCounted DEF IndInv, MembersOK
<1>4. In("visible") \cap In("quarantined") = {}
  BY ViewsOfCounted, ZenonT(60) DEF IndInv, MembersOK
<1> HIDE DEF In, C
<1> DEFINE A == In("all")
           V == In("visible")
           Q == In("quarantined")
<1>5. Cardinality(A) = Cardinality(V) + Cardinality(Q)
  <2>1. A = V \cup Q /\ V \cap Q = {} /\ IsFiniteSet(V) /\ IsFiniteSet(Q)
    BY <1>2, <1>3, <1>4 DEF Views
  <2> HIDE DEF A, V, Q
  <2>2. Cardinality(V) \in Nat /\ Cardinality(Q) \in Nat
    BY <2>1, FS_CardinalityType
  <2>3. Cardinality(V \cup Q) =
          Cardinality(V) + Cardinality(Q) - Cardinality(V \cap Q)
    BY <2>1, FS_Union
  <2>4. Cardinality(V \cap Q) = 0
    BY <2>1, FS_EmptySet
  <2>5. Cardinality(V) + Cardinality(Q) - 0 = Cardinality(V) + Cardinality(Q)
    BY <2>2
  <2> QED
    BY <2>1, <2>3, <2>4, <2>5
<1> QED
  BY <1>2, <1>5 DEF Views, C

\* The roots that readers combine agree in every published summary: "all" is
\* "visible" plus "quarantined" for every channel (counts_for).
THEOREM ViewsAlwaysAgree == Spec => []ViewsAgree
BY Invariance, IndInvViewsAgree, PTL

-----------------------------------------------------------------------------
(* The consumers implement the abstract view.                              *)

\* The initial tables are an initial state of the abstract view.
LEMMA ViewInit == Init => View!Init
<1> SUFFICES ASSUME Init PROVE View!Init
  OBVIOUS
<1>1. [r \in Rows |-> CountedAs(r)] = [r \in Rows |-> {}]
  BY DEF Init, CountedAs, NoMembership
<1>2. Counts = [c \in Counters |-> 0]
  BY DEF Init, Counts, NoSummary, EmptySummary
<1> QED
  BY <1>1, <1>2 DEF View!Init, View!Counters, Counters, Views, View!Views,
                    BacklogStatuses, View!BacklogStatuses

\* Every step recounts one row of the abstract view, or leaves it alone.
LEMMA ViewStep ==
    IndInv /\ [Next]_vars
      => [View!Next]_<<[r \in Rows |-> CountedAs(r)], Counts>>
<1> SUFFICES ASSUME IndInv, [Next]_vars
             PROVE  [View!Next]_<<[r \in Rows |-> CountedAs(r)], Counts>>
  OBVIOUS
<1> USE DEF IndInv
<1>1. ASSUME NEW p \in Processes, Transact(p)
      PROVE  View!Next
  <2>1. /\ Counted' = [Counted EXCEPT ![job[p].key] = job[p].desired]
        /\ Counts' = CountsOf(Counted')
    BY <1>1, TransactRecounts
  <2>2. PICK item \in Contents : job[p].desired = Contribution(job[p].key, item)
    BY <1>1, TransactFacts
  <2>3. job[p].key \in Rows
    BY <1>1, TransactFacts
  <2>4. View!Recount(job[p].key)
    <3>1. item \in View!Contents
      BY DEF Contents, View!Contents, Items, View!Items
    <3>2. View!Contribution(job[p].key, item) = Contribution(job[p].key, item)
      BY DEF Contribution, View!Contribution, BacklogStatuses,
             View!BacklogStatuses
    <3>3. View!CountsOf(Counted') = CountsOf(Counted')
      <4>1. View!Counters = Counters
        BY DEF Counters, View!Counters, Views, View!Views, BacklogStatuses,
               View!BacklogStatuses
      <4>2. \A S : View!Cardinality(S) = Cardinality(S)
        BY DEF Cardinality, View!Cardinality, IsFiniteSet, View!IsFiniteSet
      <4>3. \A m : View!CountsOf(m) = CountsOf(m)
        BY <4>1, <4>2 DEF CountsOf, View!CountsOf
      <4> QED
        BY <4>3, Zenon
    <3>4. /\ Counted' = [Counted EXCEPT ![job[p].key] =
                           View!Contribution(job[p].key, item)]
          /\ Counts' = View!CountsOf(Counted')
      BY <2>1, <2>2, <3>2, <3>3
    <3> QED
      BY <3>1, <3>4, Zenon DEF View!Recount, Counted
  <2> QED
    BY <2>3, <2>4 DEF View!Next
<1>2. CASE member' = member /\ Counts' = Counts
  BY <1>2 DEF CountedAs
<1> QED
  BY <1>1, <1>2, WhoWrites

\* Readers of the summary item only ever see the exact count of one
\* assignment of rows to contributions that moves one row at a time, whatever
\* the consumers, the backfill and the failures do.
THEOREM Implementation == Spec => ImplementsView
<1>1. Init => View!Init
  BY ViewInit
<1>2. IndInv /\ [Next]_vars
        => [View!Next]_<<[r \in Rows |-> CountedAs(r)], Counts>>
  BY ViewStep
<1> QED
  BY <1>1, <1>2, Invariance, PTL DEF ImplementsView, Spec, View!Spec

-----------------------------------------------------------------------------
(* No change is forgotten: what a step of a reconciliation does to a row.  *)

\* The reconciliation of p goes on: with a contribution of the row's current
\* content, or with the one it had.
Proceeds(p) ==
    /\ job[p].pc # "idle"
    /\ UNCHANGED <<source, member, stream, feed, walk, writes>>
    /\ \E j \in Jobs :
          /\ job' = [job EXCEPT ![p] = j]
          /\ j.pc # "idle" /\ j.key = job[p].key
          /\ j.pc \in {"member", "summary", "commit"} =>
                \/ j.desired = Contribution(j.key, source[j.key])
                \/ Computed(p) /\ j.desired = job[p].desired

\* It ends, and has counted its row as it wanted unless it failed.
Ends(p, ok) ==
    /\ job[p].pc # "idle" /\ Return(p, ok)
    /\ UNCHANGED <<source, stream, writes>>
    /\ \A r \in Rows : r # job[p].key => member'[r] = member[r]
    /\ ~ok => \/ member' = member
              \/ Computed(p) /\ member'[job[p].key].contribution = job[p].desired
    /\ ok => Computed(p) /\ member'[job[p].key].contribution = job[p].desired

LEMMA ReconciliationKinds ==
    ASSUME TypeOK, NEW p \in Processes,
           Reconcile(p) \/ Fault(p) \/ Unacknowledged(p)
    PROVE  Proceeds(p) \/ \E ok \in BOOLEAN : Ends(p, ok)
<1>0. job[p] \in Jobs /\ job[p].key \in Rows /\ job \in [Processes -> Jobs]
  BY DEF TypeOK, Jobs
<1>1. CASE ReadSource(p)
  <2>1. PICK j : j = [job[p] EXCEPT !.pc = "member",
                        !.desired = Contribution(job[p].key, source[job[p].key])]
    OBVIOUS
  <2>2. Contribution(job[p].key, source[job[p].key]) \in SUBSET Counters
    BY <1>0, ContributionType DEF TypeOK
  <2>3. /\ j \in Jobs /\ j.pc # "idle" /\ j.key = job[p].key
        /\ j.desired = Contribution(j.key, source[j.key])
    BY <1>0, <2>1, <2>2 DEF Jobs
  <2> QED
    BY <1>1, <2>1, <2>3 DEF ReadSource, Proceeds, table
<1>2. CASE ReadMembership(p) /\ AlreadyCounted(p)
  <2>1. Ends(p, TRUE)
    BY <1>2 DEF ReadMembership, AlreadyCounted, Ends, Computed, CountedAs
  <2> QED
    BY <2>1
<1>3. CASE ReadMembership(p) /\ ~AlreadyCounted(p)
  <2>1. PICK j : j = [job[p] EXCEPT !.pc = "summary",
                                    !.previous = member[job[p].key]]
    OBVIOUS
  <2>2. member[job[p].key] \in MembershipItems
    BY <1>0 DEF TypeOK
  <2>3. /\ j \in Jobs /\ j.pc # "idle" /\ j.key = job[p].key
        /\ j.desired = job[p].desired
    BY <1>0, <2>1, <2>2 DEF Jobs
  <2> QED
    BY <1>3, <2>1, <2>3 DEF ReadMembership, Proceeds, Computed
<1>4. CASE ReadSummary(p)
  <2>1. PICK j : j = [job[p] EXCEPT !.pc = "commit", !.base = summary]
    OBVIOUS
  <2>2. /\ j \in Jobs /\ j.pc # "idle" /\ j.key = job[p].key
        /\ j.desired = job[p].desired
    BY <1>0, <2>1 DEF Jobs, TypeOK
  <2> QED
    BY <1>4, <2>1, <2>2 DEF ReadSummary, Proceeds, Computed, table
<1>5. CASE Rejected(p) /\ MayRetry(p)
  <2>1. PICK j : j = [Idle EXCEPT !.pc = "source", !.key = job[p].key,
                                  !.attempt = job[p].attempt + 1]
    OBVIOUS
  <2>2. job[p].attempt + 1 \in 0 .. MaxAttempts
    BY <1>0, <1>5, ParametersAssumption DEF MayRetry, Jobs
  <2>3. j \in Jobs
    BY <1>0, <2>1, <2>2, AttemptType
  <2>4. j.pc = "source" /\ j.key = job[p].key
    BY <2>1, IdleType DEF Idle
  <2>5. /\ job[p].pc # "idle" /\ job' = [job EXCEPT ![p] = j]
        /\ UNCHANGED <<source, member, stream, feed, walk, writes>>
    BY <1>5, <2>1 DEF Rejected, table
  <2> QED
    BY <2>3, <2>4, <2>5 DEF Proceeds
<1>6. CASE (Rejected(p) /\ ~MayRetry(p)) \/ Fault(p)
  <2>1. Ends(p, FALSE)
    BY <1>6 DEF Rejected, Fault, Ends, table
  <2> QED
    BY <2>1
<1>7. ASSUME Transact(p)
      PROVE  /\ \A r \in Rows : r # job[p].key => member'[r] = member[r]
             /\ Computed(p) /\ member'[job[p].key].contribution = job[p].desired
             /\ job[p].pc # "idle"
  BY <1>0, <1>7 DEF Transact, TypeOK, Computed
<1>8. CASE Commit(p)
  <2>1. Ends(p, TRUE)
    BY <1>7, <1>8 DEF Commit, Ends
  <2> QED
    BY <2>1
<1>9. CASE Unacknowledged(p)
  <2>1. Ends(p, FALSE)
    BY <1>7, <1>9 DEF Unacknowledged, Ends
  <2> QED
    BY <2>1
<1> QED
  BY <1>1, <1>2, <1>3, <1>4, <1>5, <1>6, <1>8, <1>9 DEF Reconcile

-----------------------------------------------------------------------------
(* Records further on in a stream.                                         *)

LEMMA LaterLess ==
    ASSUME NEW s, NEW r, NEW n \in Int, NEW m \in Int, m <= n, Later(s, r, n)
    PROVE  Later(s, r, m)
<1>1. PICK i \in 1 .. Len(stream[s]) : i > n /\ stream[s][i] = r
  BY DEF Later
<1>2. i > m
  BY <1>1
<1> QED
  BY <1>1, <1>2 DEF Later

\* The record in hand is of another row, so it is not the one that counts.
LEMMA LaterNext ==
    ASSUME NEW s, NEW r, NEW n \in Int, Later(s, r, n - 1), stream[s][n] # r
    PROVE  Later(s, r, n)
<1>1. PICK i \in 1 .. Len(stream[s]) : i > n - 1 /\ stream[s][i] = r
  BY DEF Later
<1>2. i # n
  BY <1>1
<1>3. i > n
  BY <1>1, <1>2
<1> QED
  BY <1>1, <1>3 DEF Later

LEMMA SameStream ==
    ASSUME stream' = stream, NEW s, NEW r, NEW n
    PROVE  Later(s, r, n)' <=> Later(s, r, n)
BY DEF Later

\* A write of row r appends a record of r to its shard.
LEMMA WriteAppendsRecord ==
    ASSUME TypeOK, NEW r \in Rows, NEW item \in Contents, Write(r, item)
    PROVE  /\ \A s \in Shards, q \in Rows, n \in Int :
                 Later(s, q, n) => Later(s, q, n)'
           /\ \A s \in Shards, q \in Rows :
                 q # r => (Later(s, q, 0)' => Later(s, q, 0))
           /\ \A n \in Int : n <= Len(stream[ShardOf[r]]) =>
                 Later(ShardOf[r], r, n)'
           /\ \A s \in Shards :
                 /\ Len(stream'[s]) >= Len(stream[s])
                 /\ \A i \in 1 .. Len(stream[s]) : stream'[s][i] = stream[s][i]
                 /\ \A i \in 1 .. Len(stream'[s]) : i > Len(stream[s]) =>
                       s = ShardOf[r] /\ stream'[s][i] = r
<1> DEFINE t == ShardOf[r]
<1>1. t \in Shards /\ stream[t] \in Seq(Rows) /\ stream \in [Shards -> Seq(Rows)]
  BY ParametersAssumption DEF TypeOK
<1>2. stream' = [stream EXCEPT ![t] = Append(stream[t], r)]
  BY DEF Write
<1>3. /\ Len(stream'[t]) = Len(stream[t]) + 1
      /\ \A i \in 1 .. Len(stream[t]) : stream'[t][i] = stream[t][i]
      /\ stream'[t][Len(stream[t]) + 1] = r
  <2>1. stream'[t] = Append(stream[t], r)
    BY <1>1, <1>2
  <2> QED
    BY <1>1, <2>1, AppendProperties
<1>4. \A s \in Shards : s # t => stream'[s] = stream[s]
  BY <1>1, <1>2
<1>5. \A s \in Shards : Len(stream[s]) \in Nat
  BY <1>1, LenProperties
<1>6. ASSUME NEW s \in Shards
      PROVE  /\ Len(stream'[s]) >= Len(stream[s])
             /\ \A i \in 1 .. Len(stream[s]) : stream'[s][i] = stream[s][i]
             /\ \A i \in 1 .. Len(stream'[s]) : i > Len(stream[s]) =>
                   s = ShardOf[r] /\ stream'[s][i] = r
  <2>1. CASE s = t
    BY <1>3, <1>5, <2>1
  <2>2. CASE s # t
    BY <1>4, <1>5, <2>2
  <2> QED
    BY <2>1, <2>2
<1>7. ASSUME NEW s \in Shards, NEW q \in Rows, NEW n \in Int, Later(s, q, n)
      PROVE  Later(s, q, n)'
  <2>1. PICK i \in 1 .. Len(stream[s]) : i > n /\ stream[s][i] = q
    BY <1>7 DEF Later
  <2>2. i \in 1 .. Len(stream'[s]) /\ stream'[s][i] = q
    <3>1. Len(stream'[s]) \in Nat
      BY <1>3, <1>4, <1>5
    <3> QED
      BY <1>5, <1>6, <2>1, <3>1
  <2> QED
    BY <2>1, <2>2 DEF Later
<1>8. ASSUME NEW s \in Shards, NEW q \in Rows, q # r, Later(s, q, 0)'
      PROVE  Later(s, q, 0)
  <2>1. PICK i \in 1 .. Len(stream'[s]) : i > 0 /\ stream'[s][i] = q
    BY <1>8 DEF Later
  <2>2. ~(i > Len(stream[s]))
    BY <1>6, <1>8, <2>1
  <2>3. i \in 1 .. Len(stream[s]) /\ stream[s][i] = q
    BY <1>5, <1>6, <2>1, <2>2
  <2> QED
    BY <2>1, <2>3 DEF Later
<1>9. ASSUME NEW n \in Int, n <= Len(stream[t])
      PROVE  Later(t, r, n)'
  <2>1. Len(stream[t]) + 1 \in 1 .. Len(stream'[t])
    BY <1>1, <1>3, <1>5
  <2>2. Len(stream[t]) + 1 > n
    BY <1>1, <1>5, <1>9
  <2> QED
    BY <1>3, <2>1, <2>2 DEF Later
<1> QED
  BY <1>6, <1>7, <1>8, <1>9

-----------------------------------------------------------------------------
(* Without a backfill: a row counted otherwise still has its record.       *)

\* The parts of QueueInv that a step of one shard's consumer can disturb.
ConsumerOK(s) == OwnRecords(s) /\ WantsCurrent(s)

LEMMA WriteQueues ==
    ASSUME TypeOK, FeedOK, QueueInv, NEW r \in Rows, NEW item \in Contents,
           Write(r, item)
    PROVE  QueueInv'
<1>1. /\ UNCHANGED <<member, batch, pos, failed, job, page>>
      /\ \A q \in Rows : q # r => source'[q] = source[q]
  BY DEF Write, feed, walk, TypeOK
<1>2. \A s \in Shards : /\ Len(stream[s]) \in Nat /\ Len(stream'[s]) \in Nat
                        /\ pos[s] \in Nat /\ failed[s] \in Nat
  <2>1. stream' \in [Shards -> Seq(Rows)]
    BY TypeStep DEF TypeOK, Next
  <2> QED
    BY <2>1, LenProperties DEF TypeOK
<1>3. ASSUME NEW s \in Shards
      PROVE  ConsumerOK(s)'
  <2>1. \A i \in 1 .. Len(stream'[s]) : ShardOf[stream'[s][i]] = s
    <3> SUFFICES ASSUME NEW i \in 1 .. Len(stream'[s])
                 PROVE  ShardOf[stream'[s][i]] = s
      OBVIOUS
    <3>1. CASE i > Len(stream[s])
      BY <3>1, WriteAppendsRecord
    <3>2. CASE i \in 1 .. Len(stream[s])
      BY <3>2, WriteAppendsRecord DEF QueueInv, OwnRecords
    <3> QED
      BY <1>2, <3>1, <3>2
  <2>2. job[s].pc # "idle" => pos[s] \in 1 .. Len(stream[s])
    BY <1>2 DEF FeedOK, TypeOK
  <2>3. OwnRecords(s)'
    BY <1>1, <2>1, <2>2, WriteAppendsRecord DEF QueueInv, OwnRecords
  <2>4. WantsCurrent(s)'
    <3> SUFFICES ASSUME Computed(s)
                 PROVE  Wants(s, job[s].key)' \/ Later(s, job[s].key, pos[s])'
      BY <1>1 DEF WantsCurrent, Computed
    <3>1. job[s].key \in Rows /\ job[s].pc # "idle"
      BY DEF TypeOK, Jobs, Computed
    <3>2. PICK k \in Rows, n \in Nat : k = job[s].key /\ n = pos[s]
      BY <1>2, <3>1
    <3>3. CASE k = r
      <4>0. k = stream[s][n] /\ n \in 1 .. Len(stream[s])
        BY <2>2, <3>1, <3>2 DEF QueueInv, OwnRecords
      <4>1. s = ShardOf[r]
        BY <3>3, <4>0 DEF QueueInv, OwnRecords
      <4>2. Later(s, r, n)'
        BY <1>2, <2>2, <3>1, <3>2, <4>1, WriteAppendsRecord
      <4> QED
        BY <1>1, <3>2, <3>3, <4>2 DEF Later
    <3>4. CASE k # r /\ Wants(s, k)
      BY <1>1, <3>2, <3>4 DEF Wants
    <3>5. CASE k # r /\ Later(s, k, n)
      <4>1. Later(s, k, n)'
        BY <3>5, WriteAppendsRecord
      <4> QED
        BY <1>1, <3>2, <4>1 DEF Later
    <3> QED
      BY <3>2, <3>3, <3>4, <3>5 DEF QueueInv, WantsCurrent
  <2> QED
    BY <2>3, <2>4 DEF ConsumerOK
<1>4. ASSUME NEW q \in Rows, ~IsCounted(q)'
      PROVE  Outstanding(q)'
  <2>1. PICK s \in Shards : s = ShardOf[q]
    BY ParametersAssumption
  <2>2. PICK n \in Nat, m \in Nat : n = pos[s] /\ m = failed[s]
    BY <1>2
  <2>3. pos'[s] = n /\ failed'[s] = m /\ batch'[s] = batch[s]
    BY <1>1, <2>2
  <2>4. CASE q = r
    <3>1. batch[s] # 0 => n - 1 <= Len(stream[s])
      BY <1>2, <2>2 DEF FeedOK, TypeOK
    <3>2. Later(s, q, 0)' /\ (batch[s] # 0 => Later(s, q, n - 1)')
      <4>1. \A i \in Int : i <= Len(stream[s]) => Later(s, q, i)'
        BY <2>1, <2>4, WriteAppendsRecord
      <4>2. 0 \in Int /\ n - 1 \in Int /\ 0 <= Len(stream[s])
        BY <1>2
      <4> QED
        BY <3>1, <4>1, <4>2
    <3> QED
      BY <2>1, <2>3, <3>2 DEF Outstanding, Later
  <2>5. CASE q # r
    <3>1. ~IsCounted(q)
      BY <1>1, <1>4, <2>5 DEF IsCounted, CountedAs
    <3>2. Outstanding(q)
      BY <3>1 DEF QueueInv
    <3>3. \/ batch[s] = 0 /\ Later(s, q, 0)'
          \/ Later(s, q, n - 1)'
          \/ m # 0 /\ Later(s, q, m - 1)'
      BY <2>1, <2>2, <3>2, WriteAppendsRecord DEF Outstanding
    <3> QED
      BY <2>1, <2>3, <3>3 DEF Outstanding, Later
  <2> QED
    BY <2>4, <2>5
<1> QED
  BY <1>1, <1>3, <1>4 DEF QueueInv, NoBackfill, ConsumerOK

\* Any step that leaves the rows, their counts and the streams alone, and of which
\* a shard's consumer knows no more than before.
LEMMA FeedQueues ==
    ASSUME TypeOK, QueueInv, NEW s \in Shards,
           UNCHANGED <<source, member, stream, page>>, job'[Backfill] = job[Backfill],
           \A t \in Shards : t # s =>
              /\ batch'[t] = batch[t] /\ pos'[t] = pos[t]
              /\ failed'[t] = failed[t] /\ job'[t] = job[t],
           OwnRecords(s)', WantsCurrent(s)',
           \A r \in Rows : ShardOf[r] = s /\ Outstanding(r) => Outstanding(r)'
    PROVE  QueueInv'
<1>1. ASSUME NEW t \in Shards, t # s
      PROVE  OwnRecords(t)' /\ WantsCurrent(t)'
  BY <1>1 DEF QueueInv, OwnRecords, WantsCurrent, Computed, Wants, Later
<1>2. ASSUME NEW r \in Rows, ~IsCounted(r)'
      PROVE  Outstanding(r)'
  <2>1. Outstanding(r)
    BY <1>2 DEF QueueInv, IsCounted, CountedAs
  <2>2. CASE ShardOf[r] # s
    BY <2>1, <2>2, ParametersAssumption DEF Outstanding, Later
  <2> QED
    BY <2>1, <2>2
<1> QED
  BY <1>1, <1>2 DEF QueueInv, NoBackfill

\* An invocation that begins, or is killed, has every record to deliver.
LEMMA InvokeQueues ==
    ASSUME TypeOK, FeedOK, QueueInv, NEW s \in Shards, Invoke(s) \/ Timeout(s)
    PROVE  QueueInv'
<1>1. /\ UNCHANGED <<source, member, stream, page>>
      /\ \A t \in Shards : t # s =>
            /\ batch'[t] = batch[t] /\ pos'[t] = pos[t]
            /\ failed'[t] = failed[t] /\ job'[t] = job[t]
      /\ job'[Backfill] = job[Backfill]
      /\ job'[s].pc = "idle" /\ failed'[s] = 0
      /\ batch'[s] = 0 \/ pos'[s] = 1
  BY ParametersAssumption, IdleType
     DEF Invoke, Timeout, TypeOK, FeedOK, table, walk
<1>2. OwnRecords(s)'
  BY <1>1 DEF QueueInv, OwnRecords
<1>3. WantsCurrent(s)'
  BY <1>1 DEF WantsCurrent, Computed
<1>4. ASSUME NEW r \in Rows, ShardOf[r] = s, Outstanding(r)
      PROVE  Outstanding(r)'
  <2>1. PICK i \in 1 .. Len(stream[s]) : stream[s][i] = r
    BY <1>4 DEF Outstanding, Later
  <2>2. i > 0 /\ i > 1 - 1
    BY <2>1, LenProperties DEF TypeOK
  <2>3. Later(s, r, 0)' /\ (pos'[s] = 1 => Later(s, r, pos[s] - 1)')
    BY <1>1, <2>1, <2>2 DEF Later
  <2> QED
    BY <1>1, <1>4, <2>3 DEF Outstanding
<1> QED
  BY <1>1, <1>2, <1>3, <1>4, FeedQueues

LEMMA TakeQueues ==
    ASSUME TypeOK, FeedOK, QueueInv, NEW s \in Shards, TakeRecord(s)
    PROVE  QueueInv'
<1>1. /\ UNCHANGED <<source, member, stream, batch, pos, failed, page>>
      /\ \A t \in Shards : t # s => job'[t] = job[t]
      /\ job'[Backfill] = job[Backfill]
  BY ParametersAssumption DEF TakeRecord, TypeOK, table, feed, walk
<1>2. job'[s].pc = "source" /\ job'[s].key = stream[s][pos[s]]
  BY ParametersAssumption DEF TakeRecord, TypeOK, Idle
<1>3. OwnRecords(s)'
  BY <1>1, <1>2 DEF QueueInv, OwnRecords
<1>4. WantsCurrent(s)'
  BY <1>2 DEF WantsCurrent, Computed
<1>5. \A r \in Rows : Outstanding(r) => Outstanding(r)'
  BY <1>1 DEF Outstanding, Later
<1> QED
  BY <1>1, <1>3, <1>4, <1>5, FeedQueues

\* What is checkpointed was handled, and nothing before it had failed.
LEMMA CheckpointQueues ==
    ASSUME TypeOK, FeedOK, QueueInv, NEW s \in Shards, Checkpoint(s)
    PROVE  QueueInv'
<1> DEFINE k == Consumed(s)
           n == Len(stream[s])
<1>1. /\ UNCHANGED <<source, member, page, job>>
      /\ stream' = [stream EXCEPT ![s] = SubSeq(stream[s], k + 1, n)]
      /\ batch' = [batch EXCEPT ![s] = 0] /\ pos' = [pos EXCEPT ![s] = 0]
      /\ failed' = [failed EXCEPT ![s] = 0] /\ job[s].pc = "idle"
  BY DEF Checkpoint, table, walk
<1>2. /\ n \in Nat /\ k \in Nat /\ k <= n /\ batch[s] # 0
      /\ pos[s] > batch[s] /\ batch[s] \in Nat /\ pos[s] \in Nat /\ failed[s] \in Nat
      /\ k = IF failed[s] = 0 THEN batch[s] ELSE failed[s] - 1
      /\ failed[s] <= batch[s]
  BY LenProperties, SMTT(60) DEF Consumed, TypeOK, FeedOK, Checkpoint
<1> HIDE DEF k, n
<1>3. /\ Len(stream'[s]) = n - k
      /\ \A i \in 1 .. n - k : stream'[s][i] = stream[s][i + k]
  <2>1. stream'[s] = SubSeq(stream[s], k + 1, n)
    BY <1>1 DEF TypeOK
  <2>2. \A i \in (k + 1) .. n : stream[s][i] \in Rows
    BY <1>2 DEF TypeOK, n
  <2>3. /\ Len(stream'[s]) = IF k + 1 <= n THEN n - (k + 1) + 1 ELSE 0
        /\ \A i \in 1 .. n - (k + 1) + 1 : stream'[s][i] = stream[s][(k + 1) + i - 1]
    <3>1. k + 1 \in Int /\ n \in Int
      BY <1>2
    <3> QED
      BY <2>1, <2>2, <3>1, SubSeqProperties
  <2>4. (IF k + 1 <= n THEN n - (k + 1) + 1 ELSE 0) = n - k
    BY <1>2
  <2>5. \A i \in 1 .. n - k : i \in 1 .. n - (k + 1) + 1 /\ (k + 1) + i - 1 = i + k
    BY <1>2
  <2> QED
    BY <2>3, <2>4, <2>5
<1>4. \A t \in Shards : t # s =>
         /\ batch'[t] = batch[t] /\ pos'[t] = pos[t]
         /\ failed'[t] = failed[t] /\ stream'[t] = stream[t]
  BY <1>1 DEF TypeOK
<1>5. batch'[s] = 0 /\ failed'[s] = 0
  BY <1>1 DEF TypeOK
<1>6. ASSUME NEW t \in Shards
      PROVE  OwnRecords(t)' /\ WantsCurrent(t)'
  <2>1. CASE t = s
    <3>1. \A i \in 1 .. Len(stream'[s]) : ShardOf[stream'[s][i]] = s
      <4> SUFFICES ASSUME NEW i \in 1 .. Len(stream'[s])
                   PROVE  ShardOf[stream'[s][i]] = s
        OBVIOUS
      <4>1. i + k \in 1 .. n /\ stream'[s][i] = stream[s][i + k]
        <5>1. k \in Nat /\ n \in Nat /\ i \in 1 .. n - k
          BY <1>2, <1>3
        <5>2. i + k \in 1 .. n
          BY <5>1
        <5> QED
          BY <1>3, <5>1, <5>2
      <4> QED
        BY <4>1 DEF QueueInv, OwnRecords, n
    <3> QED
      BY <1>1, <1>5, <2>1, <3>1 DEF OwnRecords, WantsCurrent, Computed
  <2>2. CASE t # s
    BY <1>1, <1>4, <2>2 DEF QueueInv, OwnRecords, WantsCurrent, Computed, Wants, Later
  <2> QED
    BY <2>1, <2>2
<1>7. ASSUME NEW r \in Rows, ~IsCounted(r)'
      PROVE  Outstanding(r)'
  <2>1. Outstanding(r)
    BY <1>1, <1>7 DEF QueueInv, IsCounted, CountedAs
  <2>2. CASE ShardOf[r] # s
    BY <1>4, <2>1, <2>2, ParametersAssumption DEF Outstanding, Later
  <2>3. CASE ShardOf[r] = s
    <3>1. PICK i \in 1 .. n : i > k /\ stream[s][i] = r
      BY <1>2, <2>1, <2>3 DEF Outstanding, Later, n
    <3>2. i - k \in 1 .. n - k /\ i - k > 0 /\ (i - k) + k = i
      BY <1>2, <3>1
    <3>3. stream'[s][i - k] = r
      BY <1>3, <3>1, <3>2
    <3>4. Later(s, r, 0)'
      BY <1>3, <3>2, <3>3 DEF Later
    <3> QED
      BY <1>5, <2>3, <3>4 DEF Outstanding
  <2> QED
    BY <2>2, <2>3
<1> QED
  BY <1>1, <1>6, <1>7 DEF QueueInv, NoBackfill

\* What a reconciliation proceeds with is of the content that it read, or of an
\* earlier one as before.
LEMMA ProceedQueues ==
    ASSUME TypeOK, FeedOK, QueueInv, NEW p \in Processes, Proceeds(p)
    PROVE  QueueInv'
<1>1. p \in Shards
  BY DEF Proceeds, QueueInv, NoBackfill
<1>2. PICK j \in Jobs :
         /\ job' = [job EXCEPT ![p] = j]
         /\ j.pc # "idle" /\ j.key = job[p].key
         /\ j.pc \in {"member", "summary", "commit"} =>
               \/ j.desired = Contribution(j.key, source[j.key])
               \/ Computed(p) /\ j.desired = job[p].desired
  BY DEF Proceeds
<1>3. /\ UNCHANGED <<source, member, stream, batch, pos, failed, page>>
      /\ job[p].pc # "idle"
  BY DEF Proceeds, feed, walk
<1>4. /\ job'[p] = j /\ job'[Backfill] = job[Backfill]
      /\ \A t \in Shards : t # p => job'[t] = job[t]
  BY <1>1, <1>2, ParametersAssumption DEF TypeOK
<1>5. OwnRecords(p)'
  BY <1>1, <1>2, <1>3, <1>4 DEF QueueInv, OwnRecords
<1>6. WantsCurrent(p)'
  <2> SUFFICES ASSUME j.pc \in {"member", "summary", "commit"}
               PROVE  \/ j.desired = Contribution(j.key, source'[j.key])
                      \/ Later(p, j.key, pos[p])
    BY <1>3, <1>4 DEF WantsCurrent, Computed, Wants, Later
  <2> QED
    BY <1>1, <1>2, <1>3 DEF QueueInv, WantsCurrent, Wants
<1>7. \A r \in Rows : Outstanding(r) => Outstanding(r)'
  BY <1>3 DEF Outstanding, Later
<1> QED
  BY <1>1, <1>3, <1>4, <1>5, <1>6, <1>7, FeedQueues

\* The end of a reconciliation: the record in hand is done with only if its row
\* is counted with its current content, or has a record further on.
LEMMA EndQueues ==
    ASSUME TypeOK, FeedOK, QueueInv, NEW p \in Processes, NEW ok \in BOOLEAN,
           Ends(p, ok)
    PROVE  QueueInv'
<1>1. p \in Shards /\ p # Backfill
  BY ParametersAssumption DEF Ends, QueueInv, NoBackfill
<1>2. /\ UNCHANGED <<source, stream, batch, page>>
      /\ job' = [job EXCEPT ![p] = Idle] /\ job[p].pc # "idle"
      /\ pos' = [pos EXCEPT ![p] = pos[p] + 1]
      /\ failed' = [failed EXCEPT ![p] =
                       IF ok \/ failed[p] # 0 THEN failed[p] ELSE pos[p]]
  BY <1>1 DEF Ends, Return, walk
<1>3. PICK n \in Nat, m \in Nat, b \in Nat, k \in Rows :
         /\ n = pos[p] /\ m = failed[p] /\ b = batch[p] /\ k = job[p].key
  BY <1>1 DEF TypeOK, Jobs
<1>4. /\ b # 0 /\ n \in 1 .. b /\ b <= Len(stream[p])
      /\ k = stream[p][n] /\ ShardOf[k] = p /\ (m # 0 => m < n)
  <2>1. b # 0 /\ n \in 1 .. b /\ b <= Len(stream[p])
    BY <1>1, <1>2, <1>3 DEF FeedOK
  <2>2. k = stream[p][n] /\ (m # 0 => m < n)
    BY <1>1, <1>2, <1>3 DEF QueueInv, OwnRecords
  <2>3. n \in 1 .. Len(stream[p])
    BY <1>1, <2>1, LenProperties DEF TypeOK
  <2> QED
    BY <1>1, <2>1, <2>2, <2>3 DEF QueueInv, OwnRecords
<1>5. /\ pos'[p] = n + 1 /\ batch'[p] = b /\ job'[p] = Idle
      /\ failed'[p] = IF ok \/ m # 0 THEN m ELSE n
      /\ job'[Backfill] = job[Backfill]
      /\ \A t \in Shards : t # p =>
            /\ pos'[t] = pos[t] /\ failed'[t] = failed[t] /\ job'[t] = job[t]
  BY <1>1, <1>2, <1>3, ParametersAssumption DEF TypeOK
<1>6. ASSUME NEW t \in Shards
      PROVE  OwnRecords(t)' /\ WantsCurrent(t)'
  <2>1. CASE t = p
    <3>1. failed'[p] # 0 => failed'[p] < n + 1
      BY <1>4, <1>5
    <3> QED
      BY <1>2, <1>5, <2>1, <3>1, IdleType
         DEF QueueInv, OwnRecords, WantsCurrent, Computed
  <2>2. CASE t # p
    BY <1>2, <1>5, <2>2 DEF QueueInv, OwnRecords, WantsCurrent, Computed, Wants, Later
  <2> QED
    BY <2>1, <2>2
<1>7. ASSUME NEW r \in Rows, ~IsCounted(r)'
      PROVE  Outstanding(r)'
  <2>1. CASE ShardOf[r] # p
    <3>1. r # k
      BY <1>4, <2>1
    <3>2. member'[r] = member[r]
      BY <1>3, <3>1 DEF Ends
    <3>3. Outstanding(r)
      BY <1>2, <1>7, <3>2 DEF QueueInv, IsCounted, CountedAs
    <3> QED
      BY <1>2, <1>5, <2>1, <3>3, ParametersAssumption DEF Outstanding, Later
  <2>2. CASE ShardOf[r] = p /\ ~ok
    <3>1. Later(p, r, n - 1) \/ (m # 0 /\ Later(p, r, m - 1))
      <4>1. CASE member'[r] = member[r]
        <5>1. Outstanding(r)
          BY <1>2, <1>7, <4>1 DEF QueueInv, IsCounted, CountedAs
        <5> QED
          BY <1>3, <1>4, <2>2, <5>1 DEF Outstanding
      <4>2. CASE member'[r] # member[r]
        <5>1. r = k
          BY <1>3, <4>2 DEF Ends
        <5>2. n \in 1 .. Len(stream[p]) /\ n > n - 1
          BY <1>4, LenProperties, <1>1 DEF TypeOK
        <5> QED
          BY <1>4, <5>1, <5>2 DEF Later
      <4> QED
        BY <4>1, <4>2
    <3>2. PICK f \in Nat : f = failed'[p]
      BY <1>5
    <3>3. f # 0 /\ f - 1 <= n - 1 /\ (m # 0 => f = m)
      BY <1>4, <1>5, <2>2, <3>2
    <3>4. Later(p, r, f - 1)
      BY <3>1, <3>3, LaterLess
    <3> QED
      BY <1>2, <2>2, <3>2, <3>3, <3>4 DEF Outstanding, Later
  <2>3. CASE ShardOf[r] = p /\ ok
    <3>1. Later(p, r, n) \/ (m # 0 /\ Later(p, r, m - 1))
      <4>1. CASE r = k
        <5>1. Computed(p) /\ member'[k].contribution = job[p].desired
          BY <1>3, <2>3 DEF Ends
        <5>2. ~Wants(p, k)
          BY <1>2, <1>7, <4>1, <5>1 DEF IsCounted, CountedAs, Wants
        <5> QED
          BY <1>1, <1>3, <4>1, <5>1, <5>2 DEF QueueInv, WantsCurrent
      <4>2. CASE r # k
        <5>1. member'[r] = member[r]
          BY <1>3, <4>2 DEF Ends
        <5>2. Outstanding(r)
          BY <1>2, <1>7, <5>1 DEF QueueInv, IsCounted, CountedAs
        <5>3. Later(p, r, n - 1) \/ (m # 0 /\ Later(p, r, m - 1))
          BY <1>3, <1>4, <2>3, <5>2 DEF Outstanding
        <5>4. n \in Int /\ stream[p][n] # r
          BY <1>4, <4>2
        <5>5. Later(p, r, n - 1) => Later(p, r, n)
          BY <5>4, LaterNext
        <5> QED
          BY <5>3, <5>5
      <4> QED
        BY <4>1, <4>2
    <3>2. pos'[p] - 1 = n /\ failed'[p] = m
      BY <1>5, <2>3
    <3> QED
      BY <1>2, <2>3, <3>1, <3>2 DEF Outstanding, Later
  <2> QED
    BY <2>1, <2>2, <2>3
<1> QED
  BY <1>2, <1>5, <1>6, <1>7 DEF QueueInv, NoBackfill

LEMMA QueueStep ==
    ASSUME ~WithBackfill, TypeOK, FeedOK, QueueInv, [Next]_vars
    PROVE  QueueInv'
<1>1. ASSUME NEW s \in Shards,
             Invoke(s) \/ TakeRecord(s) \/ Checkpoint(s) \/ Timeout(s)
      PROVE  QueueInv'
  BY <1>1, InvokeQueues, TakeQueues, CheckpointQueues
<1>2. ASSUME NEW p \in Processes, Reconcile(p) \/ Fault(p) \/ Unacknowledged(p)
      PROVE  QueueInv'
  BY <1>2, ReconciliationKinds, ProceedQueues, EndQueues
<1>3. ~QueryPage /\ ~BackfillItem
  BY DEF QueryPage, BackfillItem, QueueInv, NoBackfill
<1>4. CASE UNCHANGED vars
  BY <1>4 DEF vars, table, feed, walk, QueueInv, NoBackfill, OwnRecords, WantsCurrent,
              Computed, Wants, Later, IsCounted, CountedAs, Outstanding
<1> QED
  BY <1>1, <1>2, <1>3, <1>4, WriteQueues DEF Next

\* As long as the operator runs no backfill on a table that the stream mapping was
\* created with, no change to an index row is ever forgotten: while its count is
\* not that of its content, one of its records will be delivered
\* (lambda_handler's batchItemFailures).
THEOREM NothingForgotten ==
    ASSUME ~WithBackfill, \A r \in Rows : InitialSource[r] = NoItem
    PROVE  Spec => []StaleRowStillQueued
<1>1. Init => QueueInv
  <2> SUFFICES ASSUME Init
               PROVE  QueueInv
    OBVIOUS
  <2>1. \A r \in Rows : IsCounted(r)
    BY DEF Init, IsCounted, CountedAs, NoMembership, Contribution
  <2>2. \A s \in Shards : Len(stream[s]) = 0 /\ job[s].pc = "idle" /\ failed[s] = 0
    BY IdleType DEF Init
  <2>3. NoBackfill
    BY IdleType DEF Init, NoBackfill
  <2>4. \A s \in Shards : OwnRecords(s) /\ WantsCurrent(s)
    BY <2>2 DEF OwnRecords, WantsCurrent, Computed
  <2> QED
    BY <2>1, <2>3, <2>4 DEF QueueInv
<1>2. IndInv /\ QueueInv /\ [Next]_vars => QueueInv'
  BY QueueStep DEF IndInv
<1>3. QueueInv => StaleRowStillQueued
  BY DEF QueueInv, IsCounted, Outstanding, Later, StaleRowStillQueued
<1> QED
  BY <1>1, <1>2, <1>3, Invariance, PTL DEF Spec

-----------------------------------------------------------------------------
(* The backfill counts what nobody wrote.                                  *)

\* Nothing that the backfill or a count of the row shows has changed.
LEMMA QuietStays ==
    ASSUME NEW r \in Rows, Quiet(r),
           source'[r] = source[r], member'[r] = member[r],
           UNCHANGED walk, job'[Backfill] = job[Backfill],
           \A s \in Shards : /\ ~Later(s, r, 0)'
                             /\ job'[s].pc # "idle" => job'[s].key # r
    PROVE  Quiet(r)'
<1>1. page' = page /\ cursor' = cursor
  BY DEF walk
<1>2. /\ IsCounted(r)' <=> IsCounted(r)
      /\ CountedAs(r)' = CountedAs(r)
      /\ Computed(Backfill)' <=> Computed(Backfill)
      /\ Wants(Backfill, r)' <=> Wants(Backfill, r)
      /\ InHand(r)' <=> InHand(r)
      /\ Queried(r)' <=> Queried(r)
  BY <1>1 DEF IsCounted, CountedAs, Computed, Wants, InHand, Queried
<1>3. \A entry \in page' : entry.row = r => entry.item = source'[r]
  BY <1>1 DEF Quiet
<1>4. /\ Computed(Backfill)' /\ job'[Backfill].key = r => Wants(Backfill, r)'
      /\ IsCounted(r)' \/ CountedAs(r)' = {}
      /\ Queried(r)' /\ cursor' # Aborted =>
            \/ IsCounted(r)' \/ InHand(r)'
            \/ [row |-> r, item |-> source'[r]] \in page'
  BY <1>1, <1>2 DEF Quiet
<1> QED
  BY <1>3, <1>4 DEF Quiet

LEMMA QuietWrite ==
    ASSUME TypeOK, NEW r \in Rows, Quiet(r), NEW q \in Rows, q # r,
           NEW item \in Contents, Write(q, item)
    PROVE  Quiet(r)'
<1>1. /\ source'[r] = source[r] /\ member'[r] = member[r]
      /\ UNCHANGED <<walk, job>>
  BY DEF Write, TypeOK
<1>2. \A s \in Shards : /\ ~Later(s, r, 0)'
                        /\ job'[s].pc # "idle" => job'[s].key # r
  BY <1>1, WriteAppendsRecord DEF Quiet
<1> QED
  BY <1>1, <1>2, QuietStays

LEMMA QuietFeed ==
    ASSUME TypeOK, FeedOK, NEW r \in Rows, Quiet(r), NEW s \in Shards,
           Invoke(s) \/ TakeRecord(s) \/ Checkpoint(s) \/ Timeout(s)
    PROVE  Quiet(r)'
<1>1. /\ source'[r] = source[r] /\ member'[r] = member[r] /\ UNCHANGED walk
      /\ job'[Backfill] = job[Backfill]
      /\ \A t \in Shards : t # s => job'[t] = job[t] /\ stream'[t] = stream[t]
  BY ParametersAssumption
     DEF Invoke, TakeRecord, Checkpoint, Timeout, table, TypeOK
<1>2. job'[s].pc # "idle" => job'[s].key # r
  <2>1. CASE TakeRecord(s)
    <3>1. job'[s].key = stream[s][pos[s]]
      BY <2>1 DEF TakeRecord, TypeOK, Idle
    <3>2. pos[s] \in 1 .. Len(stream[s]) /\ pos[s] > 0
      BY <2>1, LenProperties DEF TakeRecord, FeedOK, TypeOK
    <3> QED
      BY <3>1, <3>2 DEF Quiet, Later
  <2>2. CASE ~TakeRecord(s)
    <3>1. job'[s] = job[s] \/ job'[s] = Idle
      BY <2>2 DEF Invoke, Checkpoint, Timeout, TypeOK
    <3> QED
      BY <3>1, IdleType DEF Quiet
  <2> QED
    BY <2>1, <2>2
<1>3. ~Later(s, r, 0)'
  <2>1. CASE Checkpoint(s)
    <3> SUFFICES ASSUME Later(s, r, 0)'
                 PROVE  FALSE
      OBVIOUS
    <3>1. PICK n \in Nat, k \in Nat :
             n = Len(stream[s]) /\ k = Consumed(s)
      BY <2>1, LenProperties DEF Consumed, TypeOK, FeedOK
    <3>2. stream'[s] = SubSeq(stream[s], k + 1, n)
      BY <2>1, <3>1 DEF Checkpoint, TypeOK
    <3>3. \A i \in (k + 1) .. n : stream[s][i] \in Rows
      BY <3>1 DEF TypeOK
    <3>4. k + 1 \in Int /\ n \in Int
      BY <3>1
    <3>5. /\ Len(stream'[s]) = IF k + 1 <= n THEN n - (k + 1) + 1 ELSE 0
          /\ \A i \in 1 .. n - (k + 1) + 1 :
                stream'[s][i] = stream[s][(k + 1) + i - 1]
      BY <3>2, <3>3, <3>4, SubSeqProperties
    <3>6. PICK i \in 1 .. Len(stream'[s]) : stream'[s][i] = r
      BY DEF Later
    <3>7. i \in 1 .. n - (k + 1) + 1
      BY <3>1, <3>5, <3>6
    <3>8. PICK j \in 1 .. n : j = (k + 1) + i - 1 /\ j > 0
      BY <3>1, <3>7
    <3>9. stream[s][j] = r
      BY <3>5, <3>6, <3>7, <3>8
    <3> QED
      BY <3>1, <3>8, <3>9 DEF Quiet, Later
  <2>2. CASE ~Checkpoint(s)
    <3>1. stream' = stream
      BY <2>2 DEF Invoke, TakeRecord, Timeout
    <3> QED
      BY <3>1 DEF Quiet, Later
  <2> QED
    BY <2>1, <2>2
<1>4. \A t \in Shards : /\ ~Later(t, r, 0)'
                        /\ job'[t].pc # "idle" => job'[t].key # r
  BY <1>1, <1>2, <1>3 DEF Quiet, Later
<1> QED
  BY <1>1, <1>4, QuietStays

LEMMA QuietProceeds ==
    ASSUME TypeOK, NEW r \in Rows, Quiet(r), NEW p \in Processes, Proceeds(p)
    PROVE  Quiet(r)'
<1>1. PICK j \in Jobs :
         /\ job' = [job EXCEPT ![p] = j]
         /\ j.pc # "idle" /\ j.key = job[p].key
         /\ j.pc \in {"member", "summary", "commit"} =>
               \/ j.desired = Contribution(j.key, source[j.key])
               \/ Computed(p) /\ j.desired = job[p].desired
  BY DEF Proceeds
<1>2. /\ UNCHANGED <<source, member, stream, page, cursor>> /\ job[p].pc # "idle"
      /\ job'[p] = j /\ \A q \in Processes : q # p => job'[q] = job[q]
  BY <1>1 DEF Proceeds, walk, TypeOK
<1>3. \A s \in Shards : /\ ~Later(s, r, 0)'
                        /\ job'[s].pc # "idle" => job'[s].key # r
  BY <1>1, <1>2 DEF Quiet, Later
<1>4. CASE p # Backfill
  BY <1>2, <1>3, <1>4, QuietStays DEF walk
<1>5. CASE p = Backfill
  <2>1. /\ IsCounted(r)' <=> IsCounted(r)
        /\ CountedAs(r)' = CountedAs(r)
        /\ InHand(r)' <=> InHand(r)
        /\ Queried(r)' <=> Queried(r)
    BY <1>1, <1>2, <1>5 DEF IsCounted, CountedAs, InHand, Queried
  <2>2. Computed(Backfill)' /\ job'[Backfill].key = r => Wants(Backfill, r)'
    BY <1>1, <1>2, <1>5 DEF Computed, Wants, Quiet
  <2> QED
    BY <1>2, <1>3, <2>1, <2>2 DEF Quiet
<1> QED
  BY <1>4, <1>5

\* A consumer does not count the row; the backfill counts it as it is, or ends
\* by its exception.
LEMMA QuietEnds ==
    ASSUME TypeOK, NEW r \in Rows, Quiet(r), NEW p \in Processes, NEW ok \in BOOLEAN,
           Ends(p, ok)
    PROVE  Quiet(r)'
<1>1. /\ UNCHANGED <<source, stream>> /\ job[p].pc # "idle"
      /\ job' = [job EXCEPT ![p] = Idle]
  BY DEF Ends, Return
<1>2. job'[p].pc = "idle" /\ \A q \in Processes : q # p => job'[q] = job[q]
  BY <1>1, IdleType DEF TypeOK
<1>3. \A s \in Shards : /\ ~Later(s, r, 0)'
                        /\ job'[s].pc # "idle" => job'[s].key # r
  BY <1>1, <1>2 DEF Quiet, Later
<1>4. CASE p # Backfill
  <2>1. r # job[p].key
    BY <1>1, <1>4 DEF Quiet
  <2> QED
    BY <1>1, <1>2, <1>3, <1>4, <2>1, QuietStays DEF Ends, Return
<1>5. CASE p = Backfill
  <2>1. \/ member'[r] = member[r] /\ (ok => job[Backfill].key # r)
        \/ CountedAs(r)' = Contribution(r, source[r])
    <3>1. CASE job[Backfill].key = r
      BY <1>5, <3>1 DEF Ends, CountedAs, Wants, Quiet
    <3>2. CASE job[Backfill].key # r
      BY <1>5, <3>2 DEF Ends
    <3> QED
      BY <3>1, <3>2
  <2>2. /\ IsCounted(r)' \/ CountedAs(r)' = {}
        /\ IsCounted(r) => IsCounted(r)'
        /\ ok /\ InHand(r) => IsCounted(r)'
    BY <1>1, <2>1 DEF IsCounted, CountedAs, Quiet, InHand
  <2>3. ~Computed(Backfill)'
    BY <1>2, <1>5 DEF Computed
  <2>4. CASE ok
    <3>1. page' = page /\ cursor' = cursor
      BY <1>5, <2>4 DEF Ends, Return, walk
    <3> QED
      BY <1>1, <1>3, <2>2, <2>3, <2>4, <3>1 DEF Quiet, Queried
  <2>5. CASE ~ok
    <3>1. page' = {} /\ cursor' = Aborted
      BY <1>5, <2>5 DEF Ends, Return
    <3> QED
      BY <1>3, <2>2, <2>3, <3>1 DEF Quiet, Aborted
  <2> QED
    BY <2>4, <2>5
<1> QED
  BY <1>4, <1>5

LEMMA QuietQuery ==
    ASSUME TypeOK, NEW r \in Rows, Quiet(r), QueryPage
    PROVE  Quiet(r)'
<1>1. /\ UNCHANGED <<source, member, stream, job>>
      /\ job[Backfill].pc = "idle" /\ page = {}
      /\ cursor \in Nat /\ cursor < Len(SourcePks) /\ cursor' = cursor + 1
      /\ page' = {[row |-> q, item |-> source[q]] :
                    q \in {q \in Rows : /\ q.part = SourcePks[cursor + 1]
                                        /\ source[q] # NoItem}}
  BY DEF QueryPage, table, TypeOK, Aborted, SourcePks
<1>2. \A s \in Shards : /\ ~Later(s, r, 0)'
                        /\ job'[s].pc # "idle" => job'[s].key # r
  BY <1>1 DEF Quiet, Later
<1>3. \A entry \in page' : entry.row = r => entry.item = source'[r]
  BY <1>1
<1>4. /\ IsCounted(r)' <=> IsCounted(r)
      /\ CountedAs(r)' = CountedAs(r) /\ ~Computed(Backfill)'
  BY <1>1 DEF IsCounted, CountedAs, Computed
<1>5. ASSUME Queried(r)'
      PROVE  IsCounted(r) \/ [row |-> r, item |-> source[r]] \in page'
  <2>1. PICK k \in 1 .. cursor + 1 : k <= Len(SourcePks) /\ SourcePks[k] = r.part
    BY <1>1, <1>5 DEF Queried
  <2>2. CASE k \in 1 .. cursor
    <3>1. Queried(r)
      BY <2>1, <2>2 DEF Queried
    <3>2. cursor # Aborted
      BY <1>1 DEF Aborted, SourcePks
    <3> QED
      BY <1>1, <3>1, <3>2 DEF Quiet, InHand
  <2>3. CASE k = cursor + 1 /\ source[r] # NoItem
    BY <1>1, <2>1, <2>3
  <2>4. CASE source[r] = NoItem
    <3>1. Contribution(r, source[r]) = {}
      BY <2>4 DEF Contribution
    <3> QED
      BY <3>1 DEF Quiet, IsCounted
  <2>5. k \in 1 .. cursor \/ k = cursor + 1
    <3>1. cursor \in Nat
      BY <1>1
    <3> QED
      BY <2>1, <3>1
  <2> QED
    BY <2>2, <2>3, <2>4, <2>5
<1> QED
  BY <1>1, <1>2, <1>3, <1>4, <1>5 DEF Quiet

LEMMA QuietItem ==
    ASSUME TypeOK, NEW r \in Rows, Quiet(r), BackfillItem
    PROVE  Quiet(r)'
<1>1. PICK entry \in page :
         /\ page' = page \ {entry}
         /\ job' = [job EXCEPT ![Backfill] =
                      [Idle EXCEPT
                         !.pc = "member",
                         !.key = entry.row,
                         !.desired = Contribution(entry.row, entry.item)]]
  BY DEF BackfillItem
<1>2. /\ UNCHANGED <<source, member, stream, cursor>> /\ job[Backfill].pc = "idle"
      /\ \A s \in Shards : job'[s] = job[s]
  BY <1>1, ParametersAssumption DEF BackfillItem, table, TypeOK
<1>3. /\ job'[Backfill].pc = "member" /\ job'[Backfill].key = entry.row
      /\ job'[Backfill].desired = Contribution(entry.row, entry.item)
  BY <1>1 DEF TypeOK, Idle
<1>4. \A s \in Shards : /\ ~Later(s, r, 0)'
                        /\ job'[s].pc # "idle" => job'[s].key # r
  BY <1>2 DEF Quiet, Later
<1>5. /\ IsCounted(r)' <=> IsCounted(r)
      /\ CountedAs(r)' = CountedAs(r)
      /\ Queried(r)' <=> Queried(r)
      /\ ~InHand(r)
      /\ InHand(r)' <=> entry.row = r
  BY <1>2, <1>3 DEF IsCounted, CountedAs, Queried, InHand
<1>6. entry.row = r => Wants(Backfill, r)'
  BY <1>2, <1>3 DEF Wants, Quiet
<1>7. [row |-> r, item |-> source[r]] \in page =>
         entry.row = r \/ [row |-> r, item |-> source[r]] \in page'
  BY <1>1
<1> QED
  BY <1>1, <1>2, <1>3, <1>4, <1>5, <1>6, <1>7 DEF Quiet

LEMMA BackfillStep ==
    ASSUME TypeOK, FeedOK, BackfillInv, [Next]_vars
    PROVE  BackfillInv'
<1> SUFFICES ASSUME NEW r \in Rows, writes'[r] = 0
             PROVE  Quiet(r)'
  BY DEF BackfillInv
<1>1. ASSUME NEW q \in Rows, NEW item \in Contents, Write(q, item)
      PROVE  q # r /\ writes[r] = 0
  BY <1>1 DEF Write, TypeOK
<1>2. writes[r] = 0
  BY <1>1 DEF Next, Invoke, TakeRecord, Checkpoint, Timeout, Reconcile, ReadSource,
     ReadMembership, ReadSummary, Commit, Rejected, Fault, Unacknowledged, QueryPage,
     BackfillItem, vars
<1>3. Quiet(r)
  BY <1>2 DEF BackfillInv
<1>4. ASSUME NEW p \in Processes, Reconcile(p) \/ Fault(p) \/ Unacknowledged(p)
      PROVE  Quiet(r)'
  BY <1>3, <1>4, ReconciliationKinds, QuietProceeds, QuietEnds
<1>5. CASE UNCHANGED vars
  <2>1. UNCHANGED <<source, member, stream, walk, job>>
    BY <1>5 DEF vars, table
  <2>2. \A s \in Shards : /\ ~Later(s, r, 0)'
                          /\ job'[s].pc # "idle" => job'[s].key # r
    BY <1>3, <2>1 DEF Quiet, Later
  <2> QED
    BY <1>3, <2>1, <2>2, QuietStays
<1> QED
  BY <1>1, <1>3, <1>4, <1>5, QuietWrite, QuietFeed, QuietQuery, QuietItem DEF Next

\* Whatever writers and consumers do meanwhile, a backfill that came to its end
\* has counted every row that nobody wrote, those of a table older than its stream
\* included (backfill_clip_count_aggregates).
THEOREM BackfillCounts == Spec => []BackfillCountsQuietRows
<1>1. Init => BackfillInv
  <2> SUFFICES ASSUME Init, NEW r \in Rows
               PROVE  Quiet(r)
    BY DEF BackfillInv
  <2>1. /\ \A s \in Shards : Len(stream[s]) = 0 /\ job[s].pc = "idle"
        /\ job[Backfill].pc = "idle" /\ page = {} /\ cursor = 0
        /\ CountedAs(r) = {}
    BY IdleType DEF Init, CountedAs, NoMembership
  <2>2. ~Queried(r)
    BY <2>1 DEF Queried
  <2> QED
    BY <2>1, <2>2 DEF Quiet, Later, Computed
<1>2. IndInv /\ BackfillInv /\ [Next]_vars => BackfillInv'
  BY BackfillStep DEF IndInv
<1>3. BackfillInv => BackfillCountsQuietRows
  <2> SUFFICES ASSUME BackfillInv, cursor = Len(SourcePks), page = {},
                      job[Backfill].pc = "idle", NEW r \in Rows, writes[r] = 0
               PROVE  CountedAs(r) = Contribution(r, source[r])
    BY DEF BackfillCountsQuietRows
  <2>1. r.part \in Partitions
    BY RowsAssumption
  <2>2. \E k \in 1 .. 6 : SourcePks[k] = r.part
    BY <2>1 DEF Partitions, BacklogStatuses, SourcePks
  <2>3. Len(SourcePks) = 6 /\ Aborted # cursor
    BY DEF SourcePks, Aborted
  <2>4. Queried(r)
    BY <2>2, <2>3 DEF Queried
  <2> QED
    BY <2>3, <2>4 DEF BackfillInv, Quiet, InHand, IsCounted
<1> QED
  BY <1>1, <1>2, <1>3, Invariance, PTL DEF Spec
=============================================================================
