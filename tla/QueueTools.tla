------------------------------ MODULE QueueTools ------------------------------
(***************************************************************************)
(* The operator's tools on the DynamoDB clip table, run while the          *)
(* transcriber is stopped: durable_backfill.py copies the SQLite rows,     *)
(* queue_channel_indexes.py then adds the queue rows by channel, resuming  *)
(* at a checkpoint, and queue_purge.py deletes the clips up to a cutoff.   *)
(* The API registers clips meanwhile, and transcription_backlog.py counts  *)
(* the queue.  A tool writes in batches that a crash may cut short, and    *)
(* decides what to write from pages it read before.                        *)
(***************************************************************************)
EXTENDS ClipRows, Naturals, FiniteSets, SequencesExt

CONSTANTS Keys,            \* clips, numbered in order of (started_at, key)
          Sources,         \* statuses that rows of the SQLite table have
          Old,             \* clips up to the cutoff of the purge
          Inactive,        \* clips of inactive channels or before their activation
          PageSize,        \* rows of one query
          MaxPages,        \* pages of one count of the queue
          MaxPresigns, MaxCrashes, MaxCounts     \* bounds

VARIABLES source,      \* statuses in SQLite
          state,       \* status of every state item
          rows,        \* <<row name, clip>>
          api,         \* the presign request in hand
          tool,        \* the tool at work
          checkpoint,  \* of the channel indexes: the status and the clip to go on after
          done,        \* tools that have come to their end, and "purging"
          counter,     \* the count of the queue
          touched,     \* ghost: clips whose registration the purge overlaps
          changed,     \* ghost: whether the table changed during the count
          presigns, crashes, counts

table == <<state, rows>>
ghosts == <<touched, changed>>
bounds == <<presigns, crashes, counts>>
vars == <<source, table, api, tool, checkpoint, done, counter, ghosts, bounds>>

Queued == <<"pending", "waiting_upload", "processing">>     \* STATUSES, in their order
Purged == <<"pending", "processing", "waiting_upload", "error">>
Idle == [name |-> "none"]
NoRequest == [key |-> 0, todo |-> <<>>]
NoCount == [pc |-> "none"]

Init ==
    /\ source \in [Keys -> Sources \cup {"none"}]
    /\ state = [k \in Keys |-> "none"] /\ rows = {}
    /\ api = NoRequest /\ tool = Idle
    /\ checkpoint = [status |-> 1, cursor |-> 0]
    /\ done = {}
    /\ counter = NoCount
    /\ touched = {} /\ changed = FALSE
    /\ presigns = 0 /\ crashes = 0 /\ counts = 0

\* One page of a partition, oldest first, after a cursor.
Page(row, cursor) ==
    LET keys == SetToSortSeq({k \in Keys : <<row, k>> \in rows /\ k > cursor}, <)
    IN  SubSeq(keys, 1, IF Len(keys) < PageSize THEN Len(keys) ELSE PageSize)

IsLast(page) == Len(page) < PageSize

-----------------------------------------------------------------------------
(* The API: record_presigned_upload, with the requests of _put_state.      *)

Presign(k) ==
    /\ "backfill" \in done /\ api = NoRequest /\ state[k] \in {"none", "pending"}
    /\ presigns < MaxPresigns /\ presigns' = presigns + 1
    /\ api' = [key |-> k, todo |-> PutState([status |-> "pending", quarantined |-> FALSE,
                                             featured |-> FALSE], state[k])]
    /\ touched' = IF "purging" \in done THEN touched \cup {k} ELSE {}
    /\ UNCHANGED <<source, table, tool, checkpoint, done, counter, changed, crashes, counts>>

ApiWrites ==
    LET write == Head(api.todo) IN
    /\ api # NoRequest
    /\ state' = IF write.op = "item" THEN [state EXCEPT ![api.key] = "pending"] ELSE state
    /\ rows' = CASE write.op = "put" -> rows \cup {<<write.row, api.key>>}
                 [] write.op = "del" -> rows \ {<<write.row, api.key>>}
                 [] OTHER            -> rows
    /\ api' = IF Len(api.todo) = 1 THEN NoRequest ELSE [api EXCEPT !.todo = Tail(@)]
    /\ changed' = (counter # NoCount)
    /\ UNCHANGED <<source, tool, checkpoint, done, counter, touched, bounds>>

-----------------------------------------------------------------------------
(* Batches: writes and deletions of items, in any order.                   *)

Apply(batch) ==
    /\ state' = [k \in Keys |-> IF \E w \in batch : w.key = k /\ w.op = "item"
                                THEN (CHOOSE w \in batch : w.key = k /\ w.op = "item").row[2]
                                ELSE state[k]]
    /\ rows' = (rows \ {<<w.row, w.key>> : w \in {v \in batch : v.op = "del"}})
                 \cup {<<w.row, w.key>> : w \in {v \in batch : v.op = "put"}}
    /\ changed' = (counter # NoCount)

\* The whole batch, or with the tool's crash any part of it.
WriteBatch(batch, next) ==
    \/ Apply(batch) /\ tool' = next /\ UNCHANGED crashes
    \/ /\ crashes < MaxCrashes /\ crashes' = crashes + 1
       /\ \E part \in SUBSET batch : Apply(part)
       /\ tool' = Idle

On(k, write) == write @@ [key |-> k]

Item(k, status) == On(k, [op |-> "item", row |-> <<"state", status>>])

-----------------------------------------------------------------------------
(* durable_backfill.py: backfill_clip_read_model.                          *)

\* The SQLite store is in use until the copy is complete.
SourceChanges(k, status) ==
    /\ "backfill" \notin done /\ tool = Idle
    /\ source[k] \notin {"none", status}
    /\ source' = [source EXCEPT ![k] = status]
    /\ UNCHANGED <<table, api, tool, checkpoint, done, counter, ghosts, bounds>>

StartBackfill ==
    /\ tool = Idle /\ "backfill" \notin done
    /\ tool' = [name |-> "backfill",
                todo |-> SetToSortSeq({k \in Keys : source[k] # "none"}, <)]
    /\ UNCHANGED <<source, table, api, checkpoint, done, counter, ghosts, bounds>>

\* Mutant: the rows of the other statuses stay.
ReplaceKeeping(k, status) ==
    {Item(k, status)}
      \cup {On(k, Put(StatusRow(s))) : s \in BacklogStatuses \cap {status}}
      \cup (IF status = "transcribed" THEN {On(k, Put(r)) : r \in PublicRows} ELSE {})

\* _batch_replace_clip_read_model
Replace(k, status) ==
    {Item(k, status)}
      \cup {On(k, Put(StatusRow(s))) : s \in BacklogStatuses \cap {status}}
      \cup {On(k, Del(StatusRow(s))) : s \in BacklogStatuses \ {status}}
      \cup {On(k, IF status = "transcribed" THEN Put(r) ELSE Del(r)) : r \in PublicRows}

Backfill ==
    LET k == Head(tool.todo) IN
    /\ tool.name = "backfill" /\ tool.todo # <<>>
    /\ WriteBatch(Replace(k, source[k]), [tool EXCEPT !.todo = Tail(@)])
    /\ UNCHANGED <<source, api, checkpoint, done, counter, touched, presigns, counts>>

-----------------------------------------------------------------------------
(* queue_channel_indexes.py: seed_indexes, from its checkpoint on.         *)

StartSeed ==
    /\ tool = Idle /\ counter = NoCount /\ "backfill" \in done /\ "seed" \notin done
    /\ tool' = [name |-> "seed", pc |-> "query", at |-> checkpoint, page |-> <<>>]
    /\ UNCHANGED <<source, table, api, checkpoint, done, counter, ghosts, bounds>>

SeedQuery ==
    /\ tool.name = "seed" /\ tool.pc = "query" /\ tool.at.status <= Len(Queued)
    /\ tool' = [tool EXCEPT !.pc = "put",
                    !.page = Page(StatusRow(Queued[tool.at.status]), tool.at.cursor)]
    /\ UNCHANGED <<source, table, api, checkpoint, done, counter, ghosts, bounds>>

SeedPut ==
    LET status == Queued[tool.at.status] IN
    /\ tool.name = "seed" /\ tool.pc = "put"
    /\ WriteBatch({On(k, Put(QueueRow(status))) : k \in ToSet(tool.page) \ Inactive},
                  [tool EXCEPT !.pc = "checkpoint",
                       !.at = IF IsLast(tool.page) THEN [status |-> @.status + 1, cursor |-> 0]
                              ELSE [@ EXCEPT !.cursor = Last(tool.page)]])
    /\ UNCHANGED <<source, api, checkpoint, done, counter, touched, presigns, counts>>

\* The checkpoint is written after the rows; a run may stop here for its budget.
SeedCheckpoint ==
    /\ tool.name = "seed" /\ tool.pc = "checkpoint"
    /\ checkpoint' = tool.at
    /\ \/ tool' = [tool EXCEPT !.pc = "query", !.page = <<>>] /\ UNCHANGED crashes
       \/ crashes < MaxCrashes /\ crashes' = crashes + 1 /\ tool' = Idle
    /\ UNCHANGED <<source, table, api, done, counter, ghosts, presigns, counts>>

-----------------------------------------------------------------------------
(* queue_purge.py: purge_clip_queue with --execute.                        *)

StartPurge ==
    /\ tool = Idle /\ counter = NoCount /\ "seed" \in done /\ "purge" \notin done
    /\ tool' = [name |-> "purge", status |-> 1, cursor |-> 0, batch |-> {}]
    /\ touched' = {api.key} \cap Keys /\ done' = done \cup {"purging"}
    /\ UNCHANGED <<source, table, api, checkpoint, counter, changed, bounds>>

Purgeable(k) == k \in Old

PurgeQuery ==
    LET status == Purged[tool.status]
        page == Page(StatusRow(status), tool.cursor)
    IN  /\ tool.name = "purge" /\ tool.status <= Len(Purged)
        /\ tool' = [tool EXCEPT
               !.batch = @ \cup UNION {{On(k, Del(StatusRow(status))),
                                        Item(k, "none")} :
                                          k \in {j \in ToSet(page) : Purgeable(j)}},
               !.status = IF IsLast(page) THEN @ + 1 ELSE @,
               !.cursor = IF IsLast(page) THEN 0 ELSE Last(page)]
        /\ UNCHANGED <<source, table, api, checkpoint, done, counter, ghosts, bounds>>

\* The batch writer sends when it is full and at the end.
PurgeFlush ==
    /\ tool.name = "purge" /\ tool.batch # {}
    /\ WriteBatch(tool.batch, [tool EXCEPT !.batch = {}])
    /\ UNCHANGED <<source, api, checkpoint, done, counter, touched, presigns, counts>>

\* A tool comes to its end.
Finish ==
    /\ \/ tool.name = "backfill" /\ tool.todo = <<>>
       \/ tool.name = "seed" /\ tool.pc = "query" /\ tool.at.status > Len(Queued)
       \/ tool.name = "purge" /\ tool.batch = {} /\ tool.status > Len(Purged)
    /\ done' = done \cup {tool.name} /\ tool' = Idle
    /\ UNCHANGED <<source, table, api, checkpoint, counter, ghosts, bounds>>

-----------------------------------------------------------------------------
(* active_queue_snapshot: the queue is counted over its partitions, by     *)
(* channel once they are seeded (indexes_ready).  A count that a tool      *)
(* overlaps is an estimate, about which there is nothing to say: here no   *)
(* tool starts during one, but the API may register a clip.                *)

StartCount ==
    /\ counter = NoCount /\ tool = Idle /\ counts < MaxCounts /\ counts' = counts + 1
    /\ "backfill" \in done
    /\ counter' = [pc |-> "count", indexed |-> "seed" \in done, status |-> 1, cursor |-> 0,
                   pages |-> 0, found |-> 0]
    /\ changed' = FALSE
    /\ UNCHANGED <<source, table, api, tool, checkpoint, done, touched, presigns, crashes>>

Count ==
    LET status == Queued[counter.status]
        page == Page(IF counter.indexed THEN QueueRow(status) ELSE StatusRow(status),
                     counter.cursor)
        next == IF IsLast(page) THEN [counter EXCEPT !.status = @ + 1, !.cursor = 0]
                ELSE [counter EXCEPT !.cursor = Last(page)]
    IN  /\ counter.pc = "count" /\ counter.pages < MaxPages
        /\ counter' = [next EXCEPT !.pages = @ + 1,
                           !.found = @ + Cardinality(ToSet(page) \ Inactive),
                           !.pc = IF next.status > Len(Queued) THEN "complete" ELSE @]
        /\ UNCHANGED <<source, table, api, tool, checkpoint, done, ghosts, bounds>>

\* The budget is spent: the count is not available.  Either way it ends.
EndCount ==
    /\ \/ counter.pc = "complete"
       \/ counter.pc = "count" /\ counter.pages = MaxPages
    /\ counter' = NoCount /\ changed' = FALSE
    /\ UNCHANGED <<source, table, api, tool, checkpoint, done, touched, bounds>>

-----------------------------------------------------------------------------
Next ==
    \/ \E k \in Keys : Presign(k) \/ (\E s \in Sources : SourceChanges(k, s))
    \/ ApiWrites
    \/ StartBackfill \/ Backfill
    \/ StartSeed \/ SeedQuery \/ SeedPut \/ SeedCheckpoint
    \/ StartPurge \/ PurgeQuery \/ PurgeFlush
    \/ Finish
    \/ StartCount \/ Count \/ EndCount

-----------------------------------------------------------------------------
Active(k) == k \notin Inactive

IsQueued(k) == state[k] \in ToSet(Queued)

Complete(k) ==
    LET kept == {StatusRow(s) : s \in BacklogStatuses} \cup PublicRows
    IN  {r \in kept : <<r, k>> \in rows}
          = RowsOf([status |-> state[k], quarantined |-> FALSE, featured |-> FALSE]) \cap kept

\* Between the tools, whichever were cut short and run again and whatever the API
\* registered meanwhile: once the copy is complete every clip has exactly the rows
\* of its status, and once the channel indexes are complete every clip in the queue
\* of an active channel has its row there, so that the transcriber that is started
\* next finds it, and the rows of the other statuses are not there.
MigrationIsComplete ==
    tool = Idle /\ api = NoRequest /\ "backfill" \in done /\ "purging" \notin done =>
        \A k \in Keys :
            /\ Complete(k)
            /\ "seed" \in done /\ Active(k) =>
                  \A s \in ToSet(Queued) : <<QueueRow(s), k>> \in rows <=> state[k] = s

\* A complete count of the queue during which nothing changed is right.
CountIsRight ==
    counter.pc = "complete" /\ ~changed /\ api = NoRequest
        /\ tool = Idle /\ "purging" \notin done =>
            counter.found = Cardinality({k \in Keys : IsQueued(k) /\ Active(k)})

\* The purge deletes what was in the queue up to its cutoff, and nothing else: when
\* it has come to its end, perhaps after a run that was cut short, no clip up to the
\* cutoff has a status row, nor, unless a run was cut short, a state, and every
\* other clip has all its rows.  Clips registered again meanwhile are excepted.
PurgeIsExact ==
    "purge" \in done /\ api = NoRequest =>
        \A k \in Keys \ touched :
            /\ k \in Old => /\ \A s \in BacklogStatuses : <<StatusRow(s), k>> \notin rows
                            /\ state[k] \in BacklogStatuses => crashes > 0
            /\ k \notin Old \/ state[k] \notin BacklogStatuses => Complete(k)

=============================================================================
