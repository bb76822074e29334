------------------------------- MODULE ClipRows -------------------------------
(***************************************************************************)
(* How one clip is laid out in the DynamoDB table: its state item, the     *)
(* index rows that serve it, and the sequence of single-item writes by     *)
(* which DynamoUploadedClipStore._put_state moves the rows after the state *)
(* (src/src/talkingboats/dynamo_clip_store.py).  The table offers no       *)
(* transaction here: every element of the sequence is one request.         *)
(***************************************************************************)
EXTENDS Naturals, Sequences

BacklogStatuses == {"pending", "processing", "waiting_upload", "error"}

Statuses == BacklogStatuses \cup {"transcribed", "empty"}

\* What the rows depend on: a displayable transcript is a condition of being
\* "transcribed", so only status, quality and the star are kept.
Items == [status : Statuses, quarantined : BOOLEAN, featured : BOOLEAN]

\* A row is named by its partition; each partition has one row per clip.
StatusRow(s) == <<"status", s>>     \* clip_status#<s>
QueueRow(s)  == <<"queue", s>>      \* clip_status#<s>#channel#<c>

PublicRows   == {<<"public", "all">>, <<"public", "channel">>}
QualityRow   == <<"public", "quarantined">>
FeaturedRows == {<<"featured", "all">>, <<"featured", "channel">>}

RowNames == {StatusRow(s) : s \in Statuses} \cup {QueueRow(s) : s \in Statuses}
              \cup PublicRows \cup {QualityRow} \cup FeaturedRows

Put(row) == [op |-> "put", row |-> row]
Del(row) == [op |-> "del", row |-> row]

\* Writing the state item itself, and the durable event that follows.
PutItem     == [op |-> "item",  row |-> <<>>]
RecordEvent == [op |-> "event", row |-> <<>>]

DeleteTranscribed ==
    <<Del(<<"public", "all">>), Del(<<"public", "channel">>), Del(QualityRow)>>

DeleteFeatured == <<Del(<<"featured", "all">>), Del(<<"featured", "channel">>)>>

PutFeatured == <<Put(<<"featured", "all">>), Put(<<"featured", "channel">>)>>

When(condition, writes) == IF condition THEN writes ELSE <<>>

\* Mutant: the queue row of the old status is not deleted.
PutStateLeavingQueueRow(item, old) ==
    <<PutItem>>
      \o When(old \notin {"none", item.status}, <<Del(StatusRow(old))>>)
      \o When(item.status \in BacklogStatuses,
              <<Put(StatusRow(item.status)), Put(QueueRow(item.status))>>)
      \o When(item.status = "transcribed",
              <<Put(<<"public", "all">>), Put(<<"public", "channel">>)>>)

\* Mutant: the quality row is deleted after it was put.
PutStateQualityLast(item, old) ==
    <<PutItem>>
      \o When(old \notin {"none", item.status},
              <<Del(StatusRow(old)), Del(QueueRow(old))>>)
      \o When(item.status \in BacklogStatuses,
              <<Put(StatusRow(item.status)), Put(QueueRow(item.status))>>)
      \o When(item.status = "transcribed",
              <<Put(<<"public", "all">>), Put(<<"public", "channel">>)>>
                \o When(item.quarantined, <<Put(QualityRow)>>)
                \o (IF item.featured THEN PutFeatured ELSE DeleteFeatured))
      \o When(old = "transcribed", <<Del(QualityRow)>>)

\* The requests of _put_state, in its order.  "none" is the old_status of a
\* clip that had no state item.
PutState(item, old) ==
    <<PutItem>>
      \o When(old \notin {"none", item.status},
              <<Del(StatusRow(old)), Del(QueueRow(old))>>)
      \o When(item.status \in BacklogStatuses,
              <<Put(StatusRow(item.status)), Put(QueueRow(item.status))>>)
      \o When(old = "transcribed" /\ item.status # "transcribed",
              DeleteTranscribed \o DeleteFeatured)
      \o When(old = "transcribed", <<Del(QualityRow)>>)
      \o When(item.status = "transcribed",
              <<Put(<<"public", "all">>), Put(<<"public", "channel">>)>>
                \o When(item.quarantined, <<Put(QualityRow)>>)
                \o (IF item.featured THEN PutFeatured ELSE DeleteFeatured))

-----------------------------------------------------------------------------
\* The rows a clip should have: what the queries that read them assume.
RowsOf(item) ==
    IF item.status \in BacklogStatuses
    THEN {StatusRow(item.status), QueueRow(item.status)}
    ELSE IF item.status = "transcribed"
    THEN PublicRows \cup (IF item.quarantined THEN {QualityRow} ELSE {})
                    \cup (IF item.featured THEN FeaturedRows ELSE {})
    ELSE {}
=============================================================================
