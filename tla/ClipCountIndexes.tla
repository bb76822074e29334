--------------------------- MODULE ClipCountIndexes ---------------------------
(***************************************************************************)
(* What one serving-index row of the clip table contributes to the public  *)
(* counters (src/src/talkingboats/clip_count_aggregates.py).               *)
(*                                                                         *)
(* A row is identified by its DynamoDB key: the partition it is in and the *)
(* clip it is for.  Its content is what contribution_for_index reads of it *)
(* (channel, quality_status, and whether the text is displayable), or      *)
(* NoItem when the table has no such row.  Every counter a row contributes *)
(* to is incremented by exactly one, so a contribution is the SET of those *)
(* counters.                                                               *)
(***************************************************************************)
EXTENDS Naturals, FiniteSets

CONSTANTS
    Rows,       \* the index rows considered, records [part, clip]
    Channels,   \* VHF channel names
    Qualities,  \* quality_status values in use
    NoItem      \* the content of a row that is not in the table

BacklogStatuses == {"pending", "processing", "waiting_upload", "error"}

Partitions == BacklogStatuses \cup {"transcribed", "featured"}

Items == [channel : Channels, quality : Qualities, displayable : BOOLEAN]

Contents == Items \cup {NoItem}

Views == {"all", "visible", "quarantined"}

\* A counter is <<root, key>>; a channel root is <<view, featured>>.
Counters == ({<<"backlog", FALSE>>} \X BacklogStatuses)
              \cup ((Views \X BOOLEAN) \X Channels)

Contribution(r, item) ==
    LET featured == r.part = "featured"
        view     == IF item.quality = "quarantined" THEN "quarantined"
                                                    ELSE "visible"
    IN  IF item = NoItem
        THEN {}
        ELSE IF r.part \in BacklogStatuses
             THEN {<< <<"backlog", FALSE>>, r.part >>}
             ELSE {<< <<v, featured>>, item.channel >> :
                     v \in IF item.displayable THEN {"all", view} ELSE {}}

ASSUME RowsAssumption ==
    /\ Rows # {} /\ IsFiniteSet(Rows)
    /\ Rows \subseteq [part : Partitions, clip : {r.clip : r \in Rows}]

\* _quality_for_index maps every other value to "unknown".
ASSUME QualitiesAssumption ==
    Qualities \subseteq {"unknown", "ok", "marginal", "quarantined"}

ASSUME NoItemAssumption == NoItem \notin Items

-----------------------------------------------------------------------------
\* The counters a summary holds for a given membership of every row.
CountsOf(counted) ==
    [c \in Counters |-> Cardinality({r \in Rows : c \in counted[r]})]
=============================================================================
