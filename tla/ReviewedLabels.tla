----------------------------- MODULE ReviewedLabels -----------------------------
(***************************************************************************)
(* Corrections of transcripts: operators edit a clip's label concurrently, *)
(* every edit is saved by Corrections.save and DynamoCorrections.commit    *)
(* (src/src/talkingboats/asr_feedback.py) as one transaction over the head *)
(* row, the history, a receipt of the request and a global revision, and a *)
(* reviewed label's audio is archived afterwards by a background task of   *)
(* the API (archive_label in asr_experiments.py).                          *)
(*                                                                         *)
(* A handler reads the head, then the receipt, then the whole inventory,   *)
(* and commits; other handlers and tasks act between any two of these.  An *)
(* answer may be lost, a transaction may conflict, the API may restart.    *)
(***************************************************************************)
EXTENDS Naturals, FiniteSets

CONSTANTS
    Clips,          \* clips that can be corrected
    Requests,       \* request identifiers chosen by the clients
    Texts,          \* what an edit may say
    Reviewed,       \* the texts marked as reviewed and not reverted
    Editors,        \* handlers of the API that may run at once
    MaxLabels,      \* MAX_LABELS
    MaxAudio,       \* the archive's quota, in clips
    MaxSubmits,     \* bound: edits submitted
    MaxTroubles,    \* bound: lost answers, conflicts, restarts
    None            \* no row, no edit

\* An edit is what Correction.model_dump returns, so its fingerprint is itself.
\* A revision beyond the number of edits submitted is never reached.
Edits == [clip : Clips, request : Requests, expected : 0 .. MaxSubmits,
          text : Texts]

\* A row of the corrections partition; effort counts one unit for each edit.
Rows == [edit : Edits, revision : Nat, effort : Nat, archived : BOOLEAN]

\* A row of the request partition.
Receipts == [edit : Edits, revision : Nat]

ASSUME LabelsAssumption ==
    /\ IsFiniteSet(Clips) /\ IsFiniteSet(Requests)
    /\ Reviewed \subseteq Texts
    /\ MaxLabels \in Nat \ {0}
    /\ {MaxAudio, MaxSubmits, MaxTroubles} \subseteq Nat
    /\ None \notin Rows /\ None \notin Receipts /\ None \notin Edits

VARIABLES
    heads,      \* the corrections partition: the label of every clip, or None
    history,    \* the history partition of every clip: revision -> edit
    receipts,   \* the request partition: the receipt of every request, or None
    total,      \* the revision of the whole inventory, which readers cache by
    editors,    \* the handlers
    tasks,      \* background archive tasks of the API
    audio,      \* clips whose audio is in the archive
    saved,      \* edits that were acknowledged to their client
    submits,    \* edits submitted so far
    troubles    \* lost answers, conflicts and restarts so far

table == <<heads, history, receipts, total>>
vars  == <<table, editors, tasks, audio, saved, submits, troubles>>

-----------------------------------------------------------------------------
Idle == [pc |-> "idle", edit |-> None, previous |-> None]

Init ==
    /\ heads = [c \in Clips |-> None]
    /\ history = [c \in Clips |-> [r \in {} |-> None]]
    /\ receipts = [q \in Requests |-> None]
    /\ total = 0
    /\ editors = [e \in Editors |-> Idle]
    /\ tasks = {}
    /\ audio = {}
    /\ saved = {}
    /\ submits = 0
    /\ troubles = 0

Labelled == {c \in Clips : heads[c] # None}

RevisionOf(row) == IF row = None THEN 0 ELSE row.revision
EffortOf(row)   == IF row = None THEN 0 ELSE row.effort

\* A task archives the row it was given; phase is what it will do next.
Tasks == [clip : Clips, revision : Nat, phase : {"measure", "copy", "mark"}]

-----------------------------------------------------------------------------
(* Answers of a handler.  An acknowledged edit that is reviewed starts an  *)
(* archive task for the row that was returned.                             *)

Saved(e, revision) ==
    LET edit == editors[e].edit
    IN  /\ saved' = saved \cup {edit}
        /\ tasks' = IF edit.text \in Reviewed
                    THEN tasks \cup {[clip |-> edit.clip, revision |-> revision,
                                      phase |-> "measure"]}
                    ELSE tasks
        /\ editors' = [editors EXCEPT ![e] = Idle]

\* Answered with a conflict, with "limit reached", or with an error.
Refused(e) ==
    /\ editors' = [editors EXCEPT ![e] = Idle]
    /\ UNCHANGED <<saved, tasks>>

Goto(e, pc) ==
    /\ editors' = [editors EXCEPT ![e].pc = pc]
    /\ UNCHANGED <<saved, tasks>>

-----------------------------------------------------------------------------
(* Corrections.save                                                        *)

Submit(e, edit) ==
    /\ editors[e] = Idle
    /\ submits < MaxSubmits
    /\ submits' = submits + 1
    /\ editors' = [editors EXCEPT
                     ![e] = [pc |-> "get", edit |-> edit, previous |-> None]]
    /\ UNCHANGED <<table, tasks, audio, saved, troubles>>

GetHead(e) ==
    /\ editors[e].pc = "get"
    /\ editors' = [editors EXCEPT
                     ![e] = [pc |-> "request", edit |-> @.edit,
                             previous |-> heads[@.edit.clip]]]
    /\ UNCHANGED <<table, tasks, audio, saved, submits, troubles>>

\* The receipt is read; it, or else the head read before, may answer.
GetReceipt(e) ==
    LET edit     == editors[e].edit
        previous == editors[e].previous
        receipt  == receipts[edit.request]
    IN  /\ editors[e].pc = "request"
        /\ IF receipt # None
           THEN IF receipt.edit = edit THEN Saved(e, receipt.revision)
                                       ELSE Refused(e)
           ELSE IF previous # None /\ previous.edit.request = edit.request
           THEN IF previous.edit = edit THEN Saved(e, previous.revision)
                                        ELSE Refused(e)
           ELSE IF RevisionOf(previous) # edit.expected
           THEN Refused(e)
           ELSE Goto(e, IF previous = None THEN "count" ELSE "commit")
        /\ UNCHANGED <<table, audio, submits, troubles>>

HasRoom == Cardinality(Labelled) < MaxLabels

\* A first correction of a clip: Corrections.list, which itself raises beyond
\* the limit, and the limit.
CountLabels(e) ==
    /\ editors[e].pc = "count"
    /\ IF HasRoom THEN Goto(e, "commit") ELSE Refused(e)
    /\ UNCHANGED <<table, audio, submits, troubles>>

-----------------------------------------------------------------------------
(* DynamoCorrections.commit                                                *)

\* Mutant: the effort spent before is forgotten.
NewRowOwnEffort(edit, previous) ==
    [edit |-> edit, revision |-> edit.expected + 1, effort |-> 1,
     archived |-> FALSE]

NewRow(edit, previous) ==
    [edit |-> edit, revision |-> edit.expected + 1,
     effort |-> EffortOf(previous) + 1, archived |-> FALSE]

\* Mutant: the request's receipt is put unconditionally.
AcceptedWithoutReceipt(edit) ==
    /\ IF edit.expected = 0 THEN heads[edit.clip] = None
       ELSE RevisionOf(heads[edit.clip]) = edit.expected
    /\ edit.expected + 1 \notin DOMAIN history[edit.clip]

\* Mutant: the head and the history are put unconditionally.
AcceptedBlindly(edit) == receipts[edit.request] = None

\* The conditions of the transaction's three puts.
Accepted(edit) ==
    /\ IF edit.expected = 0 THEN heads[edit.clip] = None
       ELSE RevisionOf(heads[edit.clip]) = edit.expected
    /\ edit.expected + 1 \notin DOMAIN history[edit.clip]
    /\ receipts[edit.request] = None

Extended(f, key, value) ==
    [k \in DOMAIN f \cup {key} |-> IF k = key THEN value ELSE f[k]]

Write(edit, row) ==
    /\ heads' = [heads EXCEPT ![edit.clip] = row]
    /\ history' = [history EXCEPT
                     ![edit.clip] = Extended(@, row.revision, edit)]
    /\ receipts' = [receipts EXCEPT
                      ![edit.request] = [edit |-> edit, revision |-> row.revision]]
    /\ total' = total + 1

Commit(e) ==
    LET edit == editors[e].edit
        row  == NewRow(edit, editors[e].previous)
    IN  /\ editors[e].pc = "commit"
        /\ Accepted(edit)
        /\ Write(edit, row)
        /\ Saved(e, row.revision)
        /\ UNCHANGED <<audio, submits, troubles>>

\* The transaction was applied; the handler raises and the client may retry.
CommitUnanswered(e) ==
    LET edit == editors[e].edit
    IN  /\ editors[e].pc = "commit"
        /\ Accepted(edit)
        /\ troubles < MaxTroubles
        /\ troubles' = troubles + 1
        /\ Write(edit, NewRow(edit, editors[e].previous))
        /\ Refused(e)
        /\ UNCHANGED <<audio, submits>>

\* TransactionCanceledException: a condition failed ...
Cancelled(e) ==
    /\ editors[e].pc = "commit"
    /\ ~Accepted(editors[e].edit)
    /\ Goto(e, "recheck")
    /\ UNCHANGED <<table, audio, submits, troubles>>

\* ... or another transaction holds one of the items.
Conflicted(e) ==
    /\ editors[e].pc = "commit"
    /\ troubles < MaxTroubles
    /\ troubles' = troubles + 1
    /\ Goto(e, "recheck")
    /\ UNCHANGED <<table, audio, submits>>

\* Mutant: any label that is there is taken for the edit's own.
IsOwnAnyway(row, edit) == row # None

IsOwn(row, edit) == row # None /\ row.edit = edit

\* The head decides: the same edit was saved by another call, or a conflict.
Recheck(e) ==
    LET edit == editors[e].edit
    IN  /\ editors[e].pc = "recheck"
        /\ IF IsOwn(heads[edit.clip], edit)
           THEN Saved(e, heads[edit.clip].revision) ELSE Refused(e)
        /\ UNCHANGED <<table, audio, submits, troubles>>

-----------------------------------------------------------------------------
(* archive_label, and a restart of the API, which forgets all of its work. *)

Moved(task, phase) == (tasks \ {task}) \cup {[task EXCEPT !.phase = phase]}

\* The source is there, and the archive's listing leaves room for it.
Measure(task) ==
    /\ task.phase = "measure"
    /\ Cardinality(audio) < MaxAudio
    /\ tasks' = Moved(task, "copy")
    /\ UNCHANGED <<table, editors, audio, saved, submits, troubles>>

CopyAudio(task) ==
    /\ task.phase = "copy"
    /\ audio' = audio \cup {task.clip}
    /\ tasks' = Moved(task, "mark")
    /\ UNCHANGED <<table, editors, saved, submits, troubles>>

\* Mutant: the row is marked whatever revision it has.
IsCurrentAnyway(task) == heads[task.clip] # None

IsCurrent(task) == RevisionOf(heads[task.clip]) = task.revision

MarkReady(task) ==
    /\ task.phase = "mark"
    /\ heads' = IF IsCurrent(task)
                THEN [heads EXCEPT ![task.clip].archived = TRUE] ELSE heads
    /\ tasks' = tasks \ {task}
    /\ UNCHANGED <<history, receipts, total, editors, audio, saved, submits, troubles>>

\* The quota is exhausted, the source has expired, or S3 fails: logged only.
AbandonArchive(task) ==
    /\ tasks' = tasks \ {task}
    /\ UNCHANGED <<table, editors, audio, saved, submits, troubles>>

Restart ==
    /\ troubles < MaxTroubles
    /\ troubles' = troubles + 1
    /\ editors' = [e \in Editors |-> Idle]
    /\ tasks' = {}
    /\ UNCHANGED <<table, audio, saved, submits>>

-----------------------------------------------------------------------------
Step(e) ==
    \/ GetHead(e) \/ GetReceipt(e) \/ CountLabels(e)
    \/ Commit(e) \/ CommitUnanswered(e) \/ Cancelled(e) \/ Conflicted(e)
    \/ Recheck(e)

Archive(task) ==
    Measure(task) \/ CopyAudio(task) \/ MarkReady(task) \/ AbandonArchive(task)

Work ==
    \/ \E e \in Editors : Step(e) \/ \E edit \in Edits : Submit(e, edit)
    \/ \E task \in tasks : Archive(task)

Next == Work \/ Restart

Spec == Init /\ [][Next]_vars

-----------------------------------------------------------------------------
(* Properties.                                                             *)

Phases == {"get", "request", "count", "commit", "recheck"}

Handlers ==
    {Idle} \cup [pc : Phases, edit : Edits, previous : Rows \cup {None}]

\* Every variable has the shape the code gives it.
TypeOK ==
    /\ heads \in [Clips -> Rows \cup {None}]
    /\ DOMAIN history = Clips
    /\ \A c \in Clips : history[c] \in [DOMAIN history[c] -> Edits]
    /\ receipts \in [Requests -> Receipts \cup {None}]
    /\ total \in Nat
    /\ editors \in [Editors -> Handlers]
    /\ tasks \subseteq Tasks
    /\ audio \subseteq Clips
    /\ saved \subseteq Edits
    /\ submits \in 0 .. MaxSubmits
    /\ troubles \in 0 .. MaxTroubles

\* The head is the newest revision of a history without gaps, each revision
\* the successor of the one its editor saw, and its effort is that of all of
\* its edits although it was added up from a row read earlier.
HistoryIsComplete ==
    \A c \in Clips :
        /\ DOMAIN history[c] = 1 .. RevisionOf(heads[c])
        /\ \A r \in DOMAIN history[c] :
              history[c][r].clip = c /\ history[c][r].expected = r - 1
        /\ heads[c] # None =>
              /\ heads[c].revision > 0
              /\ heads[c].edit = history[c][heads[c].revision]
              /\ heads[c].effort = heads[c].revision

\* A request, however often it is sent and whatever becomes of its answers,
\* is one revision of one clip: receipts, histories and the inventory's
\* revision tell the same.
RequestsCountOnce ==
    /\ total = Cardinality({q \in Requests : receipts[q] # None})
    /\ \A q \in Requests : receipts[q] # None =>
          LET edit == receipts[q].edit
          IN  /\ edit.request = q
              /\ receipts[q].revision \in DOMAIN history[edit.clip]
              /\ history[edit.clip][receipts[q].revision] = edit
    /\ \A c \in Clips : \A r \in DOMAIN history[c] :
          receipts[history[c][r].request]
            = [edit |-> history[c][r], revision |-> r]

\* An edit that was acknowledged is in the history of its clip.
SavedEditsStand ==
    \A edit \in saved : \E r \in DOMAIN history[edit.clip] :
        history[edit.clip][r] = edit

\* A label counts as training material ("ready") only while its current
\* revision is a reviewed one and its audio is in the archive.
ReadyIsReviewed ==
    \A c \in Clips : heads[c] # None /\ heads[c].archived =>
        heads[c].edit.text \in Reviewed /\ c \in audio

-----------------------------------------------------------------------------
(* The inductive invariant: what handlers and tasks know of the history.   *)

InHistory(c, r, edit) == r \in DOMAIN history[c] /\ history[c][r] = edit

\* The label a handler read is a revision of the clip's history, and past the
\* checks it is the one its edit expects.
Knows(handler) ==
    LET edit     == handler.edit
        previous == handler.previous
    IN  /\ previous # None =>
              /\ InHistory(edit.clip, previous.revision, previous.edit)
              /\ previous.effort = previous.revision
        /\ handler.pc \in {"count", "commit", "recheck"} =>
              RevisionOf(previous) = edit.expected

HandlersKnow == \A e \in Editors : Knows(editors[e])

\* A task is about a reviewed revision, and marks only what it has copied.
IsReviewed(task) ==
    /\ task.revision \in DOMAIN history[task.clip]
    /\ history[task.clip][task.revision].text \in Reviewed
    /\ task.phase = "mark" => task.clip \in audio

TasksKnow == \A task \in tasks : IsReviewed(task)

\* Types, the table's own consistency, and what is known of it elsewhere.
LabelsInv ==
    /\ TypeOK
    /\ HistoryIsComplete /\ RequestsCountOnce /\ ReadyIsReviewed
    /\ SavedEditsStand /\ HandlersKnow /\ TasksKnow

-----------------------------------------------------------------------------
Log == INSTANCE LabelLog WITH log <- history

\* The store implements the log of edits that its clients rely on.
ImplementsLog == Log!Spec
=============================================================================
