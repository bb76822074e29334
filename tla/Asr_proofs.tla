------------------------------ MODULE Asr_proofs ------------------------------
(***************************************************************************)
(* Proofs about the operator's feedback on the recognition of speech.      *)
(* The reviewed labels and the search over them, for any clips, requests,  *)
(* texts, handlers and searches, and any number of edits, lost answers,    *)
(* conflicts, archive tasks and restarts.  The experiments: one computes   *)
(* at a time, what says "completed" has its candidate, and a candidate     *)
(* that was identified is never touched, for any runs and threads of the   *)
(* API and any number of requests, signals, kills, restarts and failures.  *)
(***************************************************************************)
EXTENDS CorrectionSearch, AsrExperiments, FiniteSetTheorems, SequenceTheorems, TLAPS

-----------------------------------------------------------------------------
(* PART ONE: the reviewed labels (ReviewedLabels).                         *)

\* The shape of the table: the part of TypeOK that a commit or a mark changes.
TableTypeOK ==
    /\ heads \in [Clips -> Rows \cup {None}]
    /\ DOMAIN history = Clips
    /\ \A c \in Clips : history[c] \in [DOMAIN history[c] -> Edits]
    /\ receipts \in [Requests -> Receipts \cup {None}]
    /\ total \in Nat

\* What is in a history stays there.
Grows ==
    \A c \in Clips : \A r \in DOMAIN history[c] :
        r \in DOMAIN history'[c] /\ history'[c][r] = history[c][r]

-----------------------------------------------------------------------------
(* Facts about a state in which the invariant holds.                       *)

\* A handler at work holds an edit and the row it read, or none.
LEMMA HandlerType ==
    ASSUME TypeOK, NEW e \in Editors, editors[e].pc # "idle"
    PROVE  /\ editors[e].edit \in Edits
           /\ editors[e].previous \in Rows \cup {None}
           /\ editors[e].pc \in Phases
<1>1. editors[e] # Idle
  BY DEF Idle
<1>2. editors[e] \in [pc : Phases, edit : Edits, previous : Rows \cup {None}]
  BY <1>1 DEF TypeOK, Handlers
<1> QED
  BY <1>2

\* An accepted edit expects the revision of its clip's head, and neither its
\* request nor the revision it will be have been seen.
LEMMA AcceptedEdit ==
    ASSUME TypeOK, HistoryIsComplete, NEW edit \in Edits, Accepted(edit)
    PROVE  /\ edit.clip \in Clips
           /\ edit.request \in Requests
           /\ edit.expected \in Nat
           /\ RevisionOf(heads[edit.clip]) = edit.expected
           /\ DOMAIN history[edit.clip] = 1 .. edit.expected
           /\ receipts[edit.request] = None
<1>1. /\ edit.clip \in Clips
      /\ edit.request \in Requests
      /\ edit.expected \in Nat
  BY LabelsAssumption DEF Edits
<1>2. RevisionOf(heads[edit.clip]) = edit.expected
  BY DEF Accepted, RevisionOf
<1> QED
  BY <1>1, <1>2 DEF Accepted, HistoryIsComplete

\* The revision of a label, or 0 without one, is a natural number.
LEMMA RevisionType ==
    ASSUME NEW row \in Rows \cup {None}
    PROVE  RevisionOf(row) \in Nat /\ EffortOf(row) \in Nat
BY DEF RevisionOf, EffortOf, Rows

-----------------------------------------------------------------------------
(* The transaction.                                                        *)

\* The row a handler commits is the successor of the head, with the effort of
\* all edits up to it.
LEMMA CommittedRow ==
    ASSUME LabelsInv, NEW e \in Editors, editors[e].pc = "commit",
           Accepted(editors[e].edit)
    PROVE  LET edit == editors[e].edit
               row  == NewRow(edit, editors[e].previous)
           IN  /\ row \in Rows /\ row # None
               /\ row.edit = edit /\ ~row.archived
               /\ row.revision = edit.expected + 1
               /\ row.effort = edit.expected + 1
<1> DEFINE edit     == editors[e].edit
           previous == editors[e].previous
           row      == NewRow(edit, previous)
<1>1. edit \in Edits /\ previous \in Rows \cup {None}
  BY HandlerType DEF LabelsInv
<1>2. edit.expected \in Nat
  BY <1>1, LabelsAssumption DEF Edits
<1>3. EffortOf(previous) = edit.expected
  <2>1. RevisionOf(previous) = edit.expected
    BY DEF LabelsInv, HandlersKnow, Knows
  <2>2. CASE previous = None
    BY <2>1, <2>2 DEF RevisionOf, EffortOf
  <2>3. CASE previous # None
    <3>1. previous.effort = previous.revision
      BY <2>3 DEF LabelsInv, HandlersKnow, Knows
    <3> QED
      BY <2>1, <2>3, <3>1 DEF RevisionOf, EffortOf
  <2> QED
    BY <2>2, <2>3
<1>4. row = [edit |-> edit, revision |-> edit.expected + 1,
             effort |-> edit.expected + 1, archived |-> FALSE]
  BY <1>3 DEF NewRow
<1>5. row \in Rows
  BY <1>1, <1>2, <1>4 DEF Rows
<1>6. row # None
  BY <1>5, LabelsAssumption
<1> QED
  BY <1>4, <1>5, <1>6

\* What the transaction's puts leave in the table.
LEMMA WriteEffect ==
    ASSUME TableTypeOK,
           NEW edit \in Edits, NEW row \in Rows, row.revision \in Nat,
           Write(edit, row)
    PROVE  /\ TableTypeOK'
           /\ \A c \in Clips : heads'[c] = IF c = edit.clip THEN row ELSE heads[c]
           /\ \A c \in Clips : c # edit.clip => history'[c] = history[c]
           /\ DOMAIN history'[edit.clip]
                = DOMAIN history[edit.clip] \cup {row.revision}
           /\ history'[edit.clip][row.revision] = edit
           /\ \A r \in DOMAIN history[edit.clip] : r # row.revision =>
                 history'[edit.clip][r] = history[edit.clip][r]
           /\ \A q \in Requests :
                 receipts'[q] = IF q = edit.request
                                THEN [edit |-> edit, revision |-> row.revision]
                                ELSE receipts[q]
           /\ total' = total + 1
<1>1. edit.clip \in Clips /\ edit.request \in Requests
  BY DEF Edits
<1>2. heads' = [heads EXCEPT ![edit.clip] = row]
  BY DEF Write
<1>3. history' = [history EXCEPT
                    ![edit.clip] = Extended(history[edit.clip], row.revision, edit)]
  BY DEF Write
<1>4. receipts' = [receipts EXCEPT
                     ![edit.request] = [edit |-> edit, revision |-> row.revision]]
  BY DEF Write
<1>5. total' = total + 1
  BY DEF Write
<1>6. [edit |-> edit, revision |-> row.revision] \in Receipts
  BY DEF Receipts
<1>7. history'[edit.clip] = Extended(history[edit.clip], row.revision, edit)
  BY <1>1, <1>3 DEF TableTypeOK
<1>8. \A c \in Clips : c # edit.clip => history'[c] = history[c]
  BY <1>1, <1>3 DEF TableTypeOK
<1>9. history[edit.clip] \in [DOMAIN history[edit.clip] -> Edits]
  BY <1>1 DEF TableTypeOK
<1>10. /\ DOMAIN history'[edit.clip]
            = DOMAIN history[edit.clip] \cup {row.revision}
       /\ history'[edit.clip][row.revision] = edit
       /\ \A r \in DOMAIN history[edit.clip] : r # row.revision =>
             history'[edit.clip][r] = history[edit.clip][r]
       /\ history'[edit.clip] \in [DOMAIN history'[edit.clip] -> Edits]
  BY <1>7, <1>9 DEF Extended
<1>11. TableTypeOK'
  <2>1. heads' \in [Clips -> Rows \cup {None}]
    BY <1>1, <1>2 DEF TableTypeOK
  <2>2. DOMAIN history' = Clips
    BY <1>3 DEF TableTypeOK
  <2>3. \A c \in Clips : history'[c] \in [DOMAIN history'[c] -> Edits]
    BY <1>8, <1>10 DEF TableTypeOK
  <2>4. receipts' \in [Requests -> Receipts \cup {None}]
    BY <1>1, <1>4, <1>6 DEF TableTypeOK
  <2>5. total' \in Nat
    BY <1>5 DEF TableTypeOK
  <2> QED
    BY <2>1, <2>2, <2>3, <2>4, <2>5 DEF TableTypeOK
<1> QED
  BY <1>1, <1>2, <1>4, <1>5, <1>8, <1>10, <1>11 DEF TableTypeOK

\* A commit keeps the table consistent, adds its edit to the history and
\* takes nothing away (DynamoCorrections.commit).
LEMMA CommitEffect ==
    ASSUME LabelsInv, NEW e \in Editors, editors[e].pc = "commit",
           Accepted(editors[e].edit),
           Write(editors[e].edit, NewRow(editors[e].edit, editors[e].previous)),
           audio' = audio
    PROVE  /\ TableTypeOK' /\ HistoryIsComplete' /\ RequestsCountOnce'
           /\ ReadyIsReviewed' /\ Grows
           /\ LET edit == editors[e].edit
                  r    == NewRow(edit, editors[e].previous).revision
              IN  r \in DOMAIN history'[edit.clip] /\ history'[edit.clip][r] = edit
<1> DEFINE edit == editors[e].edit
           row  == NewRow(edit, editors[e].previous)
           n    == edit.expected
<1>1. edit \in Edits
  BY HandlerType DEF LabelsInv
<1>2. /\ edit.clip \in Clips /\ edit.request \in Requests /\ n \in Nat
      /\ RevisionOf(heads[edit.clip]) = n
      /\ DOMAIN history[edit.clip] = 1 .. n
      /\ receipts[edit.request] = None
  BY <1>1, AcceptedEdit DEF LabelsInv
<1>3. /\ row \in Rows /\ row # None
      /\ row.edit = edit /\ ~row.archived
      /\ row.revision = n + 1 /\ row.effort = n + 1
  BY CommittedRow
<1>4. TableTypeOK
  BY DEF LabelsInv, TypeOK, TableTypeOK
<1>5. Write(edit, row)
  OBVIOUS
<1> HIDE DEF edit, row
<1>6. /\ TableTypeOK'
      /\ \A c \in Clips : heads'[c] = IF c = edit.clip THEN row ELSE heads[c]
      /\ \A c \in Clips : c # edit.clip => history'[c] = history[c]
      /\ DOMAIN history'[edit.clip]
           = DOMAIN history[edit.clip] \cup {row.revision}
      /\ history'[edit.clip][row.revision] = edit
      /\ \A r \in DOMAIN history[edit.clip] : r # row.revision =>
            history'[edit.clip][r] = history[edit.clip][r]
      /\ \A q \in Requests :
            receipts'[q] = IF q = edit.request
                           THEN [edit |-> edit, revision |-> row.revision]
                           ELSE receipts[q]
      /\ total' = total + 1
  <2>1. row.revision \in Nat
    BY <1>2, <1>3
  <2> QED
    BY <1>1, <1>3, <1>4, <1>5, <2>1, WriteEffect
<1>7. /\ TableTypeOK'
      /\ \A c \in Clips : heads'[c] = IF c = edit.clip THEN row ELSE heads[c]
      /\ \A c \in Clips : c # edit.clip => history'[c] = history[c]
      /\ DOMAIN history'[edit.clip] = (1 .. n) \cup {n + 1}
      /\ history'[edit.clip][n + 1] = edit
      /\ \A r \in 1 .. n : r # n + 1 =>
            history'[edit.clip][r] = history[edit.clip][r]
      /\ \A q \in Requests :
            receipts'[q] = IF q = edit.request
                           THEN [edit |-> edit, revision |-> n + 1]
                           ELSE receipts[q]
      /\ total' = total + 1
  BY <1>2, <1>3, <1>6
<1>8. /\ DOMAIN history'[edit.clip] = 1 .. n + 1
      /\ \A r \in 1 .. n : history'[edit.clip][r] = history[edit.clip][r]
  BY <1>2, <1>7
<1>9. Grows
  BY <1>2, <1>7, <1>8 DEF Grows
<1>10. HistoryIsComplete'
  <2> SUFFICES ASSUME NEW c \in Clips
               PROVE  /\ DOMAIN history'[c] = 1 .. RevisionOf(heads'[c])
                      /\ \A r \in DOMAIN history'[c] :
                            /\ history'[c][r].clip = c
                            /\ history'[c][r].expected = r - 1
                      /\ heads'[c] # None =>
                            /\ heads'[c].revision > 0
                            /\ heads'[c].edit = history'[c][heads'[c].revision]
                            /\ heads'[c].effort = heads'[c].revision
    BY DEF HistoryIsComplete, RevisionOf
  <2>1. CASE c # edit.clip
    BY <2>1, <1>7 DEF LabelsInv, HistoryIsComplete
  <2>2. CASE c = edit.clip
    <3>1. heads'[c] = row
      BY <2>2, <1>7
    <3>2. RevisionOf(row) = n + 1
      BY <1>3 DEF RevisionOf
    <3>3. \A r \in 1 .. n : /\ history[c][r].clip = c
                            /\ history[c][r].expected = r - 1
      BY <2>2, <1>2 DEF LabelsInv, HistoryIsComplete
    <3>4. ASSUME NEW r \in 1 .. n + 1
          PROVE  history'[c][r].clip = c /\ history'[c][r].expected = r - 1
      <4>1. CASE r = n + 1
        BY <4>1, <2>2, <1>2, <1>7
      <4>2. CASE r # n + 1
        <5>1. r \in 1 .. n
          BY <4>2, <1>2
        <5>2. history'[c][r] = history[c][r]
          BY <5>1, <2>2, <1>8
        <5> QED
          BY <5>1, <5>2, <3>3
      <4> QED
        BY <4>1, <4>2
    <3> QED
      <4>1. DOMAIN history'[c] = 1 .. n + 1 /\ history'[c][n + 1] = edit
        BY <2>2, <1>7, <1>8
      <4>2. row.revision = n + 1 /\ row.effort = n + 1 /\ n + 1 > 0
        BY <1>2, <1>3
      <4> HIDE DEF n
      <4> QED
        BY <3>1, <3>2, <3>4, <4>1, <4>2, <1>3
  <2> QED
    BY <2>1, <2>2
<1>11. RequestsCountOnce'
  <2>1. total' = Cardinality({q \in Requests : receipts'[q] # None})
    <3> DEFINE known == {q \in Requests : receipts[q] # None}
    <3>1. IsFiniteSet(known)
      BY FS_Subset, LabelsAssumption
    <3>2. edit.request \notin known
      BY <1>2
    <3>3. [edit |-> edit, revision |-> n + 1] # None
      <4>1. [edit |-> edit, revision |-> n + 1] \in Receipts
        BY <1>1, <1>2 DEF Receipts
      <4> QED
        BY <4>1, LabelsAssumption
    <3>4. {q \in Requests : receipts'[q] # None} = known \cup {edit.request}
      BY <1>2, <1>7, <3>3
    <3>5. total = Cardinality(known)
      BY DEF LabelsInv, RequestsCountOnce
    <3>6. total' = total + 1
      BY <1>7
    <3> HIDE DEF known
    <3>7. Cardinality(known \cup {edit.request}) = Cardinality(known) + 1
      BY <3>1, <3>2, FS_AddElement
    <3> QED
      BY <3>4, <3>5, <3>6, <3>7
  <2>2. ASSUME NEW q \in Requests, receipts'[q] # None
        PROVE  /\ receipts'[q].edit.request = q
               /\ receipts'[q].revision \in DOMAIN history'[receipts'[q].edit.clip]
               /\ history'[receipts'[q].edit.clip][receipts'[q].revision]
                    = receipts'[q].edit
    <3>1. CASE q = edit.request
      BY <3>1, <1>2, <1>7, <1>8
    <3>2. CASE q # edit.request
      <4>1. receipts'[q] = receipts[q]
        BY <3>2, <1>7
      <4>2. /\ receipts[q].edit.request = q
            /\ receipts[q].revision \in DOMAIN history[receipts[q].edit.clip]
            /\ history[receipts[q].edit.clip][receipts[q].revision]
                 = receipts[q].edit
        BY <2>2, <4>1 DEF LabelsInv, RequestsCountOnce
      <4>3. receipts[q] \in Receipts
        BY <2>2, <4>1 DEF LabelsInv, TypeOK
      <4>4. receipts[q].edit.clip \in Clips
        BY <4>3 DEF Receipts, Edits
      <4> QED
        BY <4>1, <4>2, <4>4, <1>9 DEF Grows
    <3> QED
      BY <3>1, <3>2
  <2>3. ASSUME NEW c \in Clips, NEW r \in DOMAIN history'[c]
        PROVE  receipts'[history'[c][r].request]
                 = [edit |-> history'[c][r], revision |-> r]
    <3>1. CASE c = edit.clip /\ r = n + 1
      BY <3>1, <1>2, <1>7
    <3>2. CASE ~(c = edit.clip /\ r = n + 1)
      <4>1. r \in DOMAIN history[c] /\ history'[c][r] = history[c][r]
        BY <3>2, <1>2, <1>7, <1>8
      <4>2. receipts[history[c][r].request]
              = [edit |-> history[c][r], revision |-> r]
        BY <4>1 DEF LabelsInv, RequestsCountOnce
      <4>3. history[c][r] \in Edits
        BY <4>1, <1>4 DEF TableTypeOK
      <4>4. r \in Nat
        <5>1. RevisionOf(heads[c]) \in Nat
          BY <1>4, RevisionType DEF TableTypeOK
        <5> QED
          BY <4>1, <5>1 DEF LabelsInv, HistoryIsComplete
      <4>5. history[c][r].request \in Requests
        BY <4>3 DEF Edits
      <4>6. [edit |-> history[c][r], revision |-> r] \in Receipts
        BY <4>3, <4>4 DEF Receipts
      <4>7. history[c][r].request # edit.request
        BY <4>2, <4>6, <1>2, LabelsAssumption
      <4> QED
        BY <4>1, <4>2, <4>5, <4>7, <1>7
    <3> QED
      BY <3>1, <3>2
  <2> QED
    BY <2>1, <2>2, <2>3 DEF RequestsCountOnce
<1>12. ReadyIsReviewed'
  BY <1>3, <1>7 DEF LabelsInv, ReadyIsReviewed
<1>13. /\ row.revision \in DOMAIN history'[edit.clip]
       /\ history'[edit.clip][row.revision] = edit
  BY <1>3, <1>7, <1>8, <1>2
<1> QED
  BY <1>7, <1>9, <1>10, <1>11, <1>12, <1>13 DEF edit, row

-----------------------------------------------------------------------------
(* What is known outside of the table stays true as histories grow.        *)

\* An acknowledged edit stays in the history, and new ones must be in it.
LEMMA SavedStay ==
    ASSUME TypeOK, SavedEditsStand, Grows, saved' \subseteq Edits,
           \A edit \in saved' : edit \in saved
              \/ \E r \in DOMAIN history'[edit.clip] : history'[edit.clip][r] = edit
    PROVE  SavedEditsStand'
<1> SUFFICES ASSUME NEW edit \in saved', edit \in saved
             PROVE  \E r \in DOMAIN history'[edit.clip] :
                       history'[edit.clip][r] = edit
  BY DEF SavedEditsStand
<1>1. PICK r \in DOMAIN history[edit.clip] : history[edit.clip][r] = edit
  BY DEF SavedEditsStand
<1>2. edit.clip \in Clips
  BY DEF Edits
<1> QED
  BY <1>1, <1>2 DEF Grows

\* What a handler knows stays true, and a handler that moves on must know.
LEMMA HandlersStay ==
    ASSUME TypeOK, HandlersKnow, Grows,
           NEW e \in Editors, NEW h \in Handlers, Knows(h),
           editors' = [editors EXCEPT ![e] = h]
    PROVE  editors' \in [Editors -> Handlers] /\ HandlersKnow'
<1>1. editors' \in [Editors -> Handlers]
  BY DEF TypeOK
<1>2. ASSUME NEW d \in Editors
      PROVE  editors'[d] \in Handlers /\ Knows(editors'[d])
  <2>1. CASE d = e
    BY <2>1 DEF TypeOK
  <2>2. CASE d # e
    BY <2>2 DEF TypeOK, HandlersKnow
  <2> QED
    BY <2>1, <2>2
<1>3. ASSUME NEW k \in Handlers, Knows(k)
      PROVE  /\ k.previous # None =>
                   /\ k.previous.revision \in DOMAIN history'[k.edit.clip]
                   /\ history'[k.edit.clip][k.previous.revision] = k.previous.edit
                   /\ k.previous.effort = k.previous.revision
             /\ k.pc \in {"count", "commit", "recheck"} =>
                   RevisionOf(k.previous) = k.edit.expected
  <2>1. CASE k = Idle
    BY <2>1 DEF Idle
  <2>2. CASE k # Idle
    <3>1. k.edit.clip \in Clips
      BY <2>2 DEF Handlers, Edits
    <3> QED
      BY <3>1, <1>3 DEF Knows, InHistory, Grows
  <2> QED
    BY <2>1, <2>2
<1>4. HandlersKnow'
  BY <1>2, <1>3 DEF HandlersKnow, Knows, InHistory, RevisionOf
<1> QED
  BY <1>1, <1>4

\* A task's revision stays in the history, and copied audio in the archive.
LEMMA TasksStay ==
    ASSUME TypeOK, TasksKnow, Grows, audio \subseteq audio',
           \A task \in tasks' : task \in tasks \/
              /\ task.revision \in DOMAIN history'[task.clip]
              /\ history'[task.clip][task.revision].text \in Reviewed
              /\ task.phase = "mark" => task.clip \in audio'
    PROVE  TasksKnow'
<1> SUFFICES ASSUME NEW task \in tasks', task \in tasks
             PROVE  /\ task.revision \in DOMAIN history'[task.clip]
                    /\ history'[task.clip][task.revision].text \in Reviewed
                    /\ task.phase = "mark" => task.clip \in audio'
  BY DEF TasksKnow, IsReviewed
<1>1. task.clip \in Clips
  BY DEF TypeOK, Tasks
<1> QED
  BY <1>1 DEF TasksKnow, IsReviewed, Grows

-----------------------------------------------------------------------------
(* The answers of a handler.                                               *)

\* A handler that forgets its edit, or moves to another phase knowing enough
\* for it, breaks nothing.
LEMMA RefusedStep ==
    ASSUME LabelsInv, Grows, audio' = audio, NEW e \in Editors, Refused(e)
    PROVE  /\ editors' \in [Editors -> Handlers] /\ tasks' \subseteq Tasks
           /\ saved' \subseteq Edits
           /\ SavedEditsStand' /\ HandlersKnow' /\ TasksKnow'
<1>1. Idle \in Handlers /\ Knows(Idle)
  BY DEF Handlers, Knows, Idle
<1>2. editors' \in [Editors -> Handlers] /\ HandlersKnow'
  BY <1>1, HandlersStay DEF LabelsInv, Refused
<1>3. SavedEditsStand'
  BY SavedStay DEF LabelsInv, TypeOK, Refused
<1>4. TasksKnow'
  BY TasksStay DEF LabelsInv, Refused
<1> QED
  BY <1>2, <1>3, <1>4 DEF LabelsInv, TypeOK, Refused

LEMMA GotoStep ==
    ASSUME LabelsInv, Grows, audio' = audio, NEW e \in Editors,
           editors[e].pc # "idle", NEW pc \in Phases, Goto(e, pc),
           pc \in {"count", "commit", "recheck"} =>
              RevisionOf(editors[e].previous) = editors[e].edit.expected
    PROVE  /\ editors' \in [Editors -> Handlers] /\ tasks' \subseteq Tasks
           /\ saved' \subseteq Edits
           /\ SavedEditsStand' /\ HandlersKnow' /\ TasksKnow'
<1> DEFINE h == [editors[e] EXCEPT !.pc = pc]
<1>1. editors[e] \in [pc : Phases, edit : Edits, previous : Rows \cup {None}]
  BY DEF LabelsInv, TypeOK, Handlers, Idle
<1>2. /\ h \in [pc : Phases, edit : Edits, previous : Rows \cup {None}]
      /\ h.pc = pc /\ h.edit = editors[e].edit
      /\ h.previous = editors[e].previous
  BY <1>1
<1>3. Knows(editors[e])
  BY DEF LabelsInv, HandlersKnow
<1>4. editors' = [editors EXCEPT ![e] = h]
  BY DEF Goto, LabelsInv, TypeOK
<1> HIDE DEF h
<1>5. h \in Handlers /\ Knows(h)
  BY <1>2, <1>3 DEF Handlers, Knows
<1>6. editors' \in [Editors -> Handlers] /\ HandlersKnow'
  BY <1>4, <1>5, HandlersStay DEF LabelsInv
<1>7. SavedEditsStand'
  BY SavedStay DEF LabelsInv, TypeOK, Goto
<1>8. TasksKnow'
  BY TasksStay DEF LabelsInv, Goto
<1> QED
  BY <1>6, <1>7, <1>8 DEF LabelsInv, TypeOK, Goto

\* An answer may acknowledge an edit that is in the history, and start the
\* archiving of its revision.
LEMMA SavedStep ==
    ASSUME LabelsInv, Grows, audio' = audio, NEW e \in Editors,
           editors[e].pc # "idle", NEW n \in Nat, Saved(e, n),
           n \in DOMAIN history'[editors[e].edit.clip],
           history'[editors[e].edit.clip][n] = editors[e].edit
    PROVE  /\ editors' \in [Editors -> Handlers] /\ tasks' \subseteq Tasks
           /\ saved' \subseteq Edits
           /\ SavedEditsStand' /\ HandlersKnow' /\ TasksKnow'
<1> DEFINE edit == editors[e].edit
           task == [clip |-> edit.clip, revision |-> n, phase |-> "measure"]
<1>1. edit \in Edits
  BY HandlerType DEF LabelsInv
<1>2. /\ saved' = saved \cup {edit}
      /\ tasks' = IF edit.text \in Reviewed THEN tasks \cup {task} ELSE tasks
      /\ editors' = [editors EXCEPT ![e] = Idle]
  BY DEF Saved
<1>3. n \in DOMAIN history'[edit.clip] /\ history'[edit.clip][n] = edit
  OBVIOUS
<1>4. task \in Tasks /\ task.clip = edit.clip /\ task.revision = n
      /\ task.phase = "measure"
  BY <1>1 DEF Tasks, Edits
<1> HIDE DEF edit, task
<1>5. Idle \in Handlers /\ Knows(Idle)
  BY DEF Handlers, Knows, Idle
<1>6. editors' \in [Editors -> Handlers] /\ HandlersKnow'
  BY <1>2, <1>5, HandlersStay DEF LabelsInv
<1>7. saved' \subseteq Edits /\ tasks' \subseteq Tasks
  BY <1>1, <1>2, <1>4 DEF LabelsInv, TypeOK
<1>8. SavedEditsStand'
  BY <1>2, <1>3, <1>7, SavedStay DEF LabelsInv
<1>9. ASSUME NEW t \in tasks'
      PROVE  t \in tasks \/
               /\ t.revision \in DOMAIN history'[t.clip]
               /\ history'[t.clip][t.revision].text \in Reviewed
               /\ t.phase = "mark" => t.clip \in audio'
  BY <1>2, <1>3, <1>4
<1>10. TasksKnow'
  BY <1>9, TasksStay DEF LabelsInv
<1> QED
  BY <1>6, <1>7, <1>8, <1>10

-----------------------------------------------------------------------------
(* Every step preserves the invariant.                                     *)

\* Steps that leave the table alone leave it consistent.
LEMMA SameTable ==
    ASSUME LabelsInv, UNCHANGED table, audio \subseteq audio'
    PROVE  /\ TableTypeOK' /\ HistoryIsComplete' /\ RequestsCountOnce'
           /\ ReadyIsReviewed' /\ Grows
<1>1. UNCHANGED <<heads, history, receipts, total>>
  BY DEF table
<1>2. TableTypeOK'
  BY <1>1 DEF TableTypeOK, LabelsInv, TypeOK
<1>3. HistoryIsComplete'
  BY <1>1 DEF LabelsInv, HistoryIsComplete, RevisionOf
<1>4. RequestsCountOnce'
  BY <1>1 DEF LabelsInv, RequestsCountOnce
<1>5. ReadyIsReviewed'
  BY <1>1 DEF LabelsInv, ReadyIsReviewed
<1>6. Grows
  BY <1>1 DEF Grows
<1> QED
  BY <1>2, <1>3, <1>4, <1>5, <1>6

\* A step of a handler that changes no table keeps the invariant if its answer
\* does.
LEMMA HandlerStep ==
    ASSUME LabelsInv, NEW e \in Editors, editors[e].pc # "idle",
           UNCHANGED <<table, audio, submits>>, troubles' \in 0 .. MaxTroubles,
           \/ Refused(e)
           \/ \E pc \in Phases :
                 /\ Goto(e, pc)
                 /\ pc \in {"count", "commit", "recheck"} =>
                       RevisionOf(editors[e].previous) = editors[e].edit.expected
           \/ \E n \in Nat :
                 /\ Saved(e, n)
                 /\ InHistory(editors[e].edit.clip, n, editors[e].edit)
    PROVE  LabelsInv'
<1>1. /\ TableTypeOK' /\ HistoryIsComplete' /\ RequestsCountOnce'
      /\ ReadyIsReviewed' /\ Grows
  BY SameTable
<1>2. audio' = audio /\ submits' = submits /\ history' = history
  BY DEF table
<1>3. /\ editors' \in [Editors -> Handlers] /\ tasks' \subseteq Tasks
      /\ saved' \subseteq Edits
      /\ SavedEditsStand' /\ HandlersKnow' /\ TasksKnow'
  <2>1. CASE Refused(e)
    BY <2>1, <1>1, <1>2, RefusedStep
  <2>2. CASE \E pc \in Phases :
                /\ Goto(e, pc)
                /\ pc \in {"count", "commit", "recheck"} =>
                      RevisionOf(editors[e].previous) = editors[e].edit.expected
    BY <2>2, <1>1, <1>2, GotoStep
  <2>3. CASE \E n \in Nat :
                /\ Saved(e, n)
                /\ InHistory(editors[e].edit.clip, n, editors[e].edit)
    <3>1. PICK n \in Nat :
             /\ Saved(e, n)
             /\ InHistory(editors[e].edit.clip, n, editors[e].edit)
      BY <2>3
    <3>2. /\ n \in DOMAIN history'[editors[e].edit.clip]
          /\ history'[editors[e].edit.clip][n] = editors[e].edit
      BY <3>1, <1>2 DEF InHistory
    <3> QED
      BY <3>1, <3>2, <1>1, <1>2, SavedStep
  <2> QED
    BY <2>1, <2>2, <2>3
<1>4. TypeOK'
  BY <1>1, <1>2, <1>3 DEF TypeOK, TableTypeOK, LabelsInv
<1> QED
  BY <1>1, <1>3, <1>4 DEF LabelsInv

\* An edit that arrives is given to an idle handler.
LEMMA SubmitStep ==
    ASSUME LabelsInv, NEW e \in Editors, NEW edit \in Edits, Submit(e, edit)
    PROVE  LabelsInv'
<1> DEFINE h == [pc |-> "get", edit |-> edit, previous |-> None]
<1>1. UNCHANGED <<table, tasks, audio, saved, troubles>>
  BY DEF Submit
<1>2. /\ TableTypeOK' /\ HistoryIsComplete' /\ RequestsCountOnce'
      /\ ReadyIsReviewed' /\ Grows
  BY <1>1, SameTable
<1>3. h \in Handlers /\ Knows(h)
  BY DEF Handlers, Knows, Phases
<1>4. editors' \in [Editors -> Handlers] /\ HandlersKnow'
  <2>1. editors' = [editors EXCEPT ![e] = h]
    BY DEF Submit
  <2> HIDE DEF h
  <2> QED
    BY <2>1, <1>2, <1>3, HandlersStay DEF LabelsInv
<1>5. SavedEditsStand' /\ TasksKnow'
  BY <1>1, <1>2, SavedStay, TasksStay DEF LabelsInv, TypeOK
<1>6. submits' \in 0 .. MaxSubmits
  BY LabelsAssumption DEF Submit, LabelsInv, TypeOK
<1>7. TypeOK'
  BY <1>1, <1>2, <1>4, <1>6 DEF TypeOK, TableTypeOK, LabelsInv
<1> QED
  BY <1>2, <1>4, <1>5, <1>7 DEF LabelsInv

\* The head that is read is the newest revision of the history.
LEMMA GetHeadStep ==
    ASSUME LabelsInv, NEW e \in Editors, GetHead(e)
    PROVE  LabelsInv'
<1> DEFINE edit == editors[e].edit
           head == heads[edit.clip]
           h    == [pc |-> "request", edit |-> edit, previous |-> head]
<1>1. UNCHANGED <<table, tasks, audio, saved, submits, troubles>>
  BY DEF GetHead
<1>2. /\ TableTypeOK' /\ HistoryIsComplete' /\ RequestsCountOnce'
      /\ ReadyIsReviewed' /\ Grows
  BY <1>1, SameTable
<1>3. editors[e] \in [pc : Phases, edit : Edits, previous : Rows \cup {None}]
  BY DEF LabelsInv, TypeOK, GetHead, Handlers, Idle
<1>4. edit \in Edits /\ edit.clip \in Clips /\ head \in Rows \cup {None}
  BY <1>3 DEF LabelsInv, TypeOK, Edits
<1>5. head # None =>
         /\ head.revision \in DOMAIN history[edit.clip]
         /\ history[edit.clip][head.revision] = head.edit
         /\ head.effort = head.revision
  <2> SUFFICES ASSUME head # None
               PROVE  /\ head.revision \in DOMAIN history[edit.clip]
                      /\ history[edit.clip][head.revision] = head.edit
                      /\ head.effort = head.revision
    OBVIOUS
  <2>1. /\ DOMAIN history[edit.clip] = 1 .. RevisionOf(head)
        /\ head.revision > 0
        /\ head.edit = history[edit.clip][head.revision]
        /\ head.effort = head.revision
    BY <1>4 DEF LabelsInv, HistoryIsComplete
  <2>2. RevisionOf(head) = head.revision /\ head.revision \in Nat
    BY <1>4 DEF RevisionOf, Rows
  <2> HIDE DEF head
  <2> QED
    BY <2>1, <2>2
<1>6. editors' = [editors EXCEPT ![e] = h]
  BY <1>3 DEF GetHead, LabelsInv, TypeOK
<1> HIDE DEF head, edit
<1>7. h \in Handlers /\ Knows(h)
  BY <1>4, <1>5 DEF Handlers, Knows, InHistory, Phases
<1>8. editors' \in [Editors -> Handlers] /\ HandlersKnow'
  BY <1>2, <1>6, <1>7, HandlersStay DEF LabelsInv
<1>9. SavedEditsStand' /\ TasksKnow'
  BY <1>1, <1>2, SavedStay, TasksStay DEF LabelsInv, TypeOK
<1>10. TypeOK'
  BY <1>1, <1>2, <1>8 DEF TypeOK, TableTypeOK, LabelsInv
<1> QED
  BY <1>2, <1>8, <1>9, <1>10 DEF LabelsInv

\* A receipt, or the head read before it, acknowledges only an edit that is in
\* the history; a handler goes on only with the row that its edit expects.
LEMMA GetReceiptStep ==
    ASSUME LabelsInv, NEW e \in Editors, GetReceipt(e)
    PROVE  LabelsInv'
<1> DEFINE edit     == editors[e].edit
           previous == editors[e].previous
           receipt  == receipts[edit.request]
<1>1. /\ edit \in Edits /\ previous \in Rows \cup {None}
      /\ edit.request \in Requests
  BY HandlerType DEF LabelsInv, GetReceipt, Edits
<1>2. Knows(editors[e])
  BY DEF LabelsInv, HandlersKnow
<1>3. editors[e].pc # "idle" /\ troubles' \in 0 .. MaxTroubles
      /\ UNCHANGED <<table, audio, submits>>
  BY DEF GetReceipt, LabelsInv, TypeOK
<1>4. \/ Refused(e)
      \/ Saved(e, receipt.revision) /\ receipt # None /\ receipt.edit = edit
      \/ Saved(e, previous.revision) /\ previous # None /\ previous.edit = edit
      \/ RevisionOf(previous) = edit.expected /\ Goto(e, "count")
      \/ RevisionOf(previous) = edit.expected /\ Goto(e, "commit")
  BY DEF GetReceipt
<1>5. CASE Saved(e, receipt.revision) /\ receipt # None /\ receipt.edit = edit
  <2>1. InHistory(edit.clip, receipt.revision, edit)
    BY <1>1, <1>5 DEF LabelsInv, RequestsCountOnce, InHistory
  <2>2. receipt.revision \in Nat
    BY <1>1, <1>5 DEF LabelsInv, TypeOK, Receipts
  <2> QED
    BY <1>3, <1>5, <2>1, <2>2, HandlerStep
<1>6. CASE Saved(e, previous.revision) /\ previous # None /\ previous.edit = edit
  <2>1. InHistory(edit.clip, previous.revision, edit)
    BY <1>2, <1>6 DEF Knows
  <2>2. previous.revision \in Nat
    BY <1>1, <1>6 DEF Rows
  <2> QED
    BY <1>3, <1>6, <2>1, <2>2, HandlerStep
<1>7. {"count", "commit", "recheck"} \subseteq Phases
  BY DEF Phases
<1> QED
  BY <1>3, <1>4, <1>5, <1>6, <1>7, HandlerStep

\* The limit and the transaction's refusals keep what the handler knows.
LEMMA RefusalSteps ==
    ASSUME LabelsInv, NEW e \in Editors,
           CountLabels(e) \/ Cancelled(e) \/ Conflicted(e)
    PROVE  LabelsInv'
<1>1. editors[e].pc \in {"count", "commit"} /\ editors[e].pc # "idle"
  BY DEF CountLabels, Cancelled, Conflicted
<1>2. RevisionOf(editors[e].previous) = editors[e].edit.expected
  BY <1>1 DEF LabelsInv, HandlersKnow, Knows
<1>3. UNCHANGED <<table, audio, submits>>
  BY DEF CountLabels, Cancelled, Conflicted
<1>4. troubles' \in 0 .. MaxTroubles
  BY LabelsAssumption DEF CountLabels, Cancelled, Conflicted, LabelsInv, TypeOK
<1>5. \/ Refused(e) \/ Goto(e, "commit") \/ Goto(e, "recheck")
  BY DEF CountLabels, Cancelled, Conflicted
<1>6. {"count", "commit", "recheck"} \subseteq Phases
  BY DEF Phases
<1> QED
  BY <1>1, <1>2, <1>3, <1>4, <1>5, <1>6, HandlerStep

\* After a refused transaction, the head acknowledges only an edit of its own.
LEMMA RecheckStep ==
    ASSUME LabelsInv, NEW e \in Editors, Recheck(e)
    PROVE  LabelsInv'
<1> DEFINE edit == editors[e].edit
           head == heads[edit.clip]
<1>1. editors[e].pc # "idle" /\ troubles' \in 0 .. MaxTroubles
      /\ UNCHANGED <<table, audio, submits>>
  BY DEF Recheck, LabelsInv, TypeOK
<1>2. edit \in Edits /\ edit.clip \in Clips
  BY <1>1, HandlerType DEF LabelsInv, Edits
<1>3. \/ Refused(e)
      \/ Saved(e, head.revision) /\ head # None /\ head.edit = edit
  BY DEF Recheck, IsOwn
<1>4. CASE Saved(e, head.revision) /\ head # None /\ head.edit = edit
  <2>1. head.revision \in Nat
    BY <1>2, <1>4 DEF LabelsInv, TypeOK, Rows
  <2>2. /\ DOMAIN history[edit.clip] = 1 .. head.revision
        /\ head.revision > 0 /\ history[edit.clip][head.revision] = edit
    BY <1>2, <1>4 DEF LabelsInv, HistoryIsComplete, RevisionOf
  <2>3. InHistory(edit.clip, head.revision, edit)
    BY <2>1, <2>2 DEF InHistory
  <2> QED
    BY <1>1, <1>4, <2>1, <2>3, HandlerStep
<1> QED
  BY <1>1, <1>3, <1>4, HandlerStep

\* The transaction, whether its answer arrives or not.
LEMMA CommitSteps ==
    ASSUME LabelsInv, NEW e \in Editors, Commit(e) \/ CommitUnanswered(e)
    PROVE  LabelsInv'
<1> DEFINE edit == editors[e].edit
           row  == NewRow(edit, editors[e].previous)
<1>1. /\ editors[e].pc = "commit" /\ Accepted(edit) /\ Write(edit, row)
      /\ audio' = audio /\ submits' = submits
      /\ Saved(e, row.revision) \/ Refused(e)
  BY DEF Commit, CommitUnanswered
<1>2. troubles' \in 0 .. MaxTroubles
  BY LabelsAssumption DEF Commit, CommitUnanswered, LabelsInv, TypeOK
<1>3. /\ TableTypeOK' /\ HistoryIsComplete' /\ RequestsCountOnce'
      /\ ReadyIsReviewed' /\ Grows
      /\ row.revision \in DOMAIN history'[edit.clip]
      /\ history'[edit.clip][row.revision] = edit
  BY <1>1, CommitEffect
<1>4. row.revision \in Nat /\ editors[e].pc # "idle"
  BY <1>1, CommittedRow DEF Rows
<1>5. /\ editors' \in [Editors -> Handlers] /\ tasks' \subseteq Tasks
      /\ saved' \subseteq Edits
      /\ SavedEditsStand' /\ HandlersKnow' /\ TasksKnow'
  <2>1. CASE Saved(e, row.revision)
    BY <2>1, <1>1, <1>3, <1>4, SavedStep
  <2>2. CASE Refused(e)
    BY <2>2, <1>1, <1>3, RefusedStep
  <2> QED
    BY <1>1, <2>1, <2>2
<1>6. TypeOK'
  BY <1>1, <1>2, <1>3, <1>5 DEF TypeOK, TableTypeOK, LabelsInv
<1> QED
  BY <1>3, <1>5, <1>6 DEF LabelsInv

\* A mark changes neither a revision nor an edit, and only reviewed labels
\* whose audio was copied are marked.
LEMMA MarkReadyEffect ==
    ASSUME LabelsInv, NEW task \in tasks, MarkReady(task)
    PROVE  /\ TableTypeOK' /\ HistoryIsComplete' /\ RequestsCountOnce'
           /\ ReadyIsReviewed' /\ Grows
<1> DEFINE c    == task.clip
           head == heads[c]
           row  == [head EXCEPT !.archived = TRUE]
<1>1. /\ UNCHANGED <<history, receipts, total, audio>>
      /\ heads' = IF IsCurrent(task) THEN [heads EXCEPT ![c].archived = TRUE]
                                     ELSE heads
  BY DEF MarkReady
<1>2. c \in Clips /\ head \in Rows \cup {None}
  BY DEF LabelsInv, TypeOK, Tasks
<1>3. CASE ~IsCurrent(task)
  BY <1>1, <1>3, SameTable DEF table
<1>4. CASE IsCurrent(task)
  <2>1. /\ task.phase = "mark"
        /\ RevisionOf(head) = task.revision
        /\ task.revision \in DOMAIN history[c]
        /\ history[c][task.revision].text \in Reviewed
        /\ c \in audio
    BY <1>4 DEF MarkReady, IsCurrent, LabelsInv, TasksKnow, IsReviewed
  <2>2. head # None
    BY <1>2, <2>1 DEF LabelsInv, HistoryIsComplete, RevisionOf
  <2>3. /\ row \in Rows /\ row.edit = head.edit
        /\ row.revision = head.revision /\ row.effort = head.effort
    BY <1>2, <2>2 DEF Rows
  <2>4. row # None
    BY <2>3, LabelsAssumption
  <2>5. head.edit.text \in Reviewed
    BY <1>2, <2>1, <2>2 DEF LabelsInv, HistoryIsComplete, RevisionOf
  <2>6. heads' = [heads EXCEPT ![c] = row]
    BY <1>1, <1>4
  <2> HIDE DEF row
  <2>7. \A d \in Clips : heads'[d] = IF d = c THEN row ELSE heads[d]
    BY <2>6 DEF LabelsInv, TypeOK
  <2>8. TableTypeOK'
    BY <1>1, <1>2, <2>3, <2>6 DEF LabelsInv, TypeOK, TableTypeOK
  <2>9. HistoryIsComplete'
    <3>1. \A d \in Clips :
             /\ heads'[d] = None <=> heads[d] = None
             /\ heads[d] # None =>
                   /\ heads'[d].edit = heads[d].edit
                   /\ heads'[d].revision = heads[d].revision
                   /\ heads'[d].effort = heads[d].effort
      BY <2>2, <2>3, <2>4, <2>7
    <3>2. history' = history
      BY <1>1
    <3> QED
      BY <3>1, <3>2 DEF LabelsInv, HistoryIsComplete, RevisionOf
  <2>10. RequestsCountOnce'
    BY <1>1 DEF LabelsInv, RequestsCountOnce
  <2>11. ReadyIsReviewed'
    BY <1>1, <2>1, <2>3, <2>5, <2>7 DEF LabelsInv, ReadyIsReviewed
  <2>12. Grows
    BY <1>1 DEF Grows
  <2> QED
    BY <2>8, <2>9, <2>10, <2>11, <2>12
<1> QED
  BY <1>3, <1>4

\* The archive's steps.
LEMMA ArchiveStep ==
    ASSUME LabelsInv, NEW task \in tasks, Archive(task)
    PROVE  LabelsInv'
<1>1. /\ task \in Tasks /\ task.clip \in Clips
      /\ task.revision \in DOMAIN history[task.clip]
      /\ history[task.clip][task.revision].text \in Reviewed
  BY DEF LabelsInv, TypeOK, Tasks, TasksKnow, IsReviewed
<1>2. /\ UNCHANGED <<editors, saved, submits, troubles>>
      /\ audio \subseteq audio' /\ audio' \subseteq Clips
  BY <1>1 DEF Archive, Measure, CopyAudio, MarkReady, AbandonArchive, LabelsInv, TypeOK
<1>3. /\ TableTypeOK' /\ HistoryIsComplete' /\ RequestsCountOnce'
      /\ ReadyIsReviewed' /\ Grows
  <2>1. CASE MarkReady(task)
    BY <2>1, MarkReadyEffect
  <2>2. CASE ~MarkReady(task)
    <3>1. UNCHANGED table
      BY <2>2 DEF Archive, Measure, CopyAudio, AbandonArchive
    <3> QED
      BY <3>1, <1>2, SameTable
  <2> QED
    BY <2>1, <2>2
<1>4. history' = history
  BY DEF Archive, Measure, CopyAudio, MarkReady, AbandonArchive, table
<1>5. \A t \in tasks' : t \in tasks \/
         /\ t \in Tasks /\ t.clip = task.clip /\ t.revision = task.revision
         /\ t.phase = "mark" => task.clip \in audio'
  BY <1>1 DEF Archive, Measure, CopyAudio, MarkReady, AbandonArchive, Moved, Tasks
<1>6. tasks' \subseteq Tasks
  BY <1>5 DEF LabelsInv, TypeOK
<1>7. TasksKnow'
  <2>1. \A t \in tasks' : t \in tasks \/
           /\ t.revision \in DOMAIN history'[t.clip]
           /\ history'[t.clip][t.revision].text \in Reviewed
           /\ t.phase = "mark" => t.clip \in audio'
    BY <1>1, <1>4, <1>5
  <2> QED
    BY <1>2, <1>3, <2>1, TasksStay DEF LabelsInv
<1>8. SavedEditsStand'
  BY <1>2, <1>3, SavedStay DEF LabelsInv, TypeOK
<1>9. HandlersKnow'
  BY <1>2, <1>4 DEF LabelsInv, HandlersKnow, Knows, InHistory, RevisionOf
<1>10. TypeOK'
  BY <1>2, <1>3, <1>6 DEF LabelsInv, TypeOK, TableTypeOK
<1> QED
  BY <1>3, <1>7, <1>8, <1>9, <1>10 DEF LabelsInv

\* A restart forgets handlers and tasks, and nothing else.
LEMMA RestartStep ==
    ASSUME LabelsInv, Restart
    PROVE  LabelsInv'
<1>1. /\ UNCHANGED <<table, audio, saved, submits>>
      /\ editors' = [e \in Editors |-> Idle] /\ tasks' = {}
  BY DEF Restart
<1>2. /\ TableTypeOK' /\ HistoryIsComplete' /\ RequestsCountOnce'
      /\ ReadyIsReviewed' /\ Grows
  BY <1>1, SameTable
<1>3. SavedEditsStand'
  BY <1>1, <1>2, SavedStay DEF LabelsInv, TypeOK
<1>4. HandlersKnow' /\ editors' \in [Editors -> Handlers]
  BY <1>1 DEF HandlersKnow, Knows, Idle, Handlers
<1>5. TasksKnow'
  BY <1>1 DEF TasksKnow
<1>6. troubles' \in 0 .. MaxTroubles
  BY LabelsAssumption DEF Restart, LabelsInv, TypeOK
<1>7. TypeOK'
  BY <1>1, <1>2, <1>4, <1>6 DEF LabelsInv, TypeOK, TableTypeOK
<1> QED
  BY <1>2, <1>3, <1>4, <1>5, <1>7 DEF LabelsInv

-----------------------------------------------------------------------------
(* The theorems.                                                           *)

LEMMA LabelsInit == Init => LabelsInv
<1> SUFFICES ASSUME Init
             PROVE  LabelsInv
  OBVIOUS
<1>1. TypeOK
  BY LabelsAssumption DEF Init, TypeOK, Handlers
<1>2. HistoryIsComplete
  BY DEF Init, HistoryIsComplete, RevisionOf
<1>3. RequestsCountOnce
  <2>1. {q \in Requests : receipts[q] # None} = {}
    BY DEF Init
  <2>2. \A c \in Clips : DOMAIN history[c] = {}
    BY DEF Init
  <2> QED
    BY <2>1, <2>2, FS_EmptySet DEF Init, RequestsCountOnce
<1>4. ReadyIsReviewed
  BY DEF Init, ReadyIsReviewed
<1>5. SavedEditsStand /\ TasksKnow
  BY DEF Init, SavedEditsStand, TasksKnow
<1>6. HandlersKnow
  BY DEF Init, HandlersKnow, Knows, Idle
<1> QED
  BY <1>1, <1>2, <1>3, <1>4, <1>5, <1>6 DEF LabelsInv

LEMMA LabelsNext == LabelsInv /\ [Next]_vars => LabelsInv'
<1> SUFFICES ASSUME LabelsInv, [Next]_vars
             PROVE  LabelsInv'
  OBVIOUS
<1>1. ASSUME NEW e \in Editors, NEW edit \in Edits, Submit(e, edit)
      PROVE  LabelsInv'
  BY <1>1, SubmitStep
<1>2. ASSUME NEW e \in Editors, Step(e)
      PROVE  LabelsInv'
  BY <1>2, GetHeadStep, GetReceiptStep, RefusalSteps, RecheckStep, CommitSteps
     DEF Step
<1>3. ASSUME NEW task \in tasks, Archive(task)
      PROVE  LabelsInv'
  BY <1>3, ArchiveStep
<1>4. CASE Restart
  BY <1>4, RestartStep
<1>5. CASE UNCHANGED vars
  <2>1. TypeOK' /\ HistoryIsComplete' /\ RequestsCountOnce'
    BY <1>5 DEF vars, table, LabelsInv, TypeOK, HistoryIsComplete, RequestsCountOnce,
                RevisionOf, InHistory
  <2>2. ReadyIsReviewed' /\ SavedEditsStand'
    BY <1>5 DEF vars, table, LabelsInv, ReadyIsReviewed, SavedEditsStand, IsReviewed,
                RevisionOf, InHistory
  <2>3. HandlersKnow' /\ TasksKnow'
    BY <1>5 DEF vars, table, LabelsInv, HandlersKnow, Knows, InHistory, RevisionOf,
                TasksKnow, IsReviewed
  <2> QED
    BY <2>1, <2>2, <2>3 DEF LabelsInv
<1> QED
  BY <1>1, <1>2, <1>3, <1>4, <1>5 DEF Next, Work

\* Whatever the interleaving of handlers, tasks, lost answers, conflicts and
\* restarts of the API, the table is consistent and handlers and tasks know
\* what they act upon.
THEOREM LabelsInvariant == Spec => []LabelsInv
BY LabelsInit, LabelsNext, PTL DEF Spec

\* A clip's head, its history and its accumulated effort agree.
THEOREM CompleteHistory == Spec => []HistoryIsComplete
<1>1. LabelsInv => HistoryIsComplete
  BY DEF LabelsInv
<1> QED
  BY <1>1, LabelsInvariant, PTL

\* A request is applied at most once, whatever is retried.
THEOREM CountedOnce == Spec => []RequestsCountOnce
<1>1. LabelsInv => RequestsCountOnce
  BY DEF LabelsInv
<1> QED
  BY <1>1, LabelsInvariant, PTL

\* An acknowledged edit is never lost.
THEOREM EditsStand == Spec => []SavedEditsStand
<1>1. LabelsInv => SavedEditsStand
  BY DEF LabelsInv
<1> QED
  BY <1>1, LabelsInvariant, PTL

\* No label counts as ready on account of an earlier revision's review.
THEOREM ReviewedWhenReady == Spec => []ReadyIsReviewed
<1>1. LabelsInv => ReadyIsReviewed
  BY DEF LabelsInv
<1> QED
  BY <1>1, LabelsInvariant, PTL

-----------------------------------------------------------------------------
(* The store implements the log of edits.                                  *)

\* A history is the sequence of its edits, and its length the head's revision.
LEMMA HistoryIsSequence ==
    ASSUME LabelsInv, NEW c \in Clips
    PROVE  /\ history[c] \in Seq(Edits)
           /\ Len(history[c]) = RevisionOf(heads[c])
<1>1. RevisionOf(heads[c]) \in Nat
  BY RevisionType DEF LabelsInv, TypeOK
<1>2. history[c] \in [1 .. RevisionOf(heads[c]) -> Edits]
  BY DEF LabelsInv, TypeOK, HistoryIsComplete
<1>3. history[c] \in Seq(Edits)
  BY <1>1, <1>2
<1> QED
  BY <1>1, <1>2, <1>3, LenProperties

\* A transaction appends its edit to the log.
LEMMA WriteAppends ==
    ASSUME LabelsInv, NEW edit \in Edits, NEW row, row.revision = edit.expected + 1,
           Accepted(edit), Write(edit, row)
    PROVE  Log!Save(edit)
<1> DEFINE c == edit.clip
           n == edit.expected
           s == history[c]
<1>1. /\ c \in Clips /\ edit.request \in Requests /\ n \in Nat
      /\ RevisionOf(heads[c]) = n /\ DOMAIN s = 1 .. n
      /\ receipts[edit.request] = None
  BY AcceptedEdit DEF LabelsInv
<1>2. s \in Seq(Edits) /\ Len(s) = n
  BY <1>1, HistoryIsSequence
<1>3. history' = [history EXCEPT ![c] = Extended(s, n + 1, edit)]
  BY DEF Write
<1>4. Extended(s, n + 1, edit) = Append(s, edit)
  <2> DEFINE t == Extended(s, n + 1, edit)
  <2>1. t = [k \in 1 .. n + 1 |-> IF k = n + 1 THEN edit ELSE s[k]]
    BY <1>1 DEF Extended
  <2>2. \A k \in 1 .. n : s[k] \in Edits
    BY <1>2, LenProperties
  <2> HIDE DEF t, n, s
  <2>3. t \in [1 .. n + 1 -> Edits]
    BY <2>1, <2>2, <1>1
  <2>4. t \in Seq(Edits)
    BY <2>3, <1>1
  <2>5. Len(t) = n + 1
    BY <2>3, <2>4, <1>1, LenProperties
  <2>6. /\ Append(s, edit) \in Seq(Edits) /\ Len(Append(s, edit)) = n + 1
        /\ \A k \in 1 .. n : Append(s, edit)[k] = s[k]
        /\ Append(s, edit)[n + 1] = edit
    BY <1>2, AppendProperties
  <2>7. \A k \in 1 .. n + 1 : t[k] = Append(s, edit)[k]
    BY <2>1, <2>6, <1>1
  <2>8. t = Append(s, edit)
    BY <2>4, <2>5, <2>6, <2>7, SeqEqual
  <2> QED
    BY <2>8 DEF t, n, s
<1>5. Log!Fresh(edit.request)
  <2> SUFFICES ASSUME NEW d \in Clips, NEW i \in 1 .. Len(history[d])
               PROVE  history[d][i].request # edit.request
    BY DEF Log!Fresh
  <2>1. history[d] \in Seq(Edits)
    BY HistoryIsSequence
  <2>2. i \in DOMAIN history[d] /\ i \in Nat /\ history[d][i] \in Edits
    BY <2>1, LenProperties
  <2>3. receipts[history[d][i].request]
          = [edit |-> history[d][i], revision |-> i]
    BY <2>2 DEF LabelsInv, RequestsCountOnce
  <2>4. [edit |-> history[d][i], revision |-> i] \in Receipts
    BY <2>2 DEF Receipts
  <2> QED
    BY <2>3, <2>4, <1>1, LabelsAssumption
<1> QED
  BY <1>1, <1>2, <1>3, <1>4, <1>5 DEF Log!Save

\* An edit of the history is logged.
LEMMA HistoryLogged ==
    ASSUME LabelsInv, NEW edit \in Edits, NEW r, InHistory(edit.clip, r, edit)
    PROVE  Log!Logged(edit)
<1>1. edit.clip \in Clips
  BY DEF Edits
<1>2. DOMAIN history[edit.clip] = 1 .. Len(history[edit.clip])
  BY <1>1, HistoryIsSequence, LenProperties
<1> QED
  BY <1>2 DEF InHistory, Log!Logged

LEMMA LogInit == Init => Log!Init
BY DEF Init, Log!Init

\* An answer acknowledges an edit of the history and changes no history.
LEMMA AnswerLogs ==
    ASSUME LabelsInv, NEW e \in Editors, editors[e].pc # "idle",
           UNCHANGED history, NEW r,
           Saved(e, r), InHistory(editors[e].edit.clip, r, editors[e].edit)
    PROVE  Log!Next
<1>1. editors[e].edit \in Edits
  BY HandlerType DEF LabelsInv
<1>2. Log!Logged(editors[e].edit)
  BY <1>1, HistoryLogged
<1> QED
  BY <1>1, <1>2 DEF Log!Next, Saved

\* Every step is a step of the log, or changes neither the log nor what was
\* acknowledged.
LEMMA LogNext == LabelsInv /\ [Next]_vars => [Log!Next]_<<history, saved>>
<1> SUFFICES ASSUME LabelsInv, [Next]_vars
             PROVE  Log!Next \/ UNCHANGED <<history, saved>>
  OBVIOUS
<1>1. ASSUME NEW e \in Editors, Commit(e) \/ CommitUnanswered(e)
      PROVE  Log!Next
  <2> DEFINE edit == editors[e].edit
             row  == NewRow(edit, editors[e].previous)
  <2>1. /\ edit \in Edits /\ editors[e].pc = "commit"
        /\ Accepted(edit) /\ Write(edit, row)
        /\ Saved(e, row.revision) \/ Refused(e)
    BY <1>1, HandlerType DEF LabelsInv, Commit, CommitUnanswered
  <2>2. row.revision = edit.expected + 1
    BY DEF NewRow
  <2>3. Log!Save(edit)
    BY <2>1, <2>2, WriteAppends
  <2>4. saved' \in {saved, saved \cup {edit}}
    BY <2>1 DEF Saved, Refused
  <2> QED
    BY <2>1, <2>3, <2>4 DEF Log!Next
<1>2. ASSUME NEW e \in Editors, GetReceipt(e)
      PROVE  Log!Next \/ UNCHANGED <<history, saved>>
  <2> DEFINE edit     == editors[e].edit
             previous == editors[e].previous
             receipt  == receipts[edit.request]
  <2>1. /\ edit.request \in Requests
        /\ editors[e].pc # "idle" /\ history' = history
    BY <1>2, HandlerType DEF LabelsInv, GetReceipt, Edits, table
  <2>2. \/ saved' = saved
        \/ Saved(e, receipt.revision) /\ receipt # None /\ receipt.edit = edit
        \/ Saved(e, previous.revision) /\ previous # None /\ previous.edit = edit
    BY <1>2 DEF GetReceipt, Refused, Goto
  <2>3. CASE Saved(e, receipt.revision) /\ receipt # None /\ receipt.edit = edit
    <3>1. InHistory(edit.clip, receipt.revision, edit)
      BY <2>1, <2>3 DEF LabelsInv, RequestsCountOnce, InHistory
    <3> QED
      BY <2>1, <2>3, <3>1, AnswerLogs
  <2>4. CASE Saved(e, previous.revision) /\ previous # None /\ previous.edit = edit
    <3>1. InHistory(edit.clip, previous.revision, edit)
      BY <2>4 DEF LabelsInv, HandlersKnow, Knows
    <3> QED
      BY <2>1, <2>4, <3>1, AnswerLogs
  <2> QED
    BY <2>1, <2>2, <2>3, <2>4
<1>3. ASSUME NEW e \in Editors, Recheck(e)
      PROVE  Log!Next \/ UNCHANGED <<history, saved>>
  <2> DEFINE edit == editors[e].edit
             head == heads[edit.clip]
  <2>1. /\ edit.clip \in Clips /\ editors[e].pc # "idle" /\ history' = history
    BY <1>3, HandlerType DEF LabelsInv, Recheck, Edits, table
  <2>2. \/ saved' = saved
        \/ Saved(e, head.revision) /\ head # None /\ head.edit = edit
    BY <1>3 DEF Recheck, Refused, IsOwn
  <2>3. CASE Saved(e, head.revision) /\ head # None /\ head.edit = edit
    <3>1. head.revision \in Nat
      BY <2>1, <2>3 DEF LabelsInv, TypeOK, Rows
    <3>2. /\ DOMAIN history[edit.clip] = 1 .. head.revision
          /\ head.revision > 0 /\ history[edit.clip][head.revision] = edit
      BY <2>1, <2>3 DEF LabelsInv, HistoryIsComplete, RevisionOf
    <3>3. InHistory(edit.clip, head.revision, edit)
      BY <3>1, <3>2 DEF InHistory
    <3> QED
      BY <2>1, <2>3, <3>3, AnswerLogs
  <2> QED
    BY <2>1, <2>2, <2>3
<1>4. ASSUME NEW e \in Editors,
             \/ GetHead(e) \/ CountLabels(e) \/ Cancelled(e) \/ Conflicted(e)
             \/ \E edit \in Edits : Submit(e, edit)
      PROVE  UNCHANGED <<history, saved>>
  BY <1>4 DEF GetHead, CountLabels, Cancelled, Conflicted, Submit, Goto, Refused,
     table
<1>5. ASSUME NEW task \in tasks, Archive(task)
      PROVE  UNCHANGED <<history, saved>>
  BY <1>5 DEF Archive, Measure, CopyAudio, MarkReady, AbandonArchive, table
<1>6. CASE Restart \/ UNCHANGED vars
  BY <1>6 DEF Restart, vars, table
<1> QED
  BY <1>1, <1>2, <1>3, <1>4, <1>5, <1>6 DEF Next, Work, Step

\* Corrections.save and DynamoCorrections.commit implement the log that editors
\* rely on: edits in order, each on what its editor saw, each request once,
\* and nothing acknowledged that is not there.
THEOREM Implementation == Spec => ImplementsLog
<1>1. Spec => Log!Init /\ [][Log!Next]_<<history, saved>>
  BY LogInit, LogNext, LabelsInvariant, PTL DEF Spec
<1> QED
  BY <1>1 DEF ImplementsLog, Log!Spec

-----------------------------------------------------------------------------
(* PART TWO: the search over corrections (CorrectionSearch).               *)

\* The table moves in one of two ways: its labels stay, with the revision of the
\* inventory, or both move on.
Stays == total' = total /\ Current' = Current

MovesOn == total' = total + 1 /\ AtLeast(Current', Current)

-----------------------------------------------------------------------------
(* What edits and archive tasks do to what searches read.                  *)

LEMMA CurrentType ==
    ASSUME TypeOK
    PROVE  Current \in Labels /\ \A c \in Clips : Current[c] = RevisionOf(heads[c])
<1>1. \A c \in Clips : RevisionOf(heads[c]) \in Nat
  BY RevisionType DEF TypeOK
<1> QED
  BY <1>1 DEF Current, Labels

\* A transaction makes its clip's label newer and leaves the others alone.
LEMMA CommitMovesOn ==
    ASSUME LabelsInv, NEW e \in Editors, Commit(e) \/ CommitUnanswered(e)
    PROVE  MovesOn
<1> DEFINE edit == editors[e].edit
           row  == NewRow(edit, editors[e].previous)
<1>1. editors[e].pc = "commit" /\ Accepted(edit) /\ Write(edit, row)
  BY DEF Commit, CommitUnanswered
<1>2. edit \in Edits
  BY <1>1, HandlerType DEF LabelsInv
<1>3. /\ edit.clip \in Clips /\ edit.expected \in Nat
      /\ RevisionOf(heads[edit.clip]) = edit.expected
  BY <1>1, <1>2, AcceptedEdit DEF LabelsInv
<1>4. row \in Rows /\ row # None /\ row.revision = edit.expected + 1
  BY <1>1, CommittedRow
<1>5. heads' = [heads EXCEPT ![edit.clip] = row] /\ total' = total + 1
  BY <1>1 DEF Write
<1> HIDE DEF edit, row
<1>6. ASSUME NEW c \in Clips
      PROVE  Current'[c] >= Current[c]
  <2>1. heads'[c] = IF c = edit.clip THEN row ELSE heads[c]
    BY <1>5 DEF LabelsInv, TypeOK
  <2>2. RevisionOf(heads[c]) \in Nat
    BY RevisionType DEF LabelsInv, TypeOK
  <2>3. RevisionOf(row) = edit.expected + 1
    BY <1>4 DEF RevisionOf
  <2>4. RevisionOf(heads'[c]) >= RevisionOf(heads[c])
    BY <1>3, <2>1, <2>2, <2>3
  <2> QED
    BY <2>4 DEF Current
<1> QED
  BY <1>5, <1>6 DEF MovesOn, AtLeast

\* A mark is no edit.
LEMMA MarkStays ==
    ASSUME LabelsInv, NEW task \in tasks, MarkReady(task)
    PROVE  Stays
<1> DEFINE c == task.clip
<1>1. /\ total' = total
      /\ heads' = IF IsCurrent(task) THEN [heads EXCEPT ![c].archived = TRUE]
                                     ELSE heads
  BY DEF MarkReady
<1>2. c \in Clips /\ heads \in [Clips -> Rows \cup {None}]
  BY DEF LabelsInv, TypeOK, Tasks
<1>3. CASE ~IsCurrent(task)
  BY <1>1, <1>3 DEF Stays, Current
<1>4. CASE IsCurrent(task)
  <2>1. task.revision \in DOMAIN history[c] /\ RevisionOf(heads[c]) = task.revision
    BY <1>4 DEF LabelsInv, TasksKnow, IsReviewed, IsCurrent
  <2>2. heads[c] # None
    BY <1>2, <2>1 DEF LabelsInv, HistoryIsComplete, RevisionOf
  <2>3. heads[c] \in Rows
    BY <1>2, <2>2
  <2>4. PICK row : row = [heads[c] EXCEPT !.archived = TRUE]
    OBVIOUS
  <2>5. row \in Rows /\ row.revision = heads[c].revision
    BY <2>3, <2>4 DEF Rows
  <2>6. row # None
    BY <2>5, LabelsAssumption
  <2>7. heads' = [heads EXCEPT ![c] = row]
    BY <1>1, <1>4, <2>4
  <2>8. \A d \in Clips : RevisionOf(heads'[d]) = RevisionOf(heads[d])
    BY <1>2, <2>2, <2>5, <2>6, <2>7 DEF RevisionOf
  <2> QED
    BY <1>1, <2>8 DEF Stays, Current
<1> QED
  BY <1>3, <1>4

LEMMA WorkMoves ==
    ASSUME LabelsInv, Work
    PROVE  Stays \/ MovesOn
<1>1. UNCHANGED table => Stays
  BY DEF table, Stays, Current
<1>2. ASSUME NEW e \in Editors, NEW edit \in Edits, Submit(e, edit)
      PROVE  UNCHANGED table
  BY <1>2 DEF Submit
<1>3. ASSUME NEW e \in Editors, Step(e)
      PROVE  UNCHANGED table \/ MovesOn
  <2>1. CASE Commit(e) \/ CommitUnanswered(e)
    BY <2>1, CommitMovesOn
  <2>2. CASE GetHead(e) \/ GetReceipt(e) \/ CountLabels(e)
    BY <2>2 DEF GetHead, GetReceipt, CountLabels
  <2>3. CASE Cancelled(e) \/ Conflicted(e) \/ Recheck(e)
    BY <2>3 DEF Cancelled, Conflicted, Recheck
  <2> QED
    BY <1>3, <2>1, <2>2, <2>3 DEF Step
<1>4. ASSUME NEW task \in tasks, Archive(task)
      PROVE  UNCHANGED table \/ Stays
  <2>1. CASE MarkReady(task)
    BY <2>1, MarkStays
  <2>2. CASE Measure(task) \/ CopyAudio(task) \/ AbandonArchive(task)
    BY <2>2 DEF Measure, CopyAudio, AbandonArchive
  <2> QED
    BY <1>4, <2>1, <2>2 DEF Archive
<1> QED
  BY <1>1, <1>2, <1>3, <1>4 DEF Work

-----------------------------------------------------------------------------
(* The invariant stays true.                                               *)

\* What is said of searches and cache, without the labels.
SearchShapes ==
    /\ cache # None => cache \in [revision : Nat, labels : Labels]
    /\ lock \in Searchers \cup {None}
    /\ searchers \in [Searchers -> Searches]
    /\ \A s \in Searchers : searchers[s].pc = "load" <=> lock = s
    /\ searches \in 0 .. MaxSearches

Known ==
    /\ CacheIsPast
    /\ \A s \in Searchers : BeganWith(searchers[s]) /\ Serves(cache, searchers[s])
    /\ \A s, t \in Searchers : BeganAlike(searchers[s], searchers[t])

LEMMA SearchParts == SearchInv <=> LabelsInv /\ SearchShapes /\ Known
BY DEF SearchInv, SearchTypeOK, SearchShapes, Known, LabelsInv

\* What searches share does not depend on the table.
LEMMA SameSearches ==
    ASSUME Known, UNCHANGED <<cache, searchers>>
    PROVE  /\ \A s \in Searchers : Serves(cache, searchers[s])'
           /\ \A s, t \in Searchers : BeganAlike(searchers[s], searchers[t])'
<1>1. ASSUME NEW s \in Searchers
      PROVE  Serves(cache, searchers[s])'
  <2>1. Serves(cache, searchers[s])
    BY DEF Known
  <2> QED
    BY <2>1 DEF Serves, InHand, AtLeast
<1>2. ASSUME NEW s \in Searchers, NEW t \in Searchers
      PROVE  BeganAlike(searchers[s], searchers[t])'
  <2>1. BeganAlike(searchers[s], searchers[t])
    BY DEF Known
  <2> QED
    BY <2>1 DEF BeganAlike, InHand
<1> QED
  BY <1>1, <1>2

\* Edits and archive tasks: no search and no cache is of the revision that a
\* transaction makes.
LEMMA WorkKeeps ==
    ASSUME SearchInv, Work, UNCHANGED search
    PROVE  SearchShapes' /\ Known'
<1>1. UNCHANGED <<cache, lock, searchers, searches>>
  BY DEF search
<1>2. LabelsInv /\ SearchShapes /\ Known
  BY SearchParts
<1>3. SearchShapes'
  BY <1>1, <1>2 DEF SearchShapes
<1>4. Stays \/ MovesOn
  BY <1>2, WorkMoves
<1>5. CASE Stays
  <2>1. CacheIsPast'
    BY <1>1, <1>2, <1>5 DEF Stays, Known, CacheIsPast, AtLeast
  <2>2. ASSUME NEW s \in Searchers
        PROVE  BeganWith(searchers[s])'
    BY <1>1, <1>2, <1>5 DEF Stays, Known, BeganWith, InHand, AtLeast
  <2> QED
    BY <1>1, <1>2, <1>3, <2>1, <2>2, SameSearches DEF Known
<1>6. CASE MovesOn
  <2>1. total \in Nat /\ Current \in Labels
    BY <1>2, CurrentType DEF LabelsInv, TypeOK
  <2>2. LabelsInv'
    <3>1. Next
      BY DEF Next
    <3> QED
      BY <1>2, <3>1, LabelsNext
  <2>3. Current' \in Labels
    <3>1. \A c \in Clips : RevisionOf(heads'[c]) \in Nat
      BY <2>2, RevisionType DEF LabelsInv, TypeOK
    <3> QED
      BY <3>1 DEF Current, Labels
  <2>4. total' = total + 1 /\ \A c \in Clips : Current'[c] >= Current[c]
    BY <1>6 DEF MovesOn, AtLeast
  <2>5. CacheIsPast'
    <3> SUFFICES ASSUME cache # None
                 PROVE  cache.revision <= total' /\ cache.revision # total'
      BY <1>1 DEF CacheIsPast
    <3>1. cache.revision \in Nat /\ cache.revision <= total
      BY <1>2 DEF SearchShapes, Known, CacheIsPast
    <3> QED
      BY <2>1, <2>4, <3>1
  <2>6. ASSUME NEW s \in Searchers
        PROVE  BeganWith(searchers[s])'
    <3> SUFFICES ASSUME InHand(searchers[s])
                 PROVE  BeganWith(searchers[s])'
      BY <1>1 DEF BeganWith, InHand
    <3> DEFINE x == searchers[s]
    <3>1. x.revision \in Nat /\ x.since \in Labels
      BY <1>2 DEF SearchShapes, Searches
    <3>2. /\ x.revision <= total /\ AtLeast(Current, x.since)
          /\ x.pc = "load" => \A c \in Clips \ x.left : x.labels[c] >= x.since[c]
          /\ x.pc = "found" => AtLeast(x.labels, x.since)
      BY <1>2 DEF Known, BeganWith
    <3>3. x.revision <= total' /\ x.revision # total'
      BY <2>1, <2>4, <3>1, <3>2
    <3>4. \A c \in Clips : Current'[c] >= x.since[c]
      <4> TAKE c \in Clips
      <4>1. Current[c] \in Nat /\ Current'[c] \in Nat /\ x.since[c] \in Nat
        BY <2>1, <2>3, <3>1 DEF Labels
      <4>2. Current[c] >= x.since[c] /\ Current'[c] >= Current[c]
        BY <2>4, <3>2 DEF AtLeast
      <4> QED
        BY <4>1, <4>2
    <3>5. searchers' = searchers
      BY <1>1
    <3> QED
      BY <3>2, <3>3, <3>4, <3>5 DEF BeganWith, AtLeast
  <2> QED
    BY <1>1, <1>2, <1>3, <2>5, <2>6, SameSearches DEF Known
<1> QED
  BY <1>3, <1>4, <1>5, <1>6

\* A step of one search, beside which the table stays.
LEMMA OneSearch ==
    ASSUME SearchInv, UNCHANGED vars, NEW s \in Searchers, NEW x \in Searches,
           searchers' = [searchers EXCEPT ![s] = x],
           CacheIsPast',
           BeganWith(x),
           \A t \in Searchers : t # s => BeganAlike(x, searchers[t]),
           Serves(cache', x),
           \A t \in Searchers : t # s => Serves(cache', searchers[t])
    PROVE  /\ Known'
           /\ searchers' \in [Searchers -> Searches]
           /\ \A t \in Searchers :
                 searchers'[t] = IF t = s THEN x ELSE searchers[t]
<1>1. SearchShapes /\ Known
  BY SearchParts
<1>2. searchers' \in [Searchers -> Searches]
  BY <1>1 DEF SearchShapes
<1>3. \A t \in Searchers : searchers'[t] = IF t = s THEN x ELSE searchers[t]
  BY <1>1 DEF SearchShapes
<1>4. UNCHANGED <<total, heads>>
  BY DEF vars, table
<1>5. ASSUME NEW t \in Searchers
      PROVE  BeganWith(searchers[t])'
  <2>1. PICK y : y = searchers'[t]
    OBVIOUS
  <2>2. BeganWith(y)
    BY <1>1, <1>3, <2>1 DEF Known
  <2>3. BeganWith(y)'
    BY <1>4, <2>2 DEF BeganWith, Current
  <2> QED
    BY <2>1, <2>3 DEF BeganWith, InHand
<1>6. ASSUME NEW t \in Searchers
      PROVE  Serves(cache, searchers[t])'
  <2>1. Serves(cache', searchers'[t])
    BY <1>1, <1>3 DEF Known
  <2> QED
    BY <2>1 DEF Serves, InHand, AtLeast
<1>7. ASSUME NEW t \in Searchers, NEW u \in Searchers
      PROVE  BeganAlike(searchers[t], searchers[u])'
  <2>1. BeganAlike(searchers'[t], searchers'[u])
    BY <1>1, <1>3 DEF Known, BeganAlike
  <2> QED
    BY <2>1 DEF BeganAlike, InHand
<1> QED
  BY <1>2, <1>3, <1>5, <1>6, <1>7 DEF Known

\* A search is in one of its states, with the labels that belong to them.
LEMMA SearchType ==
    ASSUME SearchInv, NEW s \in Searchers
    PROVE  /\ searchers[s] \in Searches
           /\ BeganWith(searchers[s]) /\ Serves(cache, searchers[s])
           /\ \A t \in Searchers : /\ BeganAlike(searchers[s], searchers[t])
                                   /\ Serves(cache, searchers[t])
           /\ CacheIsPast
BY DEF SearchInv, SearchTypeOK

\* A search that ends, or that has not begun, claims nothing.
LEMMA NothingInHand ==
    /\ NoSearch \in Searches /\ ~InHand(NoSearch) /\ BeganWith(NoSearch)
    /\ \A x : BeganAlike(NoSearch, x) /\ Serves(x, NoSearch)
<1>1. Nothing \in Labels
  BY DEF Nothing, Labels
<1>2. NoSearch \in Searches
  BY <1>1 DEF NoSearch, Searches
<1>3. ~InHand(NoSearch)
  BY DEF NoSearch, InHand
<1> QED
  BY <1>2, <1>3 DEF BeganWith, BeganAlike, Serves

LEMMA BeginStep ==
    ASSUME SearchInv, NEW s \in Searchers, Begin(s)
    PROVE  SearchShapes' /\ Known'
<1> DEFINE x == [NoSearch EXCEPT !.pc = "lock", !.revision = total, !.since = Current]
<1>1. /\ searchers' = [searchers EXCEPT ![s] = x]
      /\ searchers[s].pc = "idle"
      /\ UNCHANGED vars /\ UNCHANGED <<cache, lock>>
      /\ searches' = searches + 1 /\ searches < MaxSearches
  BY DEF Begin
<1>2. total \in Nat /\ Current \in Labels
  BY CurrentType DEF SearchInv, LabelsInv, TypeOK
<1>3. /\ x \in Searches /\ x.pc = "lock" /\ x.revision = total
      /\ x.since = Current
  BY <1>2, NothingInHand DEF NoSearch, Searches
<1> HIDE DEF x
<1>4. BeganWith(x)
  BY <1>2, <1>3 DEF BeganWith, AtLeast, Labels
<1>5. \A t \in Searchers : BeganAlike(x, searchers[t])
  BY <1>3, SearchType DEF BeganAlike, BeganWith, InHand
<1>6. Serves(cache, x) /\ CacheIsPast /\ CacheIsPast'
  BY <1>1, <1>3, SearchType DEF Serves, CacheIsPast, vars, table, Current, AtLeast
<1>7. /\ Known'
      /\ searchers' \in [Searchers -> Searches]
      /\ \A t \in Searchers : searchers'[t] = IF t = s THEN x ELSE searchers[t]
  BY <1>1, <1>3, <1>4, <1>5, <1>6, SearchType, OneSearch
<1>8. SearchShapes'
  BY <1>1, <1>3, <1>7, SearchersAssumption DEF SearchInv, SearchTypeOK, SearchShapes
<1> QED
  BY <1>7, <1>8

LEMMA UseCacheStep ==
    ASSUME SearchInv, NEW s \in Searchers, UseCache(s)
    PROVE  SearchShapes' /\ Known'
<1> DEFINE old == searchers[s]
           x   == [[old EXCEPT !.pc = "found"] EXCEPT !.labels = cache.labels]
<1>1. /\ old.pc = "lock" /\ UNCHANGED vars /\ UNCHANGED <<cache, lock, searches>>
      /\ cache # None /\ cache.revision = old.revision
  BY DEF UseCache, Cached
<1>2. old \in Searches /\ cache.labels \in Labels
  BY <1>1, SearchType DEF SearchInv, SearchTypeOK
<1>3. searchers' = [searchers EXCEPT ![s] = x]
  BY DEF UseCache, SearchInv, SearchTypeOK
<1>4. /\ x \in Searches /\ x.pc = "found" /\ x.revision = old.revision
      /\ x.labels = cache.labels /\ x.since = old.since
  BY <1>2 DEF Searches
<1> HIDE DEF x
<1>5. BeganWith(x)
  BY <1>1, <1>4, SearchType DEF BeganWith, InHand, Serves
<1>6. \A t \in Searchers : BeganAlike(x, searchers[t])
  BY <1>1, <1>4, SearchType DEF BeganAlike, InHand
<1>7. Serves(cache, x) /\ CacheIsPast /\ CacheIsPast'
  BY <1>1, <1>4, SearchType
     DEF Serves, InHand, CacheIsPast, vars, table, Current, AtLeast
<1>8. /\ Known'
      /\ searchers' \in [Searchers -> Searches]
      /\ \A t \in Searchers : searchers'[t] = IF t = s THEN x ELSE searchers[t]
  BY <1>1, <1>3, <1>4, <1>5, <1>6, <1>7, SearchType, OneSearch
<1>9. SearchShapes'
  BY <1>1, <1>4, <1>8 DEF SearchInv, SearchTypeOK, SearchShapes
<1> QED
  BY <1>8, <1>9

LEMMA StartLoadingStep ==
    ASSUME SearchInv, NEW s \in Searchers, StartLoading(s)
    PROVE  SearchShapes' /\ Known'
<1> DEFINE old == searchers[s]
           x   == [[old EXCEPT !.pc = "load"] EXCEPT !.left = Clips]
<1>1. /\ old.pc = "lock" /\ UNCHANGED vars /\ UNCHANGED <<cache, searches>>
      /\ lock = None /\ lock' = s
  BY DEF StartLoading
<1>2. old \in Searches
  BY SearchType
<1>3. searchers' = [searchers EXCEPT ![s] = x]
  BY DEF StartLoading, SearchInv, SearchTypeOK
<1>4. /\ x \in Searches /\ x.pc = "load" /\ x.revision = old.revision
      /\ x.left = Clips /\ x.since = old.since
  BY <1>2 DEF Searches
<1> HIDE DEF x
<1>5. BeganWith(x)
  BY <1>1, <1>4, SearchType DEF BeganWith, InHand
<1>6. \A t \in Searchers : BeganAlike(x, searchers[t])
  BY <1>1, <1>4, SearchType DEF BeganAlike, InHand
<1>7. Serves(cache, x) /\ CacheIsPast /\ CacheIsPast'
  BY <1>1, <1>4, SearchType
     DEF Serves, InHand, CacheIsPast, vars, table, Current, AtLeast
<1>8. /\ Known'
      /\ searchers' \in [Searchers -> Searches]
      /\ \A t \in Searchers : searchers'[t] = IF t = s THEN x ELSE searchers[t]
  BY <1>1, <1>3, <1>4, <1>5, <1>6, <1>7, SearchType, OneSearch
<1>9. SearchShapes'
  BY <1>1, <1>4, <1>8, SearchersAssumption DEF SearchInv, SearchTypeOK, SearchShapes
<1> QED
  BY <1>8, <1>9

\* A page shows labels that are no older than those of the search's begin.
LEMMA LoadPageStep ==
    ASSUME SearchInv, NEW s \in Searchers, LoadPage(s)
    PROVE  SearchShapes' /\ Known'
<1> DEFINE old == searchers[s]
<1>1. old.pc = "load" /\ UNCHANGED vars /\ UNCHANGED <<cache, lock, searches>>
  BY DEF LoadPage
<1>2. old \in Searches
  BY SearchType
<1>3. PICK c \in old.left :
         searchers' = [searchers EXCEPT ![s].labels[c] = RevisionOf(heads[c]),
                                        ![s].left = @ \ {c}]
  BY DEF LoadPage
<1> DEFINE labels == [old.labels EXCEPT ![c] = RevisionOf(heads[c])]
           x      == [[old EXCEPT !.labels = labels] EXCEPT !.left = old.left \ {c}]
<1>4. c \in Clips /\ RevisionOf(heads[c]) = Current[c] /\ Current \in Labels
  BY <1>2, CurrentType DEF Searches, SearchInv, LabelsInv
<1>5. /\ labels \in Labels
      /\ \A d \in Clips : labels[d] = IF d = c THEN Current[c] ELSE old.labels[d]
  BY <1>2, <1>4 DEF Searches, Labels
<1>6. searchers' = [searchers EXCEPT ![s] = x]
  BY <1>3 DEF SearchInv, SearchTypeOK
<1> HIDE DEF labels
<1>7. /\ x \in Searches /\ x.pc = "load" /\ x.revision = old.revision
      /\ x.labels = labels /\ x.left = old.left \ {c} /\ x.since = old.since
  BY <1>1, <1>2, <1>5 DEF Searches
<1> HIDE DEF x
<1>8. BeganWith(x)
  <2>1. /\ old.revision <= total /\ AtLeast(Current, old.since)
        /\ old.revision = total => old.since = Current
        /\ \A d \in Clips \ old.left : old.labels[d] >= old.since[d]
    BY <1>1, SearchType DEF BeganWith, InHand
  <2>2. \A d \in Clips \ x.left : x.labels[d] >= x.since[d]
    BY <1>4, <1>5, <1>7, <2>1 DEF AtLeast
  <2> QED
    BY <1>7, <2>1, <2>2 DEF BeganWith
<1>9. \A t \in Searchers : BeganAlike(x, searchers[t])
  BY <1>1, <1>7, SearchType DEF BeganAlike, InHand
<1>10. Serves(cache, x) /\ CacheIsPast /\ CacheIsPast'
  BY <1>1, <1>7, SearchType
     DEF Serves, InHand, CacheIsPast, vars, table, Current, AtLeast
<1>11. /\ Known'
       /\ searchers' \in [Searchers -> Searches]
       /\ \A t \in Searchers : searchers'[t] = IF t = s THEN x ELSE searchers[t]
  BY <1>1, <1>6, <1>7, <1>8, <1>9, <1>10, SearchType, OneSearch
<1>12. SearchShapes'
  BY <1>1, <1>7, <1>11 DEF SearchInv, SearchTypeOK, SearchShapes
<1> QED
  BY <1>11, <1>12

\* What was loaded serves every search of the same revision.
LEMMA StoreStep ==
    ASSUME SearchInv, NEW s \in Searchers, Store(s)
    PROVE  SearchShapes' /\ Known'
<1> DEFINE old == searchers[s]
           x   == [old EXCEPT !.pc = "found"]
<1>1. /\ old.pc = "load" /\ old.left = {} /\ lock' = None
      /\ UNCHANGED vars /\ searches' = searches
      /\ cache' = [revision |-> old.revision, labels |-> old.labels]
  BY DEF Store, Loaded
<1>2. old \in Searches
  BY SearchType
<1>3. searchers' = [searchers EXCEPT ![s] = x]
  BY DEF Store, SearchInv, SearchTypeOK
<1>4. /\ x \in Searches /\ x.pc = "found" /\ x.revision = old.revision
      /\ x.labels = old.labels /\ x.since = old.since
  BY <1>2 DEF Searches
<1> HIDE DEF x
<1>5. /\ old.revision <= total /\ AtLeast(Current, old.since)
      /\ old.revision = total => old.since = Current
      /\ AtLeast(old.labels, old.since)
  BY <1>1, SearchType DEF BeganWith, InHand, AtLeast
<1>6. BeganWith(x)
  BY <1>4, <1>5 DEF BeganWith
<1>7. \A t \in Searchers : BeganAlike(x, searchers[t])
  BY <1>1, <1>4, SearchType DEF BeganAlike, InHand
<1>8. Serves(cache', x)
  BY <1>1, <1>4, <1>5 DEF Serves
<1>9. \A t \in Searchers : Serves(cache', searchers[t])
  BY <1>1, <1>5, SearchType DEF Serves, BeganAlike, InHand
<1>10. CacheIsPast'
  BY <1>1, <1>5 DEF CacheIsPast, vars, table, Current, AtLeast
<1>11. /\ Known'
       /\ searchers' \in [Searchers -> Searches]
       /\ \A t \in Searchers : searchers'[t] = IF t = s THEN x ELSE searchers[t]
  BY <1>1, <1>3, <1>4, <1>6, <1>7, <1>8, <1>9, <1>10, OneSearch
<1>12. cache' \in [revision : Nat, labels : Labels]
  BY <1>1, <1>2 DEF Searches
<1>13. SearchShapes'
  BY <1>1, <1>4, <1>11, <1>12, SearchersAssumption
     DEF SearchInv, SearchTypeOK, SearchShapes
<1> QED
  BY <1>11, <1>13

\* A search ends, with an answer or with too many labels.
LEMMA EndStep ==
    ASSUME SearchInv, NEW s \in Searchers, Overflow(s) \/ Finish(s)
    PROVE  SearchShapes' /\ Known'
<1>1. /\ UNCHANGED vars /\ UNCHANGED <<cache, searches>>
      /\ searchers' = [searchers EXCEPT ![s] = NoSearch]
      /\ \/ searchers[s].pc = "load" /\ lock' = None
         \/ searchers[s].pc = "found" /\ lock' = lock
  BY DEF Overflow, Finish, Loaded
<1>2. CacheIsPast /\ CacheIsPast'
  BY <1>1, SearchType DEF CacheIsPast, vars, table, Current, AtLeast
<1>3. /\ Known'
      /\ searchers' \in [Searchers -> Searches]
      /\ \A t \in Searchers :
            searchers'[t] = IF t = s THEN NoSearch ELSE searchers[t]
  BY <1>1, <1>2, NothingInHand, SearchType, OneSearch
<1>4. NoSearch.pc = "idle"
  BY DEF NoSearch
<1>5. SearchShapes'
  BY <1>1, <1>3, <1>4, SearchersAssumption DEF SearchInv, SearchTypeOK, SearchShapes
<1> QED
  BY <1>3, <1>5

LEMMA RestartSearchStep ==
    ASSUME SearchInv, RestartSearch
    PROVE  SearchShapes' /\ Known'
<1>1. /\ cache' = None /\ lock' = None /\ searches' = searches
      /\ searchers' = [s \in Searchers |-> NoSearch]
  BY DEF RestartSearch
<1>2. NoSearch.pc = "idle"
  BY DEF NoSearch
<1>3. SearchShapes'
  BY <1>1, <1>2, NothingInHand, SearchersAssumption
     DEF SearchInv, SearchTypeOK, SearchShapes
<1>4. \A s \in Searchers : searchers'[s].pc = "idle"
  BY <1>1, <1>2
<1> QED
  BY <1>1, <1>3, <1>4
     DEF Known, CacheIsPast, BeganWith, Serves, BeganAlike, InHand

-----------------------------------------------------------------------------
(* The theorem.                                                            *)

LEMMA SearchInvInit == SearchInit => SearchInv
<1> SUFFICES ASSUME SearchInit
             PROVE  SearchInv
  OBVIOUS
<1>1. /\ Init /\ cache = None /\ lock = None /\ searches = 0
      /\ searchers = [s \in Searchers |-> NoSearch]
  BY DEF SearchInit
<1>2. LabelsInv
  BY <1>1, LabelsInit
<1>3. NoSearch.pc = "idle"
  BY DEF NoSearch
<1>4. SearchShapes
  BY <1>1, <1>3, NothingInHand, SearchersAssumption DEF SearchShapes
<1>5. \A s \in Searchers : searchers[s].pc = "idle"
  BY <1>1, <1>3
<1>6. Known
  BY <1>1, <1>5 DEF Known, CacheIsPast, BeganWith, Serves, BeganAlike, InHand
<1> QED
  BY <1>2, <1>4, <1>6, SearchParts

LEMMA SearchInvNext == SearchInv /\ [SearchNext]_<<vars, search>> => SearchInv'
<1> SUFFICES ASSUME SearchInv, [SearchNext]_<<vars, search>>
             PROVE  SearchInv'
  OBVIOUS
<1>1. ASSUME NEW s \in Searchers, SearchStep(s)
      PROVE  UNCHANGED vars /\ SearchShapes' /\ Known'
  <2>1. UNCHANGED vars
    BY <1>1 DEF SearchStep, Begin, UseCache, StartLoading, LoadPage, Store,
       Overflow, Finish
  <2> QED
    BY <1>1, <2>1, BeginStep, UseCacheStep, StartLoadingStep, LoadPageStep,
       StoreStep, EndStep DEF SearchStep
<1>2. LabelsInv'
  <2>1. [Next]_vars
    BY <1>1 DEF SearchNext, Next, RestartSearch
  <2> QED
    BY <2>1, LabelsNext DEF SearchInv
<1>3. SearchShapes' /\ Known'
  <2>1. CASE Work /\ UNCHANGED search
    BY <2>1, WorkKeeps
  <2>2. CASE RestartSearch
    BY <2>2, RestartSearchStep
  <2>3. CASE UNCHANGED <<vars, search>>
    BY <2>3, SearchParts DEF search, vars, table, SearchShapes, Known, CacheIsPast,
       BeganWith, Serves, BeganAlike, InHand, AtLeast, Current
  <2> QED
    BY <1>1, <2>1, <2>2, <2>3 DEF SearchNext
<1> QED
  BY <1>2, <1>3 DEF SearchInv, SearchTypeOK, SearchShapes, Known, LabelsInv

\* No search shows a label older than what the table held when it began, whatever
\* was cached, loaded, edited or restarted meanwhile, and one thread at most loads
\* (corrected_search).
THEOREM SearchesRight == SearchSpec => []SearchesAreRight
<1>1. SearchInv => SearchesAreRight
  <2> SUFFICES ASSUME SearchInv
               PROVE  SearchesAreRight
    OBVIOUS
  <2>1. SearchIsCurrent
    BY SearchType DEF SearchIsCurrent, BeganWith, InHand
  <2> QED
    BY <2>1 DEF SearchInv, SearchesAreRight
<1> QED
  BY <1>1, SearchInvInit, SearchInvNext, PTL DEF SearchSpec


-----------------------------------------------------------------------------
(* PART THREE: the experiments (AsrExperiments).                           *)

Processes == Callers \cup Runs

\* A worker writes only where it announces a stage or its end.
WritesOfWorkers ==
    \A r \in Runs \ Callers :
        Writing(r) => workers[r] \in {"candidate", "evaluated", "exit"}

\* "completed" is written for a run, or will be, only when its candidate is whole.
CompletedIsEarned ==
    /\ \A r \in Runs : "completed" \in {status[r], temp[r]} => artifact[r] = "complete"
    /\ \A p \in Processes :
          writes[p].value = "completed" => artifact[writes[p].run] = "complete"
    /\ \A r \in Runs :
          workers[r] \in {"evaluating", "evaluated"} => artifact[r] = "complete"

ExperimentsInv ==
    /\ ExperimentsTypeOK
    /\ OneExperiment
    /\ WritesOfWorkers
    /\ CompletedIsEarned

-----------------------------------------------------------------------------
(* Types.                                                                  *)

FilesTyped ==
    /\ status \in [Runs -> Contents \cup {NoFile}]
    /\ temp \in [Runs -> Contents \cup {NoFile}]
    /\ cancel \subseteq Runs
    /\ artifact \in [Runs -> {"none", "partial", "complete"}]

WorkersTyped == workerLock \subseteq Runs /\ workers \in [Runs -> Places]

CallsTyped == calls \in [Callers -> Calls]

OpenFilesExist ==
    \A p \in Processes :
        /\ writes[p].file = "temp" => temp[writes[p].run] # NoFile
        /\ writes[p].file = "status" => status[writes[p].run] # NoFile

WritesTyped == writes \in [Processes -> Writes \cup {NoWrite}]

CountersTyped == requests \in Nat /\ stops \in Nat

LEMMA TypeParts ==
    ExperimentsTypeOK <=> /\ FilesTyped
                          /\ WorkersTyped
                          /\ CallsTyped
                          /\ WritesTyped
                          /\ OpenFilesExist
                          /\ CountersTyped
  BY DEF ExperimentsTypeOK, FilesTyped, WorkersTyped, CallsTyped, WritesTyped,
         OpenFilesExist, CountersTyped, Processes, Exists

\* A process that enters atomic_json has no file open yet.
LEMMA StartWriteTyped ==
    ASSUME WritesTyped, OpenFilesExist, UNCHANGED <<status, temp>>,
           NEW p \in Processes, NEW r \in Runs, NEW value \in Statuses,
           StartWrite(p, r, value)
    PROVE  WritesTyped' /\ OpenFilesExist'
<1>1. writes' = [writes EXCEPT ![p] = [run |-> r, value |-> value,
                                       next |-> "open", file |-> "none"]]
  BY DEF StartWrite
<1>2. [run |-> r, value |-> value, next |-> "open", file |-> "none"] \in Writes
  BY DEF Writes
<1>3. \A q \in Processes : writes'[q].file = "none" \/ writes'[q] = writes[q]
  BY <1>1 DEF WritesTyped
<1>4. WritesTyped'
  BY <1>1, <1>2 DEF WritesTyped
<1>5. OpenFilesExist'
  BY <1>3 DEF OpenFilesExist
<1> QED
  BY <1>4, <1>5

LEMMA SameWritesTyped ==
    ASSUME WritesTyped, OpenFilesExist, UNCHANGED <<status, temp, writes>>
    PROVE  WritesTyped' /\ OpenFilesExist'
  BY DEF WritesTyped, OpenFilesExist

\* One that leaves atomic_json, or is gone, holds no file open.
LEMMA StopWriteTyped ==
    ASSUME WritesTyped, OpenFilesExist, UNCHANGED <<status, temp>>,
           NEW gone \in SUBSET Processes,
           writes' = [p \in Processes |-> IF p \in gone THEN NoWrite ELSE writes[p]]
    PROVE  WritesTyped' /\ OpenFilesExist'
<1>1. WritesTyped'
  BY DEF WritesTyped
<1>2. \A q \in Processes : writes'[q].file = "none" \/ writes'[q] = writes[q]
  BY DEF NoWrite
<1> QED
  BY <1>1, <1>2 DEF OpenFilesExist

LEMMA CallsStep ==
    ASSUME CallsTyped, NEW a \in Callers
    PROVE  /\ UNCHANGED calls => CallsTyped'
           /\ Answer(a) => CallsTyped'
           /\ \A pc \in {"unlink", "launch"} :
                 calls[a].kind # "list" /\ GoOn(a, pc) => CallsTyped'
           /\ \A todo \in SUBSET Runs :
                 BeginCall(a, "list", "none", "show", todo) => CallsTyped'
           /\ \A kind \in {"start", "cancel"}, r \in Runs, pc \in {"show", "touch"},
                 todo \in SUBSET Runs : BeginCall(a, kind, r, pc, todo) => CallsTyped'
           /\ \A r \in Runs : calls' = [calls EXCEPT ![a].todo = @ \ {r}] => CallsTyped'
<1> USE DEF CallsTyped, Calls
<1>1. UNCHANGED calls => CallsTyped'
  OBVIOUS
<1>2. Answer(a) => CallsTyped'
  BY DEF Answer, NoCall
<1>3. \A pc \in {"unlink", "launch"} :
         calls[a].kind # "list" /\ GoOn(a, pc) => CallsTyped'
  BY DEF GoOn
<1>4. \A todo \in SUBSET Runs : BeginCall(a, "list", "none", "show", todo) => CallsTyped'
  BY DEF BeginCall
<1>5. \A kind \in {"start", "cancel"}, r \in Runs, pc \in {"show", "touch"},
         todo \in SUBSET Runs : BeginCall(a, kind, r, pc, todo) => CallsTyped'
  BY DEF BeginCall
<1>6. \A r \in Runs : calls' = [calls EXCEPT ![a].todo = @ \ {r}] => CallsTyped'
  OBVIOUS
<1> QED
  BY <1>1, <1>2, <1>3, <1>4, <1>5, <1>6

-----------------------------------------------------------------------------
\* Every variable keeps its shape, in each of the steps of execute_run, list_runs,
\* start_run, cancel_run and atomic_json.
LEMMA TypeStep == ExperimentsTypeOK /\ [RunsNext]_runVars => ExperimentsTypeOK'
<1> SUFFICES ASSUME ExperimentsTypeOK, [RunsNext]_runVars PROVE ExperimentsTypeOK'
  OBVIOUS
<1>0. /\ FilesTyped /\ WorkersTyped /\ CallsTyped
      /\ WritesTyped /\ OpenFilesExist /\ CountersTyped
  BY TypeParts
<1>z. /\ FilesTyped' /\ WorkersTyped' /\ CallsTyped'
      /\ WritesTyped' /\ OpenFilesExist' /\ CountersTyped'
      => ExperimentsTypeOK'
  BY DEF ExperimentsTypeOK, FilesTyped, WorkersTyped, CallsTyped, WritesTyped,
         OpenFilesExist, CountersTyped, Processes, Exists
<1>p. \A a \in Callers : a \in Processes
  BY DEF Processes
<1>q. \A r \in Runs : r \in Processes
  BY DEF Processes
<1>m. \A r \in Runs, pc \in Places : Move(r, pc) /\ workerLock' \subseteq Runs => WorkersTyped'
  BY <1>0 DEF Move, WorkersTyped
<1>f. UNCHANGED files => FilesTyped'
  BY <1>0 DEF FilesTyped, files
<1>w. UNCHANGED <<workerLock, workers>> => WorkersTyped'
  BY <1>0 DEF WorkersTyped
<1>c. UNCHANGED calls => CallsTyped'
  BY <1>0 DEF CallsTyped
<1>s. UNCHANGED <<status, temp, writes>> => WritesTyped' /\ OpenFilesExist'
  BY <1>0, SameWritesTyped
<1>n. /\ UNCHANGED <<requests, stops>> => CountersTyped'
      /\ Trouble /\ UNCHANGED requests => CountersTyped'
      /\ Request /\ UNCHANGED stops => CountersTyped'
  BY <1>0 DEF CountersTyped, Trouble, Request
<1>v. ASSUME NEW a \in Callers, calls[a].pc \in {"unlink", "launch", "touch"}
      PROVE  calls[a].run \in Runs /\ calls[a].kind # "list"
  BY <1>0, <1>v DEF CallsTyped, Calls
<1>1. ASSUME NEW a \in Callers, List(a) PROVE ExperimentsTypeOK'
  <2>1. CallsTyped'
    BY <1>0, <1>1, CallsStep DEF List, ActiveRows
  <2> QED
    BY <1>1, <2>1, <1>f, <1>w, <1>s, <1>n, <1>z DEF List, BeginCall, files
<1>2. ASSUME NEW a \in Callers, Show(a) PROVE ExperimentsTypeOK'
  <2>1. PICK r \in calls[a].todo :
          /\ calls' = [calls EXCEPT ![a].todo = @ \ {r}]
          /\ \/ StartWrite(a, r, "interrupted") /\ UNCHANGED stops
             \/ UNCHANGED <<writes, stops>>
             \/ Trouble /\ UNCHANGED writes
    BY <1>2 DEF Show
  <2>2. r \in Runs
    BY <1>0 DEF CallsTyped, Calls
  <2>3. CallsTyped'
    BY <1>0, <2>1, <2>2, CallsStep
  <2>4. WritesTyped' /\ OpenFilesExist'
    <3>1. CASE StartWrite(a, r, "interrupted")
      BY <1>0, <1>p, <1>2, <2>2, <3>1, StartWriteTyped
         DEF Show, files, Statuses, Restartable
    <3>2. CASE UNCHANGED writes
      BY <1>2, <1>s, <3>2 DEF Show, files
    <3> QED
      BY <2>1, <3>1, <3>2
  <2>5. CountersTyped'
    BY <1>2, <1>n, <2>1 DEF Show
  <2> QED
    BY <1>2, <2>3, <2>4, <2>5, <1>f, <1>w, <1>z DEF Show
<1>3. ASSUME NEW a \in Callers, Listed(a) PROVE ExperimentsTypeOK'
  <2>1. CallsTyped'
    BY <1>0, <1>3, CallsStep DEF Listed
  <2> QED
    BY <1>3, <2>1, <1>f, <1>w, <1>s, <1>n, <1>z DEF Listed, files
<1>4. ASSUME NEW a \in Callers, Reuse(a) PROVE ExperimentsTypeOK'
  <2>1. calls[a].kind = "start" /\ calls[a].run \in Runs
    BY <1>0, <1>4 DEF Reuse, CallsTyped, Calls
  <2>2. CallsTyped'
    BY <1>0, <1>4, <2>1, CallsStep DEF Reuse
  <2>3. WritesTyped' /\ OpenFilesExist'
    <3>1. CASE StartWrite(a, calls[a].run, "queued")
      BY <1>0, <1>p, <1>4, <2>1, <3>1, StartWriteTyped DEF Reuse, files, Statuses, Active
    <3>2. CASE UNCHANGED writes
      BY <1>4, <1>s, <3>2 DEF Reuse, files
    <3> QED
      BY <1>4, <3>1, <3>2 DEF Reuse
  <2> QED
    BY <1>4, <2>2, <2>3, <1>f, <1>w, <1>n, <1>z DEF Reuse
<1>5. ASSUME NEW a \in Callers, Unlink(a) PROVE ExperimentsTypeOK'
  <2>1. CallsTyped'
    BY <1>0, <1>5, <1>v, CallsStep DEF Unlink, At
  <2>2. FilesTyped'
    BY <1>0, <1>5 DEF Unlink, FilesTyped
  <2> QED
    BY <1>5, <2>1, <2>2, <1>w, <1>s, <1>n, <1>z DEF Unlink
<1>6. ASSUME NEW a \in Callers, Launch(a) PROVE ExperimentsTypeOK'
  <2>1. CallsTyped'
    BY <1>0, <1>6, CallsStep DEF Launch
  <2>2. WorkersTyped'
    BY <1>0, <1>6 DEF Launch, WorkersTyped, Places
  <2> QED
    BY <1>6, <2>1, <2>2, <1>f, <1>s, <1>n, <1>z DEF Launch, files
<1>7. ASSUME NEW a \in Callers, LaunchFails(a) PROVE ExperimentsTypeOK'
  <2>1. CallsTyped'
    BY <1>0, <1>7, CallsStep DEF LaunchFails
  <2>2. WritesTyped' /\ OpenFilesExist'
    BY <1>0, <1>p, <1>7, <1>v, StartWriteTyped
       DEF LaunchFails, At, files, Statuses, Restartable
  <2> QED
    BY <1>7, <2>1, <2>2, <1>f, <1>w, <1>n, <1>z DEF LaunchFails
<1>8. ASSUME NEW a \in Callers, Touch(a) PROVE ExperimentsTypeOK'
  <2>1. CallsTyped'
    BY <1>0, <1>8, CallsStep DEF Touch
  <2>2. WritesTyped' /\ OpenFilesExist'
    BY <1>0, <1>p, <1>8, <1>v, StartWriteTyped DEF Touch, At, Statuses, Active
  <2>3. FilesTyped'
    BY <1>0, <1>8, <1>v DEF Touch, At, FilesTyped
  <2> QED
    BY <1>8, <2>1, <2>2, <2>3, <1>w, <1>n, <1>z DEF Touch
<1>9. ASSUME NEW a \in Callers, NEW r \in Runs, RequestStart(a, r) PROVE ExperimentsTypeOK'
  <2>1. CallsTyped'
    BY <1>0, <1>9, CallsStep DEF RequestStart, ActiveRows
  <2> QED
    BY <1>9, <2>1, <1>f, <1>w, <1>s, <1>n, <1>z DEF RequestStart, BeginCall, files
<1>10. ASSUME NEW a \in Callers, NEW r \in Runs, RequestCancel(a, r) PROVE ExperimentsTypeOK'
  <2>1. CallsTyped'
    BY <1>0, <1>10, CallsStep DEF RequestCancel
  <2> QED
    BY <1>10, <2>1, <1>f, <1>w, <1>s, <1>n, <1>z DEF RequestCancel, BeginCall, files
<1>t. ASSUME NEW p \in Processes, Writing(p)
      PROVE  writes[p] \in Writes /\ writes[p].run \in Runs /\ writes[p].value \in Statuses
  BY <1>0, <1>t DEF Writing, WritesTyped, Writes, NoWrite
<1>11. ASSUME NEW p \in Processes, Open(p) PROVE ExperimentsTypeOK'
  <2>1. Writing(p)
    BY <1>11 DEF Open, Writing
  <2>2. FilesTyped'
    BY <1>0, <1>11, <1>t, <2>1 DEF Open, FilesTyped, Contents
  <2>3. writes' = [writes EXCEPT ![p] = [writes[p] EXCEPT !.next = "fill", !.file = "temp"]]
    BY <1>11 DEF Open
  <2>4. WritesTyped'
    BY <1>0, <1>t, <2>1, <2>3 DEF WritesTyped, Writes
  <2>5. OpenFilesExist'
    <3> SUFFICES ASSUME NEW q \in Processes
                 PROVE  /\ writes'[q].file = "temp" => temp'[writes'[q].run] # NoFile
                        /\ writes'[q].file = "status" => status'[writes'[q].run] # NoFile
      BY DEF OpenFilesExist
    <3>1. CASE q = p
      BY <1>0, <1>11, <1>t, <2>1, <2>3, <3>1 DEF Open, WritesTyped, FilesTyped, NoFile, Writes
    <3>2. CASE q # p
      BY <1>0, <1>11, <1>t, <2>1, <2>3, <3>2
         DEF Open, WritesTyped, FilesTyped, NoFile, OpenFilesExist
    <3> QED
      BY <3>1, <3>2
  <2> QED
    BY <1>11, <2>2, <2>4, <2>5, <1>w, <1>c, <1>n, <1>z DEF Open
<1>12. ASSUME NEW p \in Processes, Fill(p) PROVE ExperimentsTypeOK'
  <2>1. Writing(p)
    BY <1>12 DEF Fill, Writing
  <2>2. writes' = [writes EXCEPT ![p] = [writes[p] EXCEPT !.next = "rename"]]
    BY <1>12 DEF Fill
  <2>3. \A q \in Processes : writes'[q].file = writes[q].file /\ writes'[q].run = writes[q].run
    BY <1>0, <1>t, <2>1, <2>2 DEF WritesTyped, Writes
  <2>4. WritesTyped'
    BY <1>0, <1>t, <2>1, <2>2 DEF WritesTyped, Writes
  <2>5. \A text : text \in Over(temp[writes[p].run], writes[p].value)
                 \/ text \in Over(status[writes[p].run], writes[p].value)
                 => text \in Contents /\ text # NoFile
    BY <1>t, <2>1 DEF Over, Contents, Statuses, Active, Restartable, NoFile
  <2>6. FilesTyped'
    BY <1>0, <1>12, <1>t, <2>1, <2>5 DEF Fill, FilesTyped
  <2>7. \A r \in Runs : /\ temp[r] # NoFile => temp'[r] # NoFile
                        /\ status[r] # NoFile => status'[r] # NoFile
    BY <1>0, <1>12, <1>t, <2>1, <2>5 DEF Fill, FilesTyped
  <2>8. \A q \in Processes : writes[q].file \in {"temp", "status"} => writes[q].run \in Runs
    BY <1>0 DEF WritesTyped, Writes, NoWrite
  <2>9. OpenFilesExist'
    <3> SUFFICES ASSUME NEW q \in Processes
                 PROVE  /\ writes'[q].file = "temp" => temp'[writes'[q].run] # NoFile
                        /\ writes'[q].file = "status" => status'[writes'[q].run] # NoFile
      BY DEF OpenFilesExist
    <3>1. /\ writes[q].file = "temp" => temp[writes[q].run] # NoFile
          /\ writes[q].file = "status" => status[writes[q].run] # NoFile
      BY <1>0 DEF OpenFilesExist
    <3>2. writes'[q].file = writes[q].file /\ writes'[q].run = writes[q].run
      BY <2>3
    <3>3. writes[q].file \in {"temp", "status"} => writes[q].run \in Runs
      BY <2>8
    <3> QED
      BY <2>7, <3>1, <3>2, <3>3
  <2> QED
    BY <1>12, <2>4, <2>6, <2>9, <1>w, <1>c, <1>n, <1>z DEF Fill
<1>13. ASSUME NEW p \in Processes, Rename(p) PROVE ExperimentsTypeOK'
  <2>1. Writing(p)
    BY <1>13 DEF Rename, Writing
  <2>2. FilesTyped'
    BY <1>0, <1>13, <1>t, <2>1 DEF Rename, FilesTyped
  <2>3. \A q \in Processes :
          \/ writes'[q] = NoWrite
          \/ writes[q].run # writes[p].run /\ writes'[q] = writes[q]
          \/ /\ writes[q].run = writes[p].run
             /\ writes'[q] = [writes[q] EXCEPT !.file = Carried(writes[q].file)]
    BY <1>0, <1>13 DEF Rename, WritesTyped
  <2>4. \A w \in Writes \cup {NoWrite} :
          LET v == [w EXCEPT !.file = Carried(w.file)]
          IN  /\ v \in Writes \cup {NoWrite}
              /\ v.run = w.run /\ v.file = Carried(w.file)
    <3>1. \A w \in Writes : [w EXCEPT !.file = Carried(w.file)] \in Writes
      BY DEF Writes, Carried
    <3>2. [NoWrite EXCEPT !.file = Carried(NoWrite.file)] = NoWrite
      BY DEF NoWrite, Carried
    <3> QED
      BY <3>1, <3>2 DEF Writes, NoWrite
  <2>5. \A q \in Processes : writes'[q] \in Writes \cup {NoWrite}
    <3> TAKE q \in Processes
    <3>1. writes[q] \in Writes \cup {NoWrite}
      BY <1>0 DEF WritesTyped
    <3> QED
      BY <2>3, <2>4, <3>1
  <2>6. WritesTyped'
    BY <1>0, <1>13, <2>5 DEF Rename, WritesTyped
  <2>7. OpenFilesExist'
    <3> SUFFICES ASSUME NEW q \in Processes
                 PROVE  /\ writes'[q].file = "temp" => temp'[writes'[q].run] # NoFile
                        /\ writes'[q].file = "status" => status'[writes'[q].run] # NoFile
      BY DEF OpenFilesExist
    <3>1. CASE writes'[q] = NoWrite
      BY <3>1 DEF NoWrite
    <3>2. CASE writes[q].run # writes[p].run /\ writes'[q] = writes[q]
      <4>1. writes[q].file \in {"temp", "status"} => writes[q].run \in Runs
        BY <1>0 DEF WritesTyped, Writes, NoWrite
      <4> QED
        BY <1>0, <1>13, <1>t, <2>1, <3>2, <4>1 DEF Rename, FilesTyped, OpenFilesExist
    <3>3. CASE /\ writes[q].run = writes[p].run
               /\ writes'[q] = [writes[q] EXCEPT !.file = Carried(writes[q].file)]
      <4>1. /\ writes'[q].run = writes[p].run
            /\ writes'[q].file = Carried(writes[q].file)
        BY <1>0, <2>4, <3>3 DEF WritesTyped
      <4>2. writes'[q].file # "temp"
        BY <4>1 DEF Carried
      <4>3. status'[writes[p].run] # NoFile
        BY <1>0, <1>13, <1>t, <2>1 DEF Rename, FilesTyped
      <4> QED
        BY <4>1, <4>2, <4>3
    <3> QED
      BY <2>3, <3>1, <3>2, <3>3
  <2> QED
    BY <1>13, <2>2, <2>6, <2>7, <1>w, <1>c, <1>n, <1>z DEF Rename
<1>r. ASSUME NEW p \in Processes, writes' = [writes EXCEPT ![p] = NoWrite],
             UNCHANGED <<status, temp>>
      PROVE  WritesTyped' /\ OpenFilesExist'
  <2>1. writes' = [q \in Processes |-> IF q \in {p} THEN NoWrite ELSE writes[q]]
    BY <1>0, <1>r DEF WritesTyped
  <2> QED
    BY <1>0, <1>r, <2>1, StopWriteTyped
<1>14. ASSUME NEW p \in Processes, RenameFails(p) PROVE ExperimentsTypeOK'
  <2>1. WritesTyped' /\ OpenFilesExist'
    BY <1>14, <1>r DEF RenameFails, files
  <2>2. CallsTyped'
    BY <1>0, <1>14, <1>c, CallsStep DEF RenameFails, Answer
  <2>3. WorkersTyped'
    <3>1. CASE p \in Callers
      BY <1>14, <1>w, <3>1 DEF RenameFails
    <3>2. CASE p \notin Callers
      BY <1>0, <1>14, <3>2 DEF RenameFails, WorkersTyped, Places, Raised, Released, Processes
    <3> QED
      BY <3>1, <3>2
  <2> QED
    BY <1>14, <2>1, <2>2, <2>3, <1>f, <1>n, <1>z DEF RenameFails
<1>e. ASSUME NEW r \in Runs, NEW value \in Statuses, StartWrite(r, r, value),
             UNCHANGED <<status, temp>>
      PROVE  WritesTyped' /\ OpenFilesExist'
  BY <1>0, <1>q, <1>e, StartWriteTyped
<1>15. ASSUME NEW r \in Runs, Boot(r) PROVE ExperimentsTypeOK'
  <2>1. WorkersTyped'
    BY <1>0, <1>15 DEF Boot, End, Move, WorkersTyped, Places, Working
  <2>2. WritesTyped' /\ OpenFilesExist'
    <3>1. CASE End(r, "failed")
      BY <1>15, <1>e, <3>1 DEF Boot, End, files, Statuses, Restartable
    <3>2. CASE UNCHANGED writes
      BY <1>15, <1>s, <3>2 DEF Boot, files
    <3> QED
      BY <1>15, <3>1, <3>2 DEF Boot
  <2> QED
    BY <1>15, <2>1, <2>2, <1>f, <1>c, <1>n, <1>z DEF Boot
<1>16. ASSUME NEW r \in Runs, Update(r) PROVE ExperimentsTypeOK'
  <2>1. /\ \/ Move(r, "stopping") /\ UNCHANGED writes
           \/ /\ Move(r, "candidate") \/ Move(r, "evaluated")
              /\ StartWrite(r, r, "running")
        /\ UNCHANGED <<files, workerLock, calls, requests, stops>>
    BY <1>16 DEF Update, After
  <2>2. WorkersTyped'
    BY <1>0, <2>1 DEF Move, WorkersTyped, Places, Working
  <2>3. WritesTyped' /\ OpenFilesExist'
    <3>1. CASE StartWrite(r, r, "running")
      BY <1>e, <2>1, <3>1 DEF files, Statuses, Active
    <3>2. CASE UNCHANGED writes
      BY <1>s, <2>1, <3>2 DEF files
    <3> QED
      BY <2>1, <3>1, <3>2
  <2> QED
    BY <2>1, <2>2, <2>3, <1>f, <1>c, <1>n, <1>z
<1>17. ASSUME NEW r \in Runs, Candidate(r) PROVE ExperimentsTypeOK'
  <2>1. WorkersTyped'
    BY <1>0, <1>17 DEF Candidate, Move, WorkersTyped, Places, Working
  <2>2. FilesTyped'
    BY <1>0, <1>17 DEF Candidate, FilesTyped
  <2> QED
    BY <1>17, <2>1, <2>2, <1>s, <1>c, <1>n, <1>z DEF Candidate
<1>18. ASSUME NEW r \in Runs, Identify(r) PROVE ExperimentsTypeOK'
  <2>1. WorkersTyped'
    BY <1>0, <1>18 DEF Identify, Move, WorkersTyped, Places, Working
  <2>2. FilesTyped'
    BY <1>0, <1>18 DEF Identify, FilesTyped
  <2> QED
    BY <1>18, <2>1, <2>2, <1>s, <1>c, <1>n, <1>z DEF Identify
<1>19. ASSUME NEW r \in Runs, NEW value \in Statuses, End(r, value),
              UNCHANGED <<files, workerLock, calls, requests, stops>>
       PROVE  ExperimentsTypeOK'
  <2>1. WorkersTyped'
    BY <1>0, <1>19 DEF End, Move, WorkersTyped, Places
  <2>2. WritesTyped' /\ OpenFilesExist'
    BY <1>19, <1>e DEF End, files
  <2> QED
    BY <1>19, <2>1, <2>2, <1>f, <1>c, <1>n, <1>z
<1>20. ASSUME NEW r \in Runs, Complete(r) \/ Fail(r) \/ Settle(r) PROVE ExperimentsTypeOK'
  BY <1>19, <1>20 DEF Complete, Fail, Settle, Statuses, Restartable
<1>21. ASSUME NEW r \in Runs, Exit(r) PROVE ExperimentsTypeOK'
  <2>1. WorkersTyped'
    BY <1>0, <1>21 DEF Exit, Move, Released, WorkersTyped, Places
  <2> QED
    BY <1>21, <2>1, <1>f, <1>s, <1>c, <1>n, <1>z DEF Exit, files
<1>22. ASSUME NEW r \in Runs, Fault(r) PROVE ExperimentsTypeOK'
  <2>1. WorkersTyped'
    BY <1>0, <1>22 DEF Fault, Move, WorkersTyped, Places
  <2> QED
    BY <1>22, <2>1, <1>f, <1>s, <1>c, <1>n, <1>z DEF Fault, files
<1>23. ASSUME NEW r \in Runs, Interrupt(r) PROVE ExperimentsTypeOK'
  <2>1. WorkersTyped'
    BY <1>0, <1>23 DEF Interrupt, Move, Released, WorkersTyped, Places
  <2>2. WritesTyped' /\ OpenFilesExist'
    BY <1>q, <1>23, <1>r DEF Interrupt, files
  <2> QED
    BY <1>23, <2>1, <2>2, <1>f, <1>c, <1>n, <1>z DEF Interrupt
<1>24. CASE RestartApi
  <2>1. CallsTyped'
    BY <1>24 DEF RestartApi, CallsTyped, Calls, NoCall
  <2>2. writes' = [p \in Processes |-> IF p \in Callers THEN NoWrite ELSE writes[p]]
    BY <1>0, <1>24 DEF RestartApi, WritesTyped
  <2>3. WritesTyped' /\ OpenFilesExist'
    BY <1>0, <1>24, <1>p, <2>2, StopWriteTyped DEF RestartApi, files
  <2> QED
    BY <1>24, <2>1, <2>3, <1>f, <1>w, <1>n, <1>z DEF RestartApi
<1>25. CASE UNCHANGED runVars
  BY <1>25, <1>f, <1>w, <1>c, <1>s, <1>n, <1>z DEF runVars, files, procs
<1> QED
  BY <1>1, <1>2, <1>3, <1>4, <1>5, <1>6, <1>7, <1>8, <1>9, <1>10, <1>11, <1>12,
     <1>13, <1>14, <1>15, <1>16, <1>17, <1>18, <1>20, <1>21, <1>22, <1>23, <1>24, <1>25
     DEF RunsNext, Serve, AtomicJson, Execute, Processes

-----------------------------------------------------------------------------
(* One experiment at a time.                                               *)

Computing == Working \cup {"stopping", "failing"}

\* What the API does moves no worker, but to start one that is stopped.
LEMMA ServedStep ==
    ASSUME ExperimentsTypeOK, NEW a \in Callers,
           \/ List(a) \/ Serve(a)
           \/ \E r \in Runs : RequestStart(a, r) \/ RequestCancel(a, r)
    PROVE  /\ UNCHANGED <<workerLock, artifact>>
           /\ \A r \in Runs : workers'[r] = workers[r]
                              \/ (workers[r] = "stopped" /\ workers'[r] = "boot")
           /\ \A p \in Processes \ {a} : writes'[p] = writes[p]
<1> USE DEF ExperimentsTypeOK, Processes, files
<1>1. CASE List(a)
  BY <1>1 DEF List, BeginCall
<1>2. CASE Show(a)
  BY <1>2 DEF Show, StartWrite
<1>3. CASE Listed(a)
  BY <1>3 DEF Listed
<1>4. CASE Reuse(a)
  BY <1>4 DEF Reuse, StartWrite
<1>5. CASE Unlink(a)
  BY <1>5 DEF Unlink
<1>6. CASE Launch(a)
  BY <1>6 DEF Launch
<1>7. CASE LaunchFails(a)
  BY <1>7 DEF LaunchFails, StartWrite
<1>8. CASE Touch(a)
  BY <1>8 DEF Touch, StartWrite
<1>9. CASE \E r \in Runs : RequestStart(a, r) \/ RequestCancel(a, r)
  BY <1>9 DEF RequestStart, RequestCancel, BeginCall
<1> QED
  BY <1>1, <1>2, <1>3, <1>4, <1>5, <1>6, <1>7, <1>8, <1>9 DEF Serve

\* A worker that moves keeps or takes the workerLock if it computes, and gives it up
\* if it is gone; nobody else's workerLock changes with it.
LEMMA WorkerStep ==
    ASSUME ExperimentsTypeOK, OneExperiment, WritesOfWorkers, NEW r \in Runs,
           Execute(r) \/ Fault(r) \/ Interrupt(r) \/ (r \notin Callers /\ RenameFails(r))
    PROVE  /\ \A s \in Runs \ {r} : workers'[s] = workers[s]
           /\ \A p \in Processes \ {r} : writes'[p] = writes[p]
           /\ workers'[r] \in Computing => workerLock' = {r}
           /\ workerLock' = workerLock \/ workerLock' = workerLock \ {r} \/ (workerLock = {} /\ workerLock' = {r})
           /\ r \notin Callers => (Writing(r)' => workers'[r] \in {"candidate", "evaluated", "exit"})
<1> USE DEF ExperimentsTypeOK, Processes, OneExperiment, WritesOfWorkers, Computing, Working,
            Places, Move, In
<1>1. CASE Boot(r)
  BY <1>1 DEF Boot, End, StartWrite, Locked, Writing
<1>2. CASE Update(r)
  <2>1. PICK stage \in {"materializing", "evaluating"} :
          /\ In(r, stage)
          /\ \/ Move(r, "stopping") /\ UNCHANGED writes
             \/ /\ Move(r, "candidate") \/ Move(r, "evaluated")
                /\ StartWrite(r, r, "running")
          /\ UNCHANGED workerLock
    BY <1>2 DEF Update, After
  <2> QED
    BY <2>1 DEF StartWrite, Writing
<1>3. CASE Candidate(r)
  BY <1>3 DEF Candidate, Writing
<1>4. CASE Identify(r)
  BY <1>4 DEF Identify, Writing
<1>5. CASE Complete(r)
  BY <1>5 DEF Complete, End, StartWrite, Writing
<1>6. CASE Fail(r)
  BY <1>6 DEF Fail, End, StartWrite, Writing
<1>7. CASE Settle(r)
  BY <1>7 DEF Settle, End, StartWrite, Writing
<1>8. CASE Exit(r)
  BY <1>8 DEF Exit, Released, Writing
<1>9. CASE Fault(r)
  BY <1>9 DEF Fault, Writing
<1>10. CASE Interrupt(r)
  BY <1>10 DEF Interrupt, Released, Writing, NoWrite
<1>11. CASE r \notin Callers /\ RenameFails(r)
  BY <1>11 DEF RenameFails, Raised, Released, Writing, NoWrite
<1> QED
  BY <1>1, <1>2, <1>3, <1>4, <1>5, <1>6, <1>7, <1>8, <1>9, <1>10, <1>11 DEF Execute

LEMMA OneExperimentStep ==
    ASSUME ExperimentsTypeOK, OneExperiment, WritesOfWorkers, [RunsNext]_runVars
    PROVE  OneExperiment' /\ WritesOfWorkers'
<1>1. ASSUME NEW a \in Callers,
             \/ List(a) \/ Serve(a)
             \/ \E r \in Runs : RequestStart(a, r) \/ RequestCancel(a, r)
      PROVE  OneExperiment' /\ WritesOfWorkers'
  <2>1. /\ workerLock' = workerLock
        /\ \A r \in Runs : workers'[r] = workers[r]
                           \/ (workers[r] = "stopped" /\ workers'[r] = "boot")
        /\ \A p \in Processes \ {a} : writes'[p] = writes[p]
    BY <1>1, ServedStep
  <2> QED
    BY <2>1 DEF OneExperiment, WritesOfWorkers, Writing, Working, Processes
<1>2. ASSUME NEW p \in Processes, Open(p) \/ Fill(p) \/ Rename(p)
      PROVE  OneExperiment' /\ WritesOfWorkers'
  <2>1. UNCHANGED <<workerLock, workers>>
    BY <1>2 DEF Open, Fill, Rename
  <2>2. \A q \in Processes : writes'[q].next # "none" => writes[q].next # "none"
    <3>1. CASE Open(p)
      BY <3>1 DEF Open, ExperimentsTypeOK, Processes
    <3>2. CASE Fill(p)
      BY <3>2 DEF Fill, ExperimentsTypeOK, Processes
    <3>3. CASE Rename(p)
      BY <3>3 DEF Rename, ExperimentsTypeOK, Processes, NoWrite, Writes
    <3> QED
      BY <1>2, <3>1, <3>2, <3>3
  <2> QED
    BY <2>1, <2>2 DEF OneExperiment, WritesOfWorkers, Writing, Processes
<1>3. ASSUME NEW a \in Callers, RenameFails(a)
      PROVE  OneExperiment' /\ WritesOfWorkers'
  BY <1>3 DEF RenameFails, OneExperiment, WritesOfWorkers, Writing, ExperimentsTypeOK
<1>4. ASSUME NEW r \in Runs,
             Execute(r) \/ Fault(r) \/ Interrupt(r) \/ (r \notin Callers /\ RenameFails(r))
      PROVE  OneExperiment' /\ WritesOfWorkers'
  <2>1. /\ \A s \in Runs \ {r} : workers'[s] = workers[s]
        /\ \A p \in Processes \ {r} : writes'[p] = writes[p]
        /\ workers'[r] \in Computing => workerLock' = {r}
        /\ workerLock' = workerLock \/ workerLock' = workerLock \ {r} \/ (workerLock = {} /\ workerLock' = {r})
        /\ r \notin Callers
           => (Writing(r)' => workers'[r] \in {"candidate", "evaluated", "exit"})
    BY <1>4, WorkerStep
  <2>2. \A s \in Runs \ {r} : workers'[s] \in Computing => workerLock' = {s}
    BY <2>1 DEF OneExperiment, Computing
  <2>3. OneExperiment'
    BY <2>1, <2>2 DEF OneExperiment, Computing
  <2>4. WritesOfWorkers'
    BY <2>1 DEF WritesOfWorkers, Writing, Processes
  <2> QED
    BY <2>3, <2>4
<1>5. CASE RestartApi
  BY <1>5 DEF RestartApi, OneExperiment, WritesOfWorkers, Writing, ExperimentsTypeOK
<1>6. CASE UNCHANGED runVars
  BY <1>6 DEF runVars, procs, OneExperiment, WritesOfWorkers, Writing
<1> QED
  BY <1>1, <1>2, <1>3, <1>4, <1>5, <1>6 DEF RunsNext, AtomicJson, Processes

-----------------------------------------------------------------------------
(* Candidates, and what says "completed".                                  *)

\* Only train_candidate touches a candidate, and only where there is none or the
\* converter is at it.
LEMMA ArtifactStep ==
    ASSUME ExperimentsTypeOK, CompletedIsEarned, [RunsNext]_runVars, NEW r \in Runs
    PROVE  artifact[r] = "complete" => artifact'[r] = "complete"
<1> USE DEF ExperimentsTypeOK
<1>1. ASSUME NEW a \in Callers,
             \/ List(a) \/ Serve(a)
             \/ \E s \in Runs : RequestStart(a, s) \/ RequestCancel(a, s)
      PROVE  UNCHANGED artifact
  BY <1>1, ServedStep
<1>2. ASSUME NEW p \in Processes, AtomicJson(p)
      PROVE  UNCHANGED artifact
  BY <1>2 DEF AtomicJson, Open, Fill, Rename, RenameFails, files
<1>3. ASSUME NEW s \in Runs,
             Boot(s) \/ Update(s) \/ Complete(s) \/ Fail(s) \/ Settle(s) \/ Exit(s)
             \/ Fault(s) \/ Interrupt(s)
      PROVE  UNCHANGED artifact
  BY <1>3 DEF Boot, Update, Complete, Fail, Settle, Exit, Fault, Interrupt, files
<1>4. ASSUME NEW s \in Runs, Candidate(s)
      PROVE  artifact[r] = "complete" => artifact'[r] = "complete"
  BY <1>4 DEF Candidate, Untrained
<1>5. ASSUME NEW s \in Runs, Identify(s)
      PROVE  artifact[r] = "complete" => artifact'[r] = "complete"
  BY <1>5 DEF Identify
<1>6. CASE RestartApi \/ UNCHANGED runVars
  BY <1>6 DEF RestartApi, runVars, files
<1> QED
  BY <1>1, <1>2, <1>3, <1>4, <1>5, <1>6 DEF RunsNext, Execute, Processes

\* What is being written as completed from now on was so before, or is by a worker
\* that is through with its evaluation.
LEMMA ValueStep ==
    ASSUME ExperimentsTypeOK, CompletedIsEarned, [RunsNext]_runVars, NEW p \in Processes,
           writes'[p].value = "completed"
    PROVE  \/ writes[p].value = "completed" /\ writes'[p].run = writes[p].run
           \/ p \in Runs /\ writes'[p].run = p /\ workers[p] = "evaluated"
<1> DEFINE Same == writes[p].value = "completed" /\ writes'[p].run = writes[p].run
           Other(v) == \E q \in Processes, r \in Runs : v # "completed" /\ StartWrite(q, r, v)
           Cleared == \E gone \in SUBSET Processes :
                 writes' = [q \in Processes |-> IF q \in gone THEN NoWrite ELSE writes[q]]
<1>1. UNCHANGED writes => Same
  OBVIOUS
<1>2. ASSUME NEW v, Other(v) PROVE Same
  BY <1>2 DEF StartWrite, ExperimentsTypeOK, Processes
<1>3. Cleared => Same
  BY DEF NoWrite
<1>4. ASSUME NEW a \in Callers,
             \/ List(a) \/ Serve(a)
             \/ \E r \in Runs : RequestStart(a, r) \/ RequestCancel(a, r)
      PROVE  Same
  <2>1. CASE List(a) \/ \E r \in Runs : RequestStart(a, r) \/ RequestCancel(a, r)
    BY <1>1, <2>1 DEF List, RequestStart, RequestCancel, BeginCall
  <2>2. CASE Show(a)
    <3>1. \A r \in calls[a].todo : r \in Runs
      BY DEF ExperimentsTypeOK, Calls
    <3> QED
      BY <1>1, <1>2, <2>2, <3>1 DEF Show, Processes
  <2>3. CASE Listed(a) \/ Unlink(a) \/ Launch(a)
    BY <1>1, <2>3 DEF Listed, Unlink, Launch
  <2>4. CASE Reuse(a) \/ LaunchFails(a) \/ Touch(a)
    <3>1. calls[a].kind = "start" \/ calls[a].pc \in {"launch", "touch"}
      BY <2>4 DEF Reuse, LaunchFails, Touch, At
    <3>2. calls[a].run \in Runs
      BY <3>1 DEF ExperimentsTypeOK, Calls
    <3> QED
      BY <1>1, <1>2, <2>4, <3>2 DEF Reuse, LaunchFails, Touch, Processes
  <2> QED
    BY <1>4, <2>1, <2>2, <2>3, <2>4 DEF Serve
<1>5. ASSUME NEW q \in Processes, Open(q) \/ Fill(q) PROVE Same
  BY <1>5 DEF Open, Fill, ExperimentsTypeOK, Processes, Writes, NoWrite
<1>6. ASSUME NEW q \in Processes, Rename(q) PROVE Same
  BY <1>6 DEF Rename, ExperimentsTypeOK, Processes, Writes, NoWrite
<1>7. ASSUME NEW q \in Processes, writes' = [writes EXCEPT ![q] = NoWrite] PROVE Same
  BY <1>7 DEF ExperimentsTypeOK, Processes, NoWrite
<1>8. ASSUME NEW q \in Processes, RenameFails(q) PROVE Same
  BY <1>7, <1>8 DEF RenameFails
<1>9. ASSUME NEW r \in Runs,
             Boot(r) \/ Update(r) \/ Candidate(r) \/ Identify(r) \/ Fail(r) \/ Settle(r)
             \/ Exit(r) \/ Fault(r) \/ Interrupt(r)
      PROVE  Same
  BY <1>1, <1>2, <1>7, <1>9
     DEF Boot, Update, Candidate, Identify, Fail, Settle, Exit, Fault, Interrupt, End, Processes
<1>10. ASSUME NEW r \in Runs, Complete(r)
       PROVE  Same \/ (p \in Runs /\ writes'[p].run = p /\ workers[p] = "evaluated")
  BY <1>10 DEF Complete, End, In, StartWrite, ExperimentsTypeOK, Processes
<1>11. CASE RestartApi
  BY <1>3, <1>11 DEF RestartApi, ExperimentsTypeOK, Processes
<1>12. CASE UNCHANGED runVars
  BY <1>1, <1>12 DEF runVars, procs
<1> QED
  BY <1>4, <1>5, <1>6, <1>8, <1>9, <1>10, <1>11, <1>12 DEF RunsNext, AtomicJson, Execute, Processes

\* A file says "completed" only where it said so, or where a writer fills it so.
LEMMA FilesStep ==
    ASSUME ExperimentsTypeOK, CompletedIsEarned, [RunsNext]_runVars, NEW r \in Runs,
           "completed" \in {status'[r], temp'[r]}
    PROVE  \/ "completed" \in {status[r], temp[r]}
           \/ \E p \in Processes : writes[p].run = r /\ writes[p].value = "completed"
<1> DEFINE Said == "completed" \in {status[r], temp[r]}
<1>1. UNCHANGED <<status, temp>> => Said
  OBVIOUS
<1>2. ASSUME NEW a \in Callers,
             \/ List(a) \/ Serve(a)
             \/ \E s \in Runs : RequestStart(a, s) \/ RequestCancel(a, s)
      PROVE  UNCHANGED <<status, temp>>
  BY <1>2 DEF Serve, List, Show, Listed, Reuse, Unlink, Launch, LaunchFails, Touch,
              RequestStart, RequestCancel, BeginCall, files
<1>3. ASSUME NEW s \in Runs, Execute(s) \/ Fault(s) \/ Interrupt(s)
      PROVE  UNCHANGED <<status, temp>>
  BY <1>3 DEF Execute, Boot, Update, Candidate, Identify, Complete, Fail, Settle, Exit,
              Fault, Interrupt, files
<1>4. ASSUME NEW p \in Processes, Open(p) PROVE Said
  BY <1>4 DEF Open, ExperimentsTypeOK
<1>5. ASSUME NEW p \in Processes, Fill(p)
      PROVE  Said \/ (writes[p].run = r /\ writes[p].value = "completed")
  <2>1. \A old, value : "completed" \in Over(old, value) => value = "completed"
    BY DEF Over
  <2> QED
    BY <1>5, <2>1 DEF Fill, ExperimentsTypeOK
<1>6. ASSUME NEW p \in Processes, Rename(p) PROVE Said
  BY <1>6 DEF Rename, ExperimentsTypeOK, NoFile
<1>7. ASSUME NEW p \in Processes, RenameFails(p) PROVE Said
  BY <1>7 DEF RenameFails, files
<1>8. CASE RestartApi \/ UNCHANGED runVars
  BY <1>8 DEF RestartApi, runVars, files
<1> QED
  BY <1>1, <1>2, <1>3, <1>4, <1>5, <1>6, <1>7, <1>8 DEF RunsNext, AtomicJson, Processes

\* A worker evaluates only a candidate that is complete.
LEMMA EvaluatingStep ==
    ASSUME ExperimentsTypeOK, CompletedIsEarned, [RunsNext]_runVars, NEW r \in Runs,
           workers'[r] \in {"evaluating", "evaluated"}
    PROVE  artifact'[r] = "complete"
<1> DEFINE Before == workers[r] \in {"evaluating", "evaluated"}
<1>1. Before => artifact'[r] = "complete"
  BY ArtifactStep DEF CompletedIsEarned
<1>2. ASSUME NEW a \in Callers,
             \/ List(a) \/ Serve(a)
             \/ \E s \in Runs : RequestStart(a, s) \/ RequestCancel(a, s)
      PROVE  Before
  BY <1>2, ServedStep
<1>3. ASSUME NEW p \in Processes, AtomicJson(p) PROVE Before
  BY <1>3 DEF AtomicJson, Open, Fill, Rename, RenameFails, Raised, ExperimentsTypeOK, Processes
<1>4. ASSUME NEW s \in Runs, Update(s) PROVE Before
  <2>1. PICK stage \in {"materializing", "evaluating"} :
          /\ workers[s] = stage
          /\ \/ Move(s, "stopping")
             \/ stage = "materializing" /\ Move(s, "candidate")
             \/ stage = "evaluating" /\ Move(s, "evaluated")
    BY <1>4 DEF Update, After, In
  <2> QED
    BY <2>1 DEF Move, ExperimentsTypeOK
<1>5. ASSUME NEW s \in Runs,
             Boot(s) \/ Complete(s) \/ Fail(s) \/ Settle(s) \/ Exit(s) \/ Fault(s) \/ Interrupt(s)
      PROVE  Before
  BY <1>5 DEF Boot, Complete, Fail, Settle, Exit, Fault, Interrupt, End, Move, ExperimentsTypeOK
<1>6. ASSUME NEW s \in Runs, Candidate(s) PROVE artifact'[r] = "complete"
  BY <1>1, <1>6 DEF Candidate, Keeps, Move, ExperimentsTypeOK
<1>7. ASSUME NEW s \in Runs, Identify(s) PROVE artifact'[r] = "complete"
  BY <1>1, <1>7 DEF Identify, Move, ExperimentsTypeOK
<1>8. CASE RestartApi \/ UNCHANGED runVars
  BY <1>1, <1>8 DEF RestartApi, runVars, procs
<1> QED
  BY <1>1, <1>2, <1>3, <1>4, <1>5, <1>6, <1>7, <1>8 DEF RunsNext, Execute, Processes

LEMMA CompletedStep ==
    ASSUME ExperimentsTypeOK, CompletedIsEarned, [RunsNext]_runVars, ExperimentsTypeOK'
    PROVE  CompletedIsEarned'
<1>1. ASSUME NEW r \in Runs, "completed" \in {status'[r], temp'[r]}
      PROVE  artifact'[r] = "complete"
  BY <1>1, FilesStep, ArtifactStep DEF CompletedIsEarned
<1>2. ASSUME NEW p \in Processes, writes'[p].value = "completed"
      PROVE  artifact'[writes'[p].run] = "complete"
  <2>1. writes[p].value = "completed" => writes[p].run \in Runs
    BY DEF ExperimentsTypeOK, Processes, Writes, NoWrite
  <2> QED
    BY <1>2, <2>1, ValueStep, ArtifactStep DEF CompletedIsEarned
<1>3. ASSUME NEW r \in Runs, workers'[r] \in {"evaluating", "evaluated"}
      PROVE  artifact'[r] = "complete"
  BY <1>3, EvaluatingStep
<1> QED
  BY <1>1, <1>2, <1>3 DEF CompletedIsEarned

-----------------------------------------------------------------------------
(* The theorems.                                                           *)

\* execute_run, start_run, cancel_run and atomic_json keep the invariant.
THEOREM ExperimentsInvariant == RunsSpec => []ExperimentsInv
<1>1. RunsInit => ExperimentsInv
  BY DEF RunsInit, ExperimentsInv, ExperimentsTypeOK, OneExperiment, WritesOfWorkers,
         CompletedIsEarned, Contents, Places, Calls, Working, NoCall, NoWrite, NoFile,
         Exists, Writing, Processes
<1>2. ExperimentsInv /\ [RunsNext]_runVars => ExperimentsInv'
  BY TypeStep, OneExperimentStep, CompletedStep DEF ExperimentsInv
<1> QED
  BY <1>1, <1>2, PTL DEF RunsSpec

\* One worker computes at a time and holds worker.lock, whatever is started, killed
\* and started again; and what says "completed" has a whole candidate.
THEOREM ExperimentsRight == RunsSpec => []ExperimentsAreRight
<1>1. ExperimentsInv => ExperimentsAreRight
  BY DEF ExperimentsInv, ExperimentsAreRight, CompletedHasModel, CompletedIsEarned
<1> QED
  BY <1>1, ExperimentsInvariant, PTL

\* train_candidate: "refusing to overwrite immutable weights".
THEOREM WeightsAreKept == RunsSpec => WeightsStay
<1>1. ExperimentsInv /\ [RunsNext]_runVars
      => [\A r \in Runs : artifact[r] = "complete" => artifact'[r] = "complete"]_runVars
  BY ArtifactStep DEF ExperimentsInv
<1> QED
  BY <1>1, ExperimentsInvariant, PTL DEF RunsSpec, WeightsStay

=============================================================================
