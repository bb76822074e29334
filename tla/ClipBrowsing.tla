------------------------------ MODULE ClipBrowsing ------------------------------
(***************************************************************************)
(* A visitor pages through /api/clips/recent of api.py.  A page is put     *)
(* together from batches of the store's list, read by offset, of the clips *)
(* whose audio is still in the bucket; where the next page begins is given *)
(* by a cursor, the last clip shown, or by an offset.  Clips are listed    *)
(* and unlisted, and their audio deleted, at any time.                     *)
(***************************************************************************)
EXTENDS Naturals, FiniteSets, SequencesExt

CONSTANTS Clips,       \* numbered in the order of the list
          Poor,        \* clips that their quality score hides
          Limit,       \* clips of a page
          BatchSize,
          MaxChanges, MaxFaults       \* bounds: for a visit by cursor and by offset

VARIABLES listed,    \* what the store lists
          audio,     \* objects in the bucket
          cached,    \* objects that playback_exists remembers
          visit,     \* the visitor
          request,   \* the page that is put together
          steady,    \* ghost: clips playable since the visit began
          moved,     \* ghost: whether the list changed during the visit: between
                     \* pages, while a page was put together
          changes, faults

vars == <<listed, audio, cached, visit, request, steady, moved, changes, faults>>

NoAnchor == 0
NoRequest == [pc |-> "none"]
Unmoved == [between |-> FALSE, grew |-> FALSE, shrank |-> FALSE]

Init ==
    /\ listed \in SUBSET Clips /\ audio \in SUBSET Clips
    /\ cached = {}
    /\ \E mode \in {"cursor", "offset"} :
          visit = [mode |-> mode, at |-> NoAnchor, page |-> 0, shown |-> <<>>, result |-> "open"]
    /\ request = NoRequest
    /\ steady = (listed \cap audio) \ Poor
    /\ moved = Unmoved
    /\ changes = 0 /\ faults = 0

-----------------------------------------------------------------------------
(* The store and the bucket.                                               *)

Changed(kind) ==
    /\ changes < MaxChanges[visit.mode] /\ changes' = changes + 1
    /\ visit.result = "open"
    /\ moved' = [moved EXCEPT ![IF request = NoRequest THEN "between" ELSE kind] = TRUE]
    /\ UNCHANGED <<cached, visit, request, faults>>

List(k) ==
    /\ k \notin listed /\ Changed("grew")
    /\ listed' = listed \cup {k}
    /\ UNCHANGED <<audio, steady>>

Unlist(k) ==
    /\ k \in listed /\ Changed("shrank")
    /\ listed' = listed \ {k} /\ steady' = steady \ {k}
    /\ UNCHANGED audio

DeleteAudio(k) ==
    /\ k \in audio
    /\ changes < MaxChanges[visit.mode] /\ changes' = changes + 1
    /\ audio' = audio \ {k}
    /\ cached' \in {cached, cached \ {k}}      \* deleted elsewhere, or by delete_playback
    /\ steady' = steady \ {k}
    /\ moved' = [moved EXCEPT !.between = TRUE]
    /\ UNCHANGED <<listed, visit, request, faults>>

\* An entry lives for PLAYBACK_EXISTS_CACHE_TTL_SECONDS.
Expire(k) ==
    /\ k \in cached /\ cached' = cached \ {k}
    /\ UNCHANGED <<listed, audio, visit, request, steady, moved, changes, faults>>

-----------------------------------------------------------------------------
(* recent_clips and _recent_playable_clip_page.                            *)

Ask ==
    /\ visit.result = "open" /\ request = NoRequest
    /\ request' = [pc |-> "query", offset |-> 0, todo |-> <<>>, last |-> FALSE,
                   pending |-> visit.at # NoAnchor,
                   skip |-> visit.page * Limit, got |-> <<>>]
    /\ UNCHANGED <<listed, audio, cached, visit, steady, moved, changes, faults>>

Anchor(got) == got[Limit]

Answer(r) ==
    /\ request' = NoRequest
    /\ visit' =
         IF r.pending THEN [visit EXCEPT !.result = "refused"]
         ELSE LET more == Len(r.got) > Limit IN
              [visit EXCEPT
                  !.shown = @ \o SubSeq(r.got, 1, IF more THEN Limit ELSE Len(r.got)),
                  !.result = IF more THEN "open" ELSE "ended",
                  !.at = IF more /\ visit.mode = "cursor" THEN Anchor(r.got) ELSE @,
                  !.page = IF more /\ visit.mode = "offset" THEN @ + 1 ELSE @]

\* The page is full, or the list is at its end.
Proceed(r) ==
    IF Len(r.got) > Limit \/ (r.todo = <<>> /\ r.last) THEN Answer(r)
    ELSE request' = [r EXCEPT !.pc = IF r.todo = <<>> THEN "query" ELSE "check"]
         /\ UNCHANGED visit

\* recent_transcribed
Query ==
    LET list == SetToSortSeq(listed, <)
        rest == SubSeq(list, request.offset + 1, Len(list))
        batch == SubSeq(rest, 1, IF Len(rest) < BatchSize THEN Len(rest) ELSE BatchSize)
    IN  /\ request.pc = "query"
        /\ Proceed([request EXCEPT !.todo = batch, !.offset = @ + Len(batch),
                                   !.last = Len(batch) < BatchSize])
        /\ UNCHANGED <<listed, audio, cached, steady, moved, changes, faults>>

Considered(k) == ~request.pending /\ k \notin Poor

AfterSkipped(k) == IF k = visit.at THEN [request EXCEPT !.pending = FALSE] ELSE request

\* One candidate: skipped until the cursor, then shown if it can be played.
Check ==
    LET k == Head(request.todo)
        rest(r) == [r EXCEPT !.todo = Tail(@)]
        playable == k \in audio \cup cached
    IN  /\ request.pc = "check"
        /\ Proceed(rest(CASE request.pending           -> AfterSkipped(k)
                          [] ~Considered(k) \/ ~playable -> request
                          [] request.skip > 0          -> [request EXCEPT !.skip = @ - 1]
                          [] OTHER                     -> [request EXCEPT !.got = Append(@, k)]))
        /\ cached' = IF Considered(k) /\ k \in audio THEN cached \cup {k} ELSE cached
        /\ UNCHANGED <<listed, audio, steady, moved, changes, faults>>

\* The bucket does not answer: 503, and the visitor asks for the page again.
CheckFails ==
    /\ request.pc = "check" /\ Considered(Head(request.todo))
    /\ Head(request.todo) \notin cached
    /\ faults < MaxFaults /\ faults' = faults + 1
    /\ request' = NoRequest
    /\ UNCHANGED <<listed, audio, cached, visit, steady, moved, changes>>

Next ==
    \/ \E k \in Clips : List(k) \/ Unlist(k) \/ DeleteAudio(k) \/ Expire(k)
    \/ Ask \/ Query \/ Check \/ CheckFails

-----------------------------------------------------------------------------
Shown == ToSet(visit.shown)

Strict(s) == \A i, j \in DOMAIN s : i < j => s[i] < s[j]

\* A visitor who comes to the end has seen every clip that could be played all
\* along: by cursor whatever is listed, unlisted or deleted between the pages,
\* and whatever is listed while a page is put together; by offset if nothing
\* changed.  Unless the list grew meanwhile, no clip was shown twice or out of order.
VisitIsComplete ==
    LET still == visit.mode = "cursor" \/ moved = Unmoved IN
    /\ visit.result = "ended" /\ still /\ ~moved.shrank => steady \subseteq Shown
    /\ still /\ ~moved.grew => Strict(visit.shown)
=============================================================================
