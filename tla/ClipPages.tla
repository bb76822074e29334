------------------------------- MODULE ClipPages -------------------------------
(***************************************************************************)
(* Numbered pages of transcribed clips in DynamoClipStore.  A query of an  *)
(* index cannot skip rows, so a page begins behind an "anchor", the key of *)
(* the row before its first clip.  Anchors are found by reading the index  *)
(* from its start and cached for PageTtl; the scan that counts clips by    *)
(* channel, itself cached for CountTtl, leaves the anchors of all pages.   *)
(* The caches belong to one process; the index changes under it, from that *)
(* process (which drops its anchors first) and from others.                *)
(***************************************************************************)
EXTENDS Naturals, FiniteSets, SequencesExt

CONSTANTS Clips,       \* numbered in the order of the index that is paged
          Hidden,      \* rows the filters leave out: channel, quality, transcript
          Own,         \* the clips this process writes
          PageSize,
          PageTtl, CountTtl,
          Slack,       \* the longest a request takes
          MaxPage,     \* bound: pages that are asked for
          PageThreads, CountThreads   \* requests that overlap

Handlers == PageThreads \cup CountThreads

VARIABLES rows,      \* the rows of the index
          writing,   \* a change that this process has announced
          anchors,   \* page -> anchor, or None
          counts,    \* the cached count, or Uncounted
          anchorAge, countAge,
          thread,
          quiet      \* ghost: how long ago the index changed

vars == <<rows, writing, anchors, counts, anchorAge, countAge, thread, quiet>>

None == <<>>
NoChange == 0
Start == 0                       \* the anchor of the first page
AllPages == Cardinality(Clips) + 1
Uncounted == AllPages
Idle == [pc |-> "idle"]
LongQuiet(ttl) == ttl + 2 * Slack + 1

Later(n, bound) == IF n < bound THEN n + 1 ELSE n

Init ==
    /\ rows \in SUBSET Clips
    /\ writing = NoChange
    /\ anchors = None /\ counts = Uncounted
    /\ anchorAge = 0 /\ countAge = 0
    /\ thread = [t \in Handlers |-> Idle]
    /\ quiet = 0

-----------------------------------------------------------------------------
Visible == rows \ Hidden
List == SetToSortSeq(Visible, <)

Before(k) == CHOOSE j \in rows : j < k /\ \A i \in rows : i < k => i <= j

\* _build_page_anchors and the count scan: a page has an anchor when the index
\* has a visible clip to begin it with.
AnchorsThrough(page) ==
    [p \in {1} \cup {q \in 2..page : Len(List) > (q - 1) * PageSize} |->
        IF p = 1 THEN Start ELSE Before(List[(p - 1) * PageSize + 1])]

\* _collect_filtered_transcribed_from_index
From(anchor) ==
    LET behind == SetToSortSeq({k \in Visible : k > anchor}, <)
    IN  SubSeq(behind, 1, IF Len(behind) < PageSize THEN Len(behind) ELSE PageSize)

Slice(page) ==
    SubSeq(List, (page - 1) * PageSize + 1,
           IF Len(List) < page * PageSize THEN Len(List) ELSE page * PageSize)

-----------------------------------------------------------------------------
(* The index changes.                                                      *)

Change(k) ==
    /\ rows' = IF k \in rows THEN rows \ {k} ELSE rows \cup {k}
    /\ quiet' = 0
    /\ UNCHANGED <<counts, anchorAge, countAge, thread>>

ElsewhereWrites(k) ==
    /\ Change(k)
    /\ UNCHANGED <<writing, anchors>>

\* _put_state drops the anchors before it writes its rows.
Announce(k) ==
    /\ writing = NoChange
    /\ writing' = k
    /\ anchors' = None /\ anchorAge' = 0
    /\ UNCHANGED <<rows, counts, countAge, thread, quiet>>

Write ==
    /\ writing # NoChange
    /\ Change(writing) /\ writing' = NoChange
    /\ UNCHANGED anchors

-----------------------------------------------------------------------------
(* A request: a numbered page, or the counts.                              *)

\* Mutant: cached anchors never expire.
FreshForever == anchors # None

Fresh == anchors # None /\ anchorAge <= PageTtl

FreshCounts == counts # Uncounted /\ countAge <= CountTtl

Asked(t, r) == thread' = [thread EXCEPT ![t] = r]

\* The first page needs no anchor; an anchor in the cache is used as it is.
Ask(t, page) ==
    LET hit == page = 1 \/ (Fresh /\ page \in DOMAIN anchors)
        begun == [pc |-> IF hit THEN "collect" ELSE "scan", page |-> page,
                  from |-> IF page > 1 /\ hit THEN anchors[page] ELSE Start,
                  cached |-> IF ~hit /\ Fresh THEN anchors ELSE None,
                  waited |-> 0]
    IN  /\ thread[t] = Idle
        /\ Asked(t, begun)
        /\ UNCHANGED <<rows, writing, anchors, counts, anchorAge, countAge, quiet>>

Scan(t) ==
    /\ thread[t].pc = "scan"
    /\ Asked(t, [thread[t] EXCEPT !.pc = "store"] @@ [found |-> AnchorsThrough(thread[t].page)])
    /\ UNCHANGED <<rows, writing, anchors, counts, anchorAge, countAge, quiet>>

\* {**cached, **anchors}
Merged(cached, found) == found @@ cached

Store(t) ==
    LET r == thread[t]
        all == IF r.cached = None THEN r.found ELSE Merged(r.cached, r.found)
    IN  /\ r.pc = "store"
        /\ anchors' = all /\ anchorAge' = 0
        /\ Asked(t, IF r.page \in DOMAIN all
                    THEN [pc |-> "collect", page |-> r.page, from |-> all[r.page],
                          waited |-> r.waited]
                    ELSE [pc |-> "answered", page |-> r.page, clips |-> <<>>])
        /\ UNCHANGED <<rows, writing, counts, countAge, quiet>>

Collect(t) ==
    LET r == thread[t] IN
    /\ r.pc = "collect"
    /\ Asked(t, [pc |-> "answered", page |-> r.page, clips |-> From(r.from)])
    /\ UNCHANGED <<rows, writing, anchors, counts, anchorAge, countAge, quiet>>

\* transcribed_channel_counts
AskCounts(t) ==
    /\ thread[t] = Idle
    /\ Asked(t, IF FreshCounts THEN [pc |-> "counted", count |-> counts]
                ELSE [pc |-> "count", waited |-> 0])
    /\ UNCHANGED <<rows, writing, anchors, counts, anchorAge, countAge, quiet>>

Count(t) ==
    /\ thread[t].pc = "count"
    /\ Asked(t, [pc |-> "keep", count |-> Len(List), found |-> AnchorsThrough(AllPages),
                 waited |-> thread[t].waited])
    /\ UNCHANGED <<rows, writing, anchors, counts, anchorAge, countAge, quiet>>

Keep(t) ==
    LET r == thread[t] IN
    /\ r.pc = "keep"
    /\ counts' = r.count /\ countAge' = 0
    /\ anchors' = r.found /\ anchorAge' = 0
    /\ Asked(t, [pc |-> "counted", count |-> r.count])
    /\ UNCHANGED <<rows, writing, quiet>>

Answered(t) ==
    /\ thread[t].pc \in {"answered", "counted"}
    /\ Asked(t, Idle)
    /\ UNCHANGED <<rows, writing, anchors, counts, anchorAge, countAge, quiet>>

-----------------------------------------------------------------------------
Done == {"answered", "counted"}

Tick ==
    /\ \A t \in Handlers : thread[t] # Idle => thread[t].pc \notin Done /\ thread[t].waited < Slack
    /\ thread' = [t \in Handlers |-> IF thread[t] = Idle THEN Idle
                                    ELSE [thread[t] EXCEPT !.waited = @ + 1]]
    /\ anchorAge' = IF anchors = None THEN 0 ELSE Later(anchorAge, PageTtl + 1)
    /\ countAge' = IF counts = Uncounted THEN 0 ELSE Later(countAge, CountTtl + 1)
    /\ quiet' = Later(quiet, LongQuiet(CountTtl))
    /\ UNCHANGED <<rows, writing, anchors, counts>>

Next ==
    \/ \E k \in Clips : ElsewhereWrites(k)
    \/ \E k \in Own : Announce(k)
    \/ Write
    \/ \E t \in PageThreads : (\E page \in 1..MaxPage : Ask(t, page)) \/ Scan(t) \/ Store(t) \/ Collect(t)
    \/ \E t \in CountThreads : AskCounts(t) \/ Count(t) \/ Keep(t)
    \/ \E t \in Handlers : Answered(t)
    \/ Tick

-----------------------------------------------------------------------------
\* Once the index has been at rest for longer than a cache entry lives and a
\* request takes twice over, every page there is holds exactly its clips, and the counts are
\* right, however the requests overlapped and however often cached anchors were
\* merged with new ones and kept alive by that.
ExactWhenQuiet ==
    \A t \in Handlers :
        /\ thread[t].pc = "answered" /\ quiet >= LongQuiet(PageTtl) =>
               Slice(thread[t].page) \in {<<>>, thread[t].clips}
        /\ thread[t].pc = "counted" /\ quiet >= LongQuiet(CountTtl) =>
               thread[t].count = Len(List)
=============================================================================
