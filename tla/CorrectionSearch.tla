---------------------------- MODULE CorrectionSearch ----------------------------
(***************************************************************************)
(* Search over corrected transcripts beside the editors: a search reads    *)
(* the revision of the inventory, and loads the labels page by page into a *)
(* cache of the process when the cache is of another revision              *)
(* (corrected_search in src/src/talkingboats/feedback_search.py).          *)
(***************************************************************************)
EXTENDS ReviewedLabels

CONSTANTS
    Searchers,      \* handlers that may search at once
    MaxSearches     \* bound: searches begun

ASSUME SearchersAssumption == None \notin Searchers /\ MaxSearches \in Nat

VARIABLES
    cache,      \* _CACHE: the labels and the revision they are kept for, or None
    lock,       \* _LOCK: the searcher that holds it, or None
    searchers,  \* the searches in hand
    searches    \* searches begun so far

search == <<cache, lock, searchers, searches>>

\* Labels as a search sees them: the revision of every clip, 0 without a label.
Labels == [Clips -> Nat]

Current  == [c \in Clips |-> RevisionOf(heads[c])]
Nothing  == [c \in Clips |-> 0]

\* A search in hand: "since" is what was in the table when it began.
Searches == [pc : {"idle", "lock", "load", "found"}, revision : Nat,
             labels : Labels, left : SUBSET Clips, since : Labels]

NoSearch == [pc |-> "idle", revision |-> 0, labels |-> Nothing, left |-> {},
             since |-> Nothing]

SearchInit ==
    /\ Init
    /\ cache = None
    /\ lock = None
    /\ searchers = [s \in Searchers |-> NoSearch]
    /\ searches = 0

-----------------------------------------------------------------------------
Begin(s) ==
    /\ searchers[s].pc = "idle"
    /\ searches < MaxSearches
    /\ searches' = searches + 1
    /\ searchers' = [searchers EXCEPT
                       ![s] = [NoSearch EXCEPT !.pc = "lock", !.revision = total,
                                               !.since = Current]]
    /\ UNCHANGED <<vars, cache, lock>>

\* Mutant: what is cached is used whatever its revision.
CachedAnyway(revision) == cache # None

Cached(revision) == cache # None /\ cache.revision = revision

\* With the lock held: a hit, or else the labels are loaded.
UseCache(s) ==
    /\ searchers[s].pc = "lock"
    /\ lock = None
    /\ Cached(searchers[s].revision)
    /\ searchers' = [searchers EXCEPT ![s].pc = "found",
                                      ![s].labels = cache.labels]
    /\ UNCHANGED <<vars, cache, lock, searches>>

StartLoading(s) ==
    /\ searchers[s].pc = "lock"
    /\ lock = None
    /\ ~Cached(searchers[s].revision)
    /\ lock' = s
    /\ searchers' = [searchers EXCEPT ![s].pc = "load", ![s].left = Clips]
    /\ UNCHANGED <<vars, cache, searches>>

\* Corrections.list, a page at a time.
LoadPage(s) ==
    /\ searchers[s].pc = "load"
    /\ \E c \in searchers[s].left :
          searchers' = [searchers EXCEPT ![s].labels[c] = RevisionOf(heads[c]),
                                         ![s].left = @ \ {c}]
    /\ UNCHANGED <<vars, cache, lock, searches>>

Loaded(s) ==
    /\ searchers[s].pc = "load"
    /\ searchers[s].left = {}
    /\ lock' = None

Within(labels) == Cardinality({c \in Clips : labels[c] > 0}) <= MaxLabels

Store(s) ==
    /\ Loaded(s)
    /\ Within(searchers[s].labels)
    /\ cache' = [revision |-> searchers[s].revision, labels |-> searchers[s].labels]
    /\ searchers' = [searchers EXCEPT ![s].pc = "found"]
    /\ UNCHANGED <<vars, searches>>

\* "correction inventory exceeds storage bound" is raised through the lock.
Overflow(s) ==
    /\ Loaded(s)
    /\ ~Within(searchers[s].labels)
    /\ searchers' = [searchers EXCEPT ![s] = NoSearch]
    /\ UNCHANGED <<vars, cache, searches>>

Finish(s) ==
    /\ searchers[s].pc = "found"
    /\ searchers' = [searchers EXCEPT ![s] = NoSearch]
    /\ UNCHANGED <<vars, cache, lock, searches>>

\* The process that is restarted is the one that holds the cache.
RestartSearch ==
    /\ Restart
    /\ cache' = None
    /\ lock' = None
    /\ searchers' = [s \in Searchers |-> NoSearch]
    /\ UNCHANGED searches

SearchStep(s) ==
    \/ Begin(s) \/ UseCache(s) \/ StartLoading(s) \/ LoadPage(s)
    \/ Store(s) \/ Overflow(s) \/ Finish(s)

SearchNext ==
    \/ Work /\ UNCHANGED search
    \/ \E s \in Searchers : SearchStep(s)
    \/ RestartSearch

SearchSpec == SearchInit /\ [][SearchNext]_<<vars, search>>

-----------------------------------------------------------------------------
\* Every variable has the shape the code gives it, and the thread that loads is
\* the one that holds the lock.
SearchTypeOK ==
    /\ TypeOK
    /\ cache # None => cache \in [revision : Nat, labels : Labels]
    /\ lock \in Searchers \cup {None}
    /\ searchers \in [Searchers -> Searches]
    /\ \A s \in Searchers : searchers[s].pc = "load" <=> lock = s
    /\ searches \in 0 .. MaxSearches

\* No label of the one is older than that of the other.
AtLeast(labels, since) == \A c \in Clips : labels[c] >= since[c]

\* "Search updates on its next request": a search shows no label older than
\* what the table held when it began, however loads, edits and other searches
\* interleave and whichever revision the cache was filled for.
SearchIsCurrent ==
    \A s \in Searchers : searchers[s].pc = "found" =>
        AtLeast(searchers[s].labels, searchers[s].since)

\* A search shows no label older than what the table held when it began, and the
\* cache has at most one thread loading (feedback_search.py).
SearchesAreRight == SearchTypeOK /\ SearchIsCurrent

-----------------------------------------------------------------------------
(* The inductive invariant: a revision of the inventory stands for labels  *)
(* that are no older than what any search of that revision began with.     *)

InHand(x) == x.pc # "idle"

\* What was there when a search began is not newer than the table, is the table
\* itself while no edit was committed since, and bounds every label it loaded.
BeganWith(x) ==
    InHand(x) =>
        /\ x.revision <= total
        /\ AtLeast(Current, x.since)
        /\ x.revision = total => x.since = Current
        /\ x.pc = "load" => \A c \in Clips \ x.left : x.labels[c] >= x.since[c]
        /\ x.pc = "found" => AtLeast(x.labels, x.since)

\* Searches of one revision began with the same labels.
BeganAlike(x, y) ==
    InHand(x) /\ InHand(y) /\ x.revision = y.revision => x.since = y.since

\* The cache is of a revision there was, and as new as the table if it is of the
\* table's.
CacheIsPast ==
    cache # None => /\ cache.revision <= total
                    /\ cache.revision = total => AtLeast(cache.labels, Current)

\* A search of the cache's revision may use what is kept.
Serves(kept, x) ==
    kept # None /\ InHand(x) /\ kept.revision = x.revision =>
        AtLeast(kept.labels, x.since)

SearchInv ==
    /\ LabelsInv /\ SearchTypeOK
    /\ CacheIsPast
    /\ \A s \in Searchers : BeganWith(searchers[s]) /\ Serves(cache, searchers[s])
    /\ \A s, t \in Searchers : BeganAlike(searchers[s], searchers[t])
=============================================================================
