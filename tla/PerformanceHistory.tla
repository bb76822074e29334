-------------------------- MODULE PerformanceHistory --------------------------
(***************************************************************************)
(* PerformanceHistoryStore of live_radio_proxy.py for one host: samples in *)
(* memory, every now and then one in SQLite, and the latest payload.  The  *)
(* sampler task and, until it has a payload, requests capture in threads   *)
(* of their own: a snapshot bears the time it was taken, not the time it   *)
(* is recorded, so samples arrive late and out of order.                   *)
(***************************************************************************)
EXTENDS Integers, FiniteSets, Sequences, SequencesExt

CONSTANTS Captures,        \* threads that capture
          Sampler,         \* the background sampler's
          MemorySpan,      \* memory_history_seconds
          PersistInterval, PersistSpan,
          MaxDelay,        \* bound: how long a capture takes after its time stamp
          MaxTime,         \* bound: the clock
          MaxRestarts, MaxFaults   \* bounds

VARIABLES now,
          capture,    \* time stamp of the snapshot each thread holds, or None
          recorded,   \* threads that have left the lock and set the payload next
          samples,    \* the deque
          lastPersist,
          db,         \* persisted samples
          latest,     \* time stamp of the latest payload
          seen,       \* ghost: every sample recorded by this process
          unsaved,    \* ghost: samples whose insertion failed
          restarts, faults

vars == <<now, capture, recorded, samples, lastPersist, db, latest, seen, unsaved, restarts,
          faults>>

None == -1

Init ==
    /\ now = 0
    /\ capture = [c \in Captures |-> None] /\ recorded = {}
    /\ samples = <<>> /\ lastPersist = None
    /\ db = {} /\ latest = None
    /\ seen = {} /\ unsaved = {} /\ restarts = 0 /\ faults = 0

\* A second passes, unless a capture would take longer than it may.
Tick ==
    /\ now < MaxTime /\ now' = now + 1
    /\ \A c \in Captures : capture[c] # None => now - capture[c] < MaxDelay
    /\ UNCHANGED <<capture, recorded, samples, lastPersist, db, latest, seen, unsaved, restarts,
                   faults>>

\* The sampler's turn, or a request that finds no payload (payload_for_request).
\* Bound: nothing is captured in a second that has a recorded sample.
Collect(c) ==
    /\ capture[c] = None /\ now \notin seen
    /\ c = Sampler \/ latest = None
    /\ capture' = [capture EXCEPT ![c] = now]
    /\ UNCHANGED <<now, recorded, samples, lastPersist, db, latest, seen, unsaved, restarts,
                   faults>>

-----------------------------------------------------------------------------
\* _trim_memory_samples looks at the oldest arrival only.
Trimmed(s, cutoff) ==
    LET first == SelectInSeq(s, LAMBDA t : t >= cutoff) IN
    IF first = 0 THEN <<>> ELSE SubSeq(s, first, Len(s))

\* _persist_sample_if_due
Due(t) == lastPersist = None \/ t - lastPersist >= PersistInterval

\* Mutant: the time is noted before the insertion, which may raise.
LastAfterFaultNoted(t) == t

LastAfterFault(t) == lastPersist

Inserted(t) == {p \in db \cup {t} : p >= t - PersistSpan}

Record(c) ==
    LET t == capture[c] IN
    /\ t # None /\ c \notin recorded
    /\ samples' = Trimmed(Append(samples, t), t - MemorySpan)
    /\ seen' = seen \cup {t}
    /\ \/ /\ Due(t)
          /\ db' = Inserted(t) /\ lastPersist' = t
          /\ recorded' = recorded \cup {c}
          /\ UNCHANGED <<capture, unsaved, faults>>
       \/ /\ ~Due(t)
          /\ recorded' = recorded \cup {c}
          /\ UNCHANGED <<capture, db, lastPersist, unsaved, faults>>
       \/ /\ Due(t)                       \* SQLite raises: the capture ends
          /\ faults < MaxFaults /\ faults' = faults + 1
          /\ capture' = [capture EXCEPT ![c] = None]
          /\ unsaved' = unsaved \cup {t}
          /\ lastPersist' = LastAfterFault(t)
          /\ UNCHANGED <<recorded, db>>
    /\ UNCHANGED <<now, latest, restarts>>

\* The payload is set outside the lock.
SetLatest(c) ==
    /\ c \in recorded
    /\ latest' = capture[c]
    /\ recorded' = recorded \ {c}
    /\ capture' = [capture EXCEPT ![c] = None]
    /\ UNCHANGED <<now, samples, lastPersist, db, seen, unsaved, restarts, faults>>

\* The process starts again: only the database stays.
Restart ==
    /\ restarts < MaxRestarts /\ restarts' = restarts + 1
    /\ capture' = [c \in Captures |-> None] /\ recorded' = {}
    /\ samples' = <<>> /\ lastPersist' = None /\ latest' = None
    /\ UNCHANGED <<now, db, seen, unsaved, faults>>

-----------------------------------------------------------------------------
Newest(S) == CHOOSE t \in S : \A u \in S : u <= t

\* The history of a payload (_combined_history).
History(t) == {p \in db : p >= t - PersistSpan} \cup ToSet(samples)

\* Whatever the order samples arrive in, a restart included, the history has for
\* every sample recorded within the persisted span one that is less than the
\* interval and the delay of a capture away, unless it could not be saved.
HistoryHasNoGap ==
    seen # {} => \A t \in seen \ unsaved :
        t >= Newest(seen) - PersistSpan + PersistInterval + MaxDelay =>
            \E p \in History(Newest(seen)) :
                t - p < PersistInterval + MaxDelay /\ p - t < PersistInterval + MaxDelay

\* The table holds no more than one sample per interval of its span, and those of a
\* process that was started again meanwhile.
TableIsBounded ==
    Cardinality(db) <= (restarts + 1) * (PersistSpan \div PersistInterval + 1)
=============================================================================
