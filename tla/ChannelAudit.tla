------------------------------ MODULE ChannelAudit ------------------------------
(***************************************************************************)
(* channel_audit.py: which channels are worth transcribing.  The audit     *)
(* counts the audio of a week by channel, from the objects in the bucket   *)
(* and their state items, with a checkpoint after each page; the benchmark *)
(* transcribes samples of it, with a checkpoint after each.  An operator   *)
(* runs one of them at a time; both may be stopped anywhere and are run    *)
(* again, while clips still arrive and are transcribed.                    *)
(***************************************************************************)
EXTENDS Integers, Sequences, FiniteSets, FiniteSetsExt

CONSTANTS Clips, Channels,
          ChannelOf, WeekOf, Seconds,   \* of each clip
          Suitable,             \* the clips of 1 to 60 s, which may be samples
          PageSize,             \* 100 in the code
          Capacity,             \* units that a week's audit may read, 30000 in the code
          Attempts,             \* at a page that is read in parts, 6 in the code
          MaxProbes,            \* clips without a duration, 100 in the code
          MaxRuns, MaxWeek      \* bounds

\* A state item is the duration it has, 0 if it has none, or NoItem.
VARIABLES week,        \* the week that ended last
          bucket,      \* the clips whose objects are there
          items,       \* the state item of each clip
          checkpoint,  \* metadata-checkpoint.json: [week, states, capacity], or None
          inventory,   \* inventory.json: [listed], None or Torn
          output,      \* the selection: [listed, seconds, benchmark], None or Torn
          bench,       \* benchmark-checkpoint.json: [counts, completed], None or Torn
          run,         \* the tool that runs
          spent,       \* ghost: the units really read for each week
          runs         \* and the runs that read them

vars == <<week, bucket, items, checkpoint, inventory, output, bench, run, spent, runs>>

None == [none |-> TRUE]
Torn == [torn |-> TRUE]
NoItem == -1
Idle == [pc |-> "idle"]
Whole(file) == file \notin {None, Torn}

Init ==
    /\ week = 1 /\ bucket = {} /\ items = [c \in Clips |-> NoItem]
    /\ checkpoint = None /\ inventory = None
    /\ output = None /\ bench = None /\ run = Idle
    /\ spent = [w \in 1 .. MaxWeek |-> 0] /\ runs = [w \in 1 .. MaxWeek |-> 0]

-----------------------------------------------------------------------------
\* Clips are uploaded, late ones too, and transcribed.
Arrive(c) ==
    /\ c \notin bucket /\ WeekOf[c] <= week /\ bucket' = bucket \cup {c}
    /\ UNCHANGED <<week, items, checkpoint, inventory, output, bench, run, spent, runs>>

ItemChanges(c) ==
    /\ c \in bucket
    /\ \/ items[c] = NoItem /\ items' = [items EXCEPT ![c] = 0]
       \/ items[c] = 0 /\ items' = [items EXCEPT ![c] = Seconds[c]]
    /\ UNCHANGED <<week, bucket, checkpoint, inventory, output, bench, run, spent, runs>>

NextWeek ==
    /\ week < MaxWeek /\ week' = week + 1
    /\ UNCHANGED <<bucket, items, checkpoint, inventory, output, bench, run, spent, runs>>

-----------------------------------------------------------------------------
\* audit: the objects of the week are listed, and the checkpoint of the same week
\* says which items were read before.
States == IF checkpoint # None /\ checkpoint.week = week
          THEN checkpoint ELSE [week |-> week, states |-> <<>>, capacity |-> 0]

Audit ==
    /\ run = Idle /\ runs[week] < MaxRuns
    /\ runs' = [runs EXCEPT ![week] = @ + 1]
    /\ LET listed == {c \in bucket : WeekOf[c] = week} IN
       run' = [pc |-> "read", known |-> States, listed |-> listed,
               todo |-> listed \ DOMAIN States.states, page |-> {}, tries |-> 0]
    /\ UNCHANGED <<week, bucket, items, checkpoint, inventory, output, bench, spent>>

NextPage ==
    /\ run.pc = "read" /\ run.page = {} /\ run.todo # {}
    /\ \E page \in kSubset(Min({PageSize, Cardinality(run.todo)}), run.todo) :
          run' = [run EXCEPT !.page = page, !.todo = @ \ page, !.tries = 0]
    /\ UNCHANGED <<week, bucket, items, checkpoint, inventory, output, bench, spent, runs>>

\* batch_get_item reads a part of the page, the rest is asked for again; a clip without
\* an item is not in the answer.
Read(part) ==
    LET capacity == run.known.capacity + Cardinality(part)
        found == [c \in {c \in part : items[c] # NoItem} |-> items[c]]
        old == run.known.states
        states == [c \in DOMAIN old \cup DOMAIN found |->
                      IF c \in DOMAIN found THEN found[c] ELSE old[c]] IN
    /\ run.pc = "read" /\ part # {} /\ part \subseteq run.page
    /\ spent' = [spent EXCEPT ![run.known.week] = @ + Cardinality(part)]
    /\ run' = IF capacity > Capacity THEN Idle
              ELSE [run EXCEPT !.pc = "save", !.page = @ \ part, !.tries = @ + 1,
                               !.known = [@ EXCEPT !.states = states, !.capacity = capacity]]
    /\ UNCHANGED <<week, bucket, items, checkpoint, inventory, output, bench, runs>>

\* The checkpoint is replaced as a whole.
Save ==
    /\ run.pc = "save"
    /\ checkpoint' = run.known
    /\ run' = IF run.page # {} /\ run.tries >= Attempts THEN Idle
              ELSE [run EXCEPT !.pc = "read"]
    /\ UNCHANGED <<week, bucket, items, inventory, output, bench, spent, runs>>

\* The durations that are missing are found by downloading the clips.
Missing(c) == c \notin DOMAIN run.known.states \/ run.known.states[c] <= 0
Duration(c) == IF Missing(c) THEN Seconds[c] ELSE run.known.states[c]

Count ==
    /\ run.pc = "read" /\ run.page = {} /\ run.todo = {}
    /\ run' = IF Cardinality({c \in run.listed : Missing(c)}) > MaxProbes THEN Idle
              ELSE [pc |-> "list", file |->
                       [listed |-> run.listed, benchmark |-> None,
                        seconds |-> [ch \in Channels |->
                            MapThenSumSet(Duration, {c \in run.listed : ChannelOf[c] = ch})]]]
    /\ UNCHANGED <<week, bucket, items, checkpoint, inventory, output, bench, spent, runs>>

\* The inventory and then the selection are written in place.
List ==
    /\ run.pc = "list" /\ inventory' = [listed |-> run.file.listed]
    /\ run' = [run EXCEPT !.pc = "write"]
    /\ UNCHANGED <<week, bucket, items, checkpoint, output, bench, spent, runs>>

Write ==
    /\ run.pc = "write" /\ output' = run.file /\ run' = Idle
    /\ UNCHANGED <<week, bucket, items, checkpoint, inventory, bench, spent, runs>>

-----------------------------------------------------------------------------
\* benchmark: the samples that the checkpoint does not have are transcribed.
Benchmark ==
    /\ run = Idle /\ Whole(output) /\ Whole(inventory) /\ bench # Torn
    /\ inventory.listed \cap Suitable # {}
    /\ run' = [pc |-> "measure", file |-> output,
               samples |-> inventory.listed \cap Suitable,
               bench |-> IF bench = None
                         THEN [counts |-> [c \in Clips |-> 0], completed |-> {}] ELSE bench]
    /\ UNCHANGED <<week, bucket, items, checkpoint, inventory, output, bench, spent, runs>>

Measure(c) ==
    /\ run.pc = "measure" /\ c \in run.samples \ run.bench.completed
    /\ run' = [run EXCEPT !.pc = "note", !.bench =
                  [counts |-> [@.counts EXCEPT ![c] = @ + 1],
                   completed |-> @.completed \cup {c}]]
    /\ UNCHANGED <<week, bucket, items, checkpoint, inventory, output, bench, spent, runs>>

Note ==
    /\ run.pc = "note" /\ bench' = run.bench /\ run' = [run EXCEPT !.pc = "measure"]
    /\ UNCHANGED <<week, bucket, items, checkpoint, inventory, output, spent, runs>>

\* The capacity checks need a sample of every channel.
Measured(ch) == \E c \in run.bench.completed : ChannelOf[c] = ch

Check ==
    /\ run.pc = "measure" /\ run.samples \subseteq run.bench.completed
    /\ run' = IF \A ch \in Channels : Measured(ch)
              THEN [pc |-> "write", file |->
                       [run.file EXCEPT !.benchmark = [counts |-> run.bench.counts]]]
              ELSE Idle
    /\ UNCHANGED <<week, bucket, items, checkpoint, inventory, output, bench, spent, runs>>

-----------------------------------------------------------------------------
\* The tool is stopped, or a request fails; what it writes in place may be cut short.
Stopped ==
    /\ run # Idle /\ run' = Idle
    /\ inventory' \in (IF run.pc = "list" THEN {inventory, Torn} ELSE {inventory})
    /\ output' \in (IF run.pc = "write" THEN {output, Torn} ELSE {output})
    /\ bench' \in (IF run.pc = "note" THEN {bench, Torn} ELSE {bench})
    /\ UNCHANGED <<week, bucket, items, checkpoint, spent, runs>>

Next ==
    \/ \E c \in Clips : Arrive(c) \/ ItemChanges(c) \/ Measure(c)
    \/ \E part \in SUBSET Clips : Read(part)
    \/ NextWeek \/ Audit \/ NextPage \/ Save \/ Count \/ List \/ Write
    \/ Benchmark \/ Note \/ Check \/ Stopped

Spec == Init /\ [][Next]_vars

-----------------------------------------------------------------------------
\* recovery_forecast: the backlog after each hour, and when it is worked off.
Backlog(work, hour) ==
    LET after[n \in 0 .. Len(work)] ==
            IF n = 0 THEN 0 ELSE Max({0, after[n - 1] + work[n] - hour}) IN after

Recovered(work, hour) ==
    {n \in DOMAIN work : Backlog(work, hour)[n - 1] > 0 /\ Backlog(work, hour)[n] = 0}

\* The forecast is that of a queue: the backlog is what the busiest of the stretches
\* that end now has brought more than could be worked off, and it is recovered as
\* often as one stretch of backlog ends (channel_audit.py 25-59).
ForecastIsRight(works, hour) ==
    \A work \in works : \A n \in DOMAIN work :
        LET excess(k) == MapThenSumSet(LAMBDA i : work[i] - hour, k .. n) IN
        /\ Backlog(work, hour)[n] = Max({0} \cup {excess(k) : k \in 1 .. n})
        /\ n \in Recovered(work, hour) <=>
              /\ \A k \in 1 .. n : excess(k) <= 0
              /\ \E k \in 1 .. n - 1 : excess(k) > work[n] - hour

\* A selection counts every clip it lists, once, with its whole duration, however
\* often the audit was cut short and whatever was read before; the audits of a week
\* read no more than they may, but for a page of each run; and in a benchmark every
\* sample counts once, and each channel has one (channel_audit.py 82-258, 261-356).
AuditCountsOnce ==
    /\ Whole(output) => \A ch \in Channels :
          output.seconds[ch] =
              MapThenSumSet(LAMBDA c : Seconds[c], {c \in output.listed : ChannelOf[c] = ch})
    /\ \A w \in 1 .. MaxWeek : spent[w] <= Capacity + runs[w] * PageSize
    /\ Whole(bench) => \A c \in Clips :
          bench.counts[c] = IF c \in bench.completed THEN 1 ELSE 0
    /\ Whole(output) /\ output.benchmark # None => \A ch \in Channels :
          {output.benchmark.counts[c] : c \in {c \in Clips : ChannelOf[c] = ch}}
              \in {{1}, {0, 1}}
=============================================================================
