----------------------------- MODULE AsrExperiments -----------------------------
(***************************************************************************)
(* Training experiments (src/src/talkingboats/asr_experiments.py): the     *)
(* API starts, cancels and lists runs; each run is a unit of the service   *)
(* manager with one worker; they share a directory per run with            *)
(* status.json, a cancel file and the candidate model, and worker.lock     *)
(* among all runs.                                                         *)
(*                                                                         *)
(* Everyone writes status.json by atomic_json, through one temporary file  *)
(* of a fixed name: it is opened (and truncated), filled, and renamed.  A  *)
(* rename carries along the file that others may have open.                *)
(***************************************************************************)
EXTENDS Naturals, FiniteSets

CONSTANTS
    Runs,           \* runs, by the fingerprint of dataset and configuration
    Callers,        \* threads of the API that serve the experiments at once
    MaxHistory,     \* runs kept
    MaxRequests,    \* bound: starts and cancellations requested
    MaxStops        \* bound: signals, kills and restarts

VARIABLES
    status,     \* status.json of every run: what it says, or NoFile
    temp,       \* status.pending of every run
    cancel,     \* the runs with a cancel file
    artifact,   \* the candidate of every run: "none", "partial", "complete"
    workerLock, \* worker.lock: the run whose worker holds it, if any
    workers,    \* where the worker of every run is; "stopped" without one
    calls,      \* the requests being served
    writes,     \* the atomic_json every process is in, or NoWrite
    requests,   \* starts and cancellations requested so far
    stops       \* signals, kills and restarts so far

files == <<status, temp, cancel, artifact>>
procs == <<workerLock, workers, calls, writes>>
runVars  == <<files, procs, requests, stops>>

Active      == {"queued", "running", "cancelling"}
Restartable == {"failed", "interrupted", "cancelled"}
Statuses    == Active \cup Restartable \cup {"completed"}

\* A file may be empty, or hold the tail of a longer text after a shorter one.
Contents == Statuses \cup {"empty", "torn"}

NoFile == "none"

NoCall == [kind |-> "list", run |-> "none", pc |-> "idle", todo |-> {}]

\* What a process in atomic_json writes where, what it does next, and which file
\* it has open: none yet, the temporary one, what that was renamed to, or one that
\* was replaced.
NoWrite == [run |-> "none", value |-> "none", next |-> "none", file |-> "none"]

Writing(p) == writes[p].next # "none"

RunsInit ==
    /\ status = [r \in Runs |-> NoFile]
    /\ temp = [r \in Runs |-> NoFile]
    /\ cancel = {}
    /\ artifact = [r \in Runs |-> "none"]
    /\ workerLock = {}
    /\ workers = [r \in Runs |-> "stopped"]
    /\ calls = [a \in Callers |-> NoCall]
    /\ writes = [p \in Callers \cup Runs |-> NoWrite]
    /\ requests = 0
    /\ stops = 0

\* A signal, a kill, a restart or a failure of the service manager.
Trouble == stops < MaxStops /\ stops' = stops + 1

Exists(r) == status[r] # NoFile
Readable(r) == status[r] \in Statuses

-----------------------------------------------------------------------------
(* atomic_json.  A process that is in it does nothing else until it is     *)
(* through; where it goes on is set when it enters.                        *)

StartWrite(p, r, value) ==
    writes' = [writes EXCEPT ![p] = [run |-> r, value |-> value,
                                     next |-> "open", file |-> "none"]]

\* Opens and truncates status.pending.
Open(p) ==
    LET w == writes[p]
    IN  /\ w.next = "open"
        /\ temp' = [temp EXCEPT ![w.run] = "empty"]
        /\ writes' = [writes EXCEPT ![p].next = "fill", ![p].file = "temp"]
        /\ UNCHANGED <<status, cancel, artifact, workerLock, workers, calls,
                       requests, stops>>

\* A text over another leaves the other's tail when it is shorter.
Over(old, value) == IF old = "empty" THEN {value} ELSE {value, "torn"}

Fill(p) ==
    LET w == writes[p]
    IN  /\ w.next = "fill"
        /\ writes' = [writes EXCEPT ![p].next = "rename"]
        /\ \/ /\ w.file = "temp"
              /\ \E text \in Over(temp[w.run], w.value) :
                    temp' = [temp EXCEPT ![w.run] = text]
              /\ UNCHANGED status
           \/ /\ w.file = "status"
              /\ \E text \in Over(status[w.run], w.value) :
                    status' = [status EXCEPT ![w.run] = text]
              /\ UNCHANGED temp
           \/ w.file = "gone" /\ UNCHANGED <<status, temp>>
        /\ UNCHANGED <<cancel, artifact, workerLock, workers, calls, requests, stops>>

\* The open files of others move with the rename, or are replaced by it.
Carried(file) == CASE file = "temp"   -> "status"
                   [] file = "status" -> "gone"
                   [] OTHER           -> file

Rename(p) ==
    LET r == writes[p].run
    IN  /\ writes[p].next = "rename" /\ temp[r] # NoFile
        /\ status' = [status EXCEPT ![r] = temp[r]]
        /\ temp' = [temp EXCEPT ![r] = NoFile]
        /\ writes' = [q \in DOMAIN writes |->
                        IF q = p THEN NoWrite
                        ELSE IF writes[q].run # r THEN writes[q]
                        ELSE [writes[q] EXCEPT !.file = Carried(@)]]
        /\ UNCHANGED <<cancel, artifact, workerLock, workers, calls, requests, stops>>

\* An exception in a worker: handled within the try, or the end of the worker.
Raised(r) == IF workers[r] = "exit" THEN "stopped" ELSE "failing"

Released(r) == workerLock \ {r}

\* Another writer has renamed the file away: FileNotFoundError.
RenameFails(p) ==
    /\ writes[p].next = "rename" /\ temp[writes[p].run] = NoFile
    /\ writes' = [writes EXCEPT ![p] = NoWrite]
    /\ IF p \in Callers
       THEN calls' = [calls EXCEPT ![p] = NoCall] /\ UNCHANGED <<workerLock, workers>>
       ELSE /\ workers' = [workers EXCEPT ![p] = Raised(p)]
            /\ workerLock' = IF Raised(p) = "stopped" THEN Released(p) ELSE workerLock
            /\ UNCHANGED calls
    /\ UNCHANGED <<files, requests, stops>>

AtomicJson(p) == Open(p) \/ Fill(p) \/ Rename(p) \/ RenameFails(p)

-----------------------------------------------------------------------------
(* list_runs, alone or at the beginning of start_run.  A request reads as  *)
(* it begins; one that only reads, or raises then, is left out.            *)

At(a, pc) == calls[a].pc = pc /\ ~Writing(a)

BeginCall(a, kind, r, pc, todo) ==
    /\ At(a, "idle")
    /\ calls' = [calls EXCEPT ![a] = [kind |-> kind, run |-> r, pc |-> pc,
                                      todo |-> todo]]
    /\ UNCHANGED <<files, workerLock, workers, writes, stops>>

GoOn(a, pc) == calls' = [calls EXCEPT ![a].pc = pc]
Answer(a)   == calls' = [calls EXCEPT ![a] = NoCall]

ActiveRows == {r \in Runs : status[r] \in Active}

\* All rows are read first, and one that cannot be parsed fails the call.
AllReadable == \A r \in Runs : Exists(r) => Readable(r)

List(a) ==
    /\ AllReadable
    /\ ActiveRows # {}
    /\ BeginCall(a, "list", "none", "show", ActiveRows)
    /\ UNCHANGED requests

Request == requests < MaxRequests /\ requests' = requests + 1

RequestStart(a, r) ==
    /\ Request
    /\ AllReadable
    /\ BeginCall(a, "start", r, "show", ActiveRows)

\* For one row after another: its unit is stopped, and the row is written as
\* interrupted; or it is not, or the service manager does not answer.
Show(a) ==
    /\ At(a, "show")
    /\ \E r \in calls[a].todo :
          /\ calls' = [calls EXCEPT ![a].todo = @ \ {r}]
          /\ \/ /\ workers[r] = "stopped"
                /\ StartWrite(a, r, "interrupted")
                /\ UNCHANGED stops
             \/ workers[r] # "stopped" /\ UNCHANGED <<writes, stops>>
             \/ workers[r] = "stopped" /\ Trouble /\ UNCHANGED writes
    /\ UNCHANGED <<files, workerLock, workers, requests>>

Listed(a) ==
    /\ At(a, "show")
    /\ calls[a].todo = {}
    /\ calls[a].kind = "list"
    /\ Answer(a)
    /\ UNCHANGED <<files, workerLock, workers, writes, requests, stops>>

-----------------------------------------------------------------------------
(* start_run, after its list, and cancel_run.                              *)

\* A row that is not restartable, or cannot be parsed, ends the call.
Reusable(r) == Exists(r) /\ status[r] \notin Restartable

HistoryFull(r) ==
    ~Exists(r) /\ Cardinality({s \in Runs : Exists(s)}) >= MaxHistory

Reuse(a) ==
    LET r == calls[a].run
    IN  /\ At(a, "show") /\ calls[a].kind = "start" /\ calls[a].todo = {}
        /\ IF Reusable(r) \/ HistoryFull(r)
           THEN Answer(a) /\ UNCHANGED writes
           ELSE GoOn(a, "unlink") /\ StartWrite(a, r, "queued")
        /\ UNCHANGED <<files, workerLock, workers, requests, stops>>

Unlink(a) ==
    /\ At(a, "unlink")
    /\ cancel' = cancel \ {calls[a].run}
    /\ GoOn(a, "launch")
    /\ UNCHANGED <<status, temp, artifact, workerLock, workers, writes, requests, stops>>

\* systemctl start does nothing for a unit that is active.
Launch(a) ==
    LET r == calls[a].run
    IN  /\ At(a, "launch")
        /\ workers' = IF workers[r] = "stopped"
                      THEN [workers EXCEPT ![r] = "boot"] ELSE workers
        /\ Answer(a)
        /\ UNCHANGED <<files, workerLock, writes, requests, stops>>

LaunchFails(a) ==
    /\ At(a, "launch")
    /\ Trouble
    /\ StartWrite(a, calls[a].run, "failed")
    /\ Answer(a)
    /\ UNCHANGED <<files, workerLock, workers, requests>>

\* The row is read, and is neither missing, unreadable nor settled for good.
RequestCancel(a, r) ==
    /\ Request
    /\ status[r] \in Active \cup {"interrupted"}
    /\ BeginCall(a, "cancel", r, "touch", {})

Touch(a) ==
    LET r == calls[a].run
    IN  /\ At(a, "touch")
        /\ cancel' = cancel \cup {r}
        /\ StartWrite(a, r, "cancelling")
        /\ Answer(a)
        /\ UNCHANGED <<status, temp, artifact, workerLock, workers, requests, stops>>

Serve(a) ==
    \/ Show(a) \/ Listed(a) \/ Reuse(a)
    \/ Unlink(a) \/ Launch(a) \/ LaunchFails(a) \/ Touch(a)

-----------------------------------------------------------------------------
(* execute_run.  A worker passes through the stages, announcing each with  *)
(* update; every way out ends in one last atomic_json.                     *)

In(r, pc) == workers[r] = pc /\ ~Writing(r)

Move(r, pc) == workers' = [workers EXCEPT ![r] = pc]

\* The last write.
End(r, value) == StartWrite(r, r, value) /\ Move(r, "exit")

Locked == workerLock # {}

\* The row is read, and the lock is taken; an unreadable row ends the worker,
\* and so does "another local experiment is running".
Boot(r) ==
    /\ In(r, "boot")
    /\ \/ /\ Readable(r) /\ ~Locked
          /\ workerLock' = {r} /\ Move(r, "materializing") /\ UNCHANGED writes
       \/ /\ ~Readable(r)
          /\ Move(r, "stopped") /\ UNCHANGED <<workerLock, writes>>
       \/ /\ Readable(r) /\ Locked
          /\ End(r, "failed") /\ UNCHANGED workerLock
    /\ UNCHANGED <<files, calls, requests, stops>>

\* update(stage), and what follows the last announcement of the stage: there
\* is one for all that precede the training, and one for all that follow.
After == [materializing |-> "candidate", evaluating |-> "evaluated"]

Update(r) ==
    \E stage \in DOMAIN After :
        /\ In(r, stage)
        /\ IF r \in cancel
           THEN Move(r, "stopping") /\ UNCHANGED writes
           ELSE Move(r, After[stage]) /\ StartWrite(r, r, "running")
        /\ UNCHANGED <<files, workerLock, calls, requests, stops>>

\* Mutant: a candidate without its identity is taken for complete.
KeepsAny(r) == artifact[r] # "none"

Keeps(r) == artifact[r] = "complete"

\* Mutant: training starts over whatever is there.
UntrainedAnyway(r) == TRUE

Untrained(r) == artifact[r] = "none"

\* train_candidate: an earlier candidate is kept or refused, or else, trained
\* and merged, the converter begins to write one; its identity follows.
Candidate(r) ==
    /\ In(r, "candidate")
    /\ \/ Keeps(r) /\ Move(r, "evaluating") /\ UNCHANGED artifact
       \/ /\ ~Keeps(r) /\ artifact[r] = "partial"
          /\ Move(r, "failing") /\ UNCHANGED artifact
       \/ /\ Untrained(r)
          /\ artifact' = [artifact EXCEPT ![r] = "partial"]
          /\ Move(r, "converting")
    /\ UNCHANGED <<status, temp, cancel, workerLock, calls, writes, requests, stops>>

Identify(r) ==
    /\ In(r, "converting")
    /\ artifact' = [artifact EXCEPT ![r] = "complete"]
    /\ Move(r, "evaluating")
    /\ UNCHANGED <<status, temp, cancel, workerLock, calls, writes, requests, stops>>

Complete(r) ==
    /\ In(r, "evaluated")
    /\ End(r, "completed")
    /\ UNCHANGED <<files, workerLock, calls, requests, stops>>

Working == {"materializing", "candidate", "converting", "evaluating", "evaluated"}

\* Anything that is raised while working: a download, ffmpeg, the trainer.
Fault(r) ==
    /\ workers[r] \in Working /\ ~Writing(r)
    /\ Trouble
    /\ Move(r, "failing")
    /\ UNCHANGED <<files, workerLock, calls, writes, requests>>

Fail(r) ==
    /\ In(r, "failing")
    /\ End(r, "failed")
    /\ UNCHANGED <<files, workerLock, calls, requests, stops>>

\* The time budget, the unit's time limit or an operator: InterruptedError is
\* raised wherever the worker is, within atomic_json too.  Outside of the try,
\* or killed (out of memory, or of the time to stop in), the worker is gone.
Interrupt(r) ==
    /\ workers[r] # "stopped"
    /\ Trouble
    /\ writes' = [writes EXCEPT ![r] = NoWrite]
    /\ \/ workers[r] \in Working /\ Move(r, "stopping") /\ UNCHANGED workerLock
       \/ Move(r, "stopped") /\ workerLock' = Released(r)
    /\ UNCHANGED <<files, calls, requests>>

Settle(r) ==
    /\ In(r, "stopping")
    /\ End(r, IF r \in cancel THEN "cancelled" ELSE "interrupted")
    /\ UNCHANGED <<files, workerLock, calls, requests, stops>>

Exit(r) ==
    /\ In(r, "exit")
    /\ Move(r, "stopped")
    /\ workerLock' = Released(r)
    /\ UNCHANGED <<files, calls, writes, requests, stops>>

\* A restart of the API ends its calls and leaves the units alone.
RestartApi ==
    /\ Trouble
    /\ calls' = [a \in Callers |-> NoCall]
    /\ writes' = [p \in DOMAIN writes |-> IF p \in Callers THEN NoWrite ELSE writes[p]]
    /\ UNCHANGED <<files, workerLock, workers, requests>>

Execute(r) ==
    \/ Boot(r) \/ Update(r) \/ Candidate(r) \/ Identify(r)
    \/ Complete(r) \/ Fail(r) \/ Settle(r) \/ Exit(r)

RunsNext ==
    \/ \E a \in Callers :
          \/ List(a) \/ Serve(a)
          \/ \E r \in Runs : RequestStart(a, r) \/ RequestCancel(a, r)
    \/ \E p \in Callers \cup Runs : AtomicJson(p)
    \/ \E r \in Runs : Execute(r) \/ Fault(r) \/ Interrupt(r)
    \/ RestartApi

RunsSpec == RunsInit /\ [][RunsNext]_runVars

-----------------------------------------------------------------------------
(* Properties.                                                             *)

\* Every variable has the shape the code gives it, and a file that a process has
\* open is there.
Places == Working \cup {"stopped", "boot", "stopping", "failing", "exit"}

Calls ==
    [kind : {"list"}, run : {"none"}, pc : {"idle", "show"}, todo : SUBSET Runs]
    \cup [kind : {"start", "cancel"}, run : Runs, todo : SUBSET Runs,
          pc : {"show", "unlink", "launch", "touch"}]

Writes == [run : Runs, value : Statuses, next : {"open", "fill", "rename"},
           file : {"none", "temp", "status", "gone"}]

ExperimentsTypeOK ==
    /\ status \in [Runs -> Contents \cup {NoFile}]
    /\ temp \in [Runs -> Contents \cup {NoFile}]
    /\ cancel \subseteq Runs
    /\ artifact \in [Runs -> {"none", "partial", "complete"}]
    /\ workerLock \subseteq Runs
    /\ workers \in [Runs -> Places]
    /\ calls \in [Callers -> Calls]
    /\ writes \in [Callers \cup Runs -> Writes \cup {NoWrite}]
    /\ \A p \in Callers \cup Runs :
          /\ writes[p].file = "temp" => temp[writes[p].run] # NoFile
          /\ writes[p].file = "status" => Exists(writes[p].run)
    /\ requests \in Nat
    /\ stops \in Nat

\* At most one experiment computes on the machine, and it is the one that
\* holds the lock, whatever units are started, killed and started again.
OneExperiment ==
    \A r \in Runs : workers[r] \in Working \cup {"stopping", "failing"} => workerLock = {r}

\* Where a run says "completed", its candidate is whole, whatever was killed
\* during an earlier conversion.
CompletedHasModel ==
    \A r \in Runs : "completed" \in {status[r], temp[r]} => artifact[r] = "complete"

\* What is asked of the experiments in every state.
ExperimentsAreRight == ExperimentsTypeOK /\ OneExperiment /\ CompletedHasModel

\* "refusing to overwrite immutable weights": retries never touch a candidate
\* that was identified.
WeightsStay ==
    [][\A r \in Runs : artifact[r] = "complete" => artifact'[r] = "complete"]_runVars

\* "unchanged requests reuse completed runs" (docs/asr-feedback.md): a run
\* that completed stays completed.
CompletedStays ==
    [][\A r \in Runs : status[r] = "completed" => status'[r] = "completed"]_runVars
=============================================================================
