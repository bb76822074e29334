------------------------------ MODULE PublicSite ------------------------------
(***************************************************************************)
(* How the public site's generated files come about and reach production.  *)
(* Two jobs of systemd timers rebuild one output directory:                *)
(*   "fast"     scripts/refresh_public_clips.sh, every hour;               *)
(*   "lexical"  scripts/refresh_lexical_analysis.sh, every week, which     *)
(*              remembers the stages it finished under the week's run id.  *)
(* Both run publish.export_recent_clip_site and deploy_generated_public_   *)
(* assets.sh, holding the lock file outputs/.public-export.lock; the       *)
(* weekly job lets go of it while it analyses the transcripts.             *)
(***************************************************************************)
EXTENDS Integers, FiniteSets

CONSTANTS Clips,        \* a set of numbers, later clips are greater
          Unfit,        \* those whose recording is missing, or fails the quality gate
          Limit,        \* clips of an export
          MaxStops      \* bound: jobs that fail or are killed

ASSUME SiteAssumption ==
    /\ Clips \subseteq Nat /\ IsFiniteSet(Clips) /\ Unfit \subseteq Clips
    /\ Limit \in Nat \ {0} /\ MaxStops \in Nat

VARIABLES listed,    \* clips the store lists as transcribed
          out,       \* the output directory
          kept,      \* what the running export has put aside
          chosen,    \* the running export: candidates left, clips taken
          cache,     \* the operations snapshot that is kept
          prod,      \* the production bucket
          lock,      \* holder of the export lock
          pc,        \* where each job is
          marks,     \* stage markers of this week's run
          work,      \* its working directory
          previous,  \* outputs/public-site.analysis-previous
          published, \* whether production has had this week's analysis, whole
          stops,
          damaged    \* whether a job was stopped while the analysis was on the move

weekly  == <<marks, work, previous>>
vars == <<listed, out, kept, chosen, cache, prod, lock, pc, weekly, published, stops, damaged>>

Jobs == {"fast", "lexical"}

\* A generated file is known by the export that wrote it; 0 is the sample that
\* public-site/ is delivered with.
None == -1
Torn == -2
Generations == 1 .. 5
NoManifest  == [gen |-> None, clips |-> {}]
Sample      == [gen |-> 0, clips |-> {}]

\* An analysis directory is the set of its files; last week's is there at first.
LastWeek == 0
ThisWeek == 1
Whole(w) == {<<"index", w>>, <<"lexical", w>>}

NoAudio == [c \in Clips |-> "none"]
Has(dir) == {c \in Clips : dir.audio[c] # "none"}

\* artifact_release_id: the digest of everything that is deployed.
Artifacts(dir) == [analysis |-> dir.analysis, audio |-> dir.audio,
                   manifest |-> dir.manifest, recent |-> dir.recent,
                   operations |-> dir.operations]

Init ==
    /\ listed = {c \in Clips : \A d \in Clips : c <= d}
    /\ out = [analysis |-> Whole(LastWeek), audio |-> NoAudio, manifest |-> Sample,
              recent |-> None, operations |-> None]
    /\ kept = [analysis |-> {}, audio |-> NoAudio]
    /\ chosen = [next |-> 0, clips |-> {}]
    /\ cache = FALSE
    /\ prod = [analysis |-> {}, audio |-> NoAudio, manifest |-> NoManifest,
               recent |-> None, operations |-> None, release |-> {}]
    /\ lock = "free"
    /\ pc = [j \in Jobs |-> "idle"]
    /\ marks = {} /\ work = {} /\ previous = {}
    /\ published = FALSE /\ stops = 0 /\ damaged = FALSE

Goto(j, place) == pc' = [pc EXCEPT ![j] = place]

-----------------------------------------------------------------------------
\* A clip is transcribed while the jobs run.
ListClip ==
    /\ \E c \in Clips \ listed : listed' = listed \cup {c}
    /\ UNCHANGED <<out, kept, chosen, cache, prod, lock, pc, weekly, published,
                   stops, damaged>>

-----------------------------------------------------------------------------
\* export_recent_clip_site, step by step.  Every step of an export, and of a
\* deployment, belongs to the job that holds the lock.
At(j, place) == lock = j /\ pc[j] = place

Export(j, place, then) ==
    /\ At(j, place) /\ Goto(j, then)
    /\ UNCHANGED <<listed, cache, prod, lock, weekly, published, stops, damaged>>

\* Mutant: nothing that was generated is put aside.
PreserveNothing(j) ==
    /\ Export(j, "preserve", "clear")
    /\ kept' = [analysis |-> {}, audio |-> NoAudio]
    /\ UNCHANGED <<out, chosen>>

\* _preserved_output_subdir.__enter__ for both directories
Preserve(j) ==
    /\ Export(j, "preserve", "clear")
    /\ kept' = [analysis |-> out.analysis, audio |-> out.audio]
    /\ UNCHANGED <<out, chosen>>

\* rmtree of the output directory, copytree of public-site/
ClearOutput(j) ==
    /\ Export(j, "clear", "restore analysis")
    /\ out' = [analysis |-> {}, audio |-> NoAudio, manifest |-> Sample,
               recent |-> None, operations |-> None]
    /\ UNCHANGED <<kept, chosen>>

RestoreAnalysis(j) ==
    /\ Export(j, "restore analysis", "restore clips")
    /\ out' = [out EXCEPT !.analysis = kept.analysis]
    /\ UNCHANGED <<kept, chosen>>

Newest(S) == CHOOSE c \in S : \A d \in S : d <= c
Before(c) == {d \in listed : d < c}
NextOf(S) == IF S = {} THEN None ELSE Newest(S)

RestoreClips(j) ==
    /\ Export(j, "restore clips", "choose")
    /\ out' = [out EXCEPT !.audio = kept.audio]
    /\ chosen' = [next |-> NextOf(listed), clips |-> {}]
    /\ UNCHANGED kept

\* The next candidate, newest first: a file that is there is taken as it is,
\* another is downloaded, judged and copied, or skipped.
Chooses == chosen.next # None /\ Cardinality(chosen.clips) < Limit

ChooseClip(j) ==
    LET c == chosen.next
        takes == out.audio[c] # "none" \/ c \notin Unfit
    IN
    /\ Chooses
    /\ Export(j, "choose", "choose")
    /\ out' = [out EXCEPT !.audio[c] = IF takes /\ @ = "none" THEN "whole" ELSE @]
    /\ chosen' = [next |-> NextOf(Before(c)),
                  clips |-> chosen.clips \cup (IF takes THEN {c} ELSE {})]
    /\ UNCHANGED kept

\* _remove_unused_public_audio
RemoveUnused(j) ==
    /\ ~Chooses
    /\ Export(j, "choose", "manifest")
    /\ out' = [out EXCEPT !.audio = [c \in Clips |->
                  IF c \in chosen.clips THEN out.audio[c] ELSE "none"]]
    /\ UNCHANGED <<kept, chosen>>

\* generated_at: never that of a manifest that is still somewhere
NewGeneration ==
    CHOOSE g \in Generations :
        g \notin {out.manifest.gen, prod.manifest.gen, prod.recent, prod.operations}

WriteManifest(j) ==
    /\ Export(j, "manifest", "snapshot")
    /\ out' = [out EXCEPT !.manifest = [gen |-> NewGeneration, clips |-> chosen.clips]]
    /\ UNCHANGED <<kept, chosen>>

\* write_recent_clip_snapshot; then the temporary directories are removed.
WriteSnapshot(j) ==
    /\ Export(j, "snapshot", IF j = "fast" THEN "operations" ELSE "keep manifest")
    /\ out' = [out EXCEPT !.recent = out.manifest.gen]
    /\ kept' = [analysis |-> {}, audio |-> NoAudio]
    /\ chosen' = [next |-> None, clips |-> {}]

-----------------------------------------------------------------------------
\* aws_operations_snapshot.main: a fresh snapshot, one whose costs come from the
\* cache, or, when it cannot be made, the cached one as it is.
Operations ==
    /\ At("fast", "operations") /\ Goto("fast", "verify")
    /\ \/ out' = [out EXCEPT !.operations = out.manifest.gen] /\ cache' = TRUE
       \/ out' = [out EXCEPT !.operations = 0] /\ cache /\ UNCHANGED cache
    /\ UNCHANGED <<listed, kept, chosen, prod, lock, weekly, published, stops, damaged>>

\* verify_dev_generated_assets: the dev site serves the output directory, so the
\* manifest it shows is this one, the sample included.
Verify(j) ==
    /\ At(j, "verify") /\ out.manifest.gen >= 0
    /\ Goto(j, "deploy")
    /\ UNCHANGED <<listed, out, kept, chosen, cache, prod, lock, weekly, published, stops, damaged>>

-----------------------------------------------------------------------------
\* deploy_generated_public_assets.sh
Deploy(j, place, then) ==
    /\ At(j, place) /\ Goto(j, then)
    /\ UNCHANGED <<listed, out, kept, chosen, cache, lock, weekly, stops, damaged>>

\* Mutant: only the manifest has to be there.
DeployableManifest == out.manifest.gen # None

Deployable ==
    /\ out.manifest.gen # None /\ out.recent # None /\ out.operations # None
    /\ out.analysis # {}

StartDeploy(j) ==
    /\ Deployable
    /\ Deploy(j, "deploy", IF prod.release = {Artifacts(out)} THEN "invalidate" ELSE "clips")
    /\ UNCHANGED <<prod, published>>

SyncClips(j) ==
    /\ Deploy(j, "clips", "analysis")
    /\ prod' = [prod EXCEPT !.audio = out.audio]
    /\ UNCHANGED published

SyncAnalysis(j) ==
    /\ Deploy(j, "analysis", "recent")
    /\ prod' = [prod EXCEPT !.analysis = out.analysis]
    /\ published' = (published \/ out.analysis = Whole(ThisWeek))

CopyRecent(j) ==
    /\ Deploy(j, "recent", "copy operations")
    /\ prod' = [prod EXCEPT !.recent = out.recent]
    /\ UNCHANGED published

CopyOperations(j) ==
    /\ Deploy(j, "copy operations", "commit")
    /\ prod' = [prod EXCEPT !.operations = out.operations]
    /\ UNCHANGED published

\* The manifest is uploaded last, with the release in its metadata.
Commit(j) ==
    /\ Deploy(j, "commit", "invalidate")
    /\ prod' = [prod EXCEPT !.manifest = out.manifest, !.release = {Artifacts(out)}]
    /\ UNCHANGED published

Invalidate(j) ==
    /\ At(j, "invalidate")
    /\ Goto(j, IF j = "fast" THEN "idle" ELSE "done")
    /\ lock' = "free"
    /\ UNCHANGED <<listed, out, kept, chosen, cache, prod, weekly, published, stops, damaged>>

-----------------------------------------------------------------------------
\* The hourly job skips its turn when the lock is taken.
BeginFast ==
    /\ pc["fast"] = "idle" /\ lock = "free"
    /\ lock' = "fast" /\ Goto("fast", "preserve")
    /\ UNCHANGED <<listed, out, kept, chosen, cache, prod, weekly, published, stops, damaged>>

\* The weekly job.
Lexical(place, then) ==
    /\ pc["lexical"] = place /\ Goto("lexical", then)
    /\ UNCHANGED <<listed, kept, chosen, cache, prod, published, stops>>
    /\ damaged' = (damaged /\ place # "swap in")

BeginLexical ==
    /\ Lexical("idle", "export")
    /\ "refresh" \notin marks
    /\ UNCHANGED <<out, lock, marks, work, previous>>

LockForExport ==
    /\ lock = "free"
    /\ IF "export" \in marks
       THEN Lexical("export", "analyse") /\ UNCHANGED lock
       ELSE Lexical("export", "preserve") /\ lock' = "lexical"
    /\ UNCHANGED <<out, marks, work, previous>>

\* Mutant: the lock is kept through the analysis.
KeepLock ==
    /\ Lexical("keep manifest", "analyse")
    /\ marks' = marks \cup {"export"}
    /\ UNCHANGED <<out, lock, work, previous>>

\* cp of the manifest, touch of the marker, flock -u
KeepManifest ==
    /\ Lexical("keep manifest", "analyse")
    /\ marks' = marks \cup {"export"}
    /\ lock' = "free"
    /\ UNCHANGED <<out, work, previous>>

\* talkingboats-analyze-transcripts writes the index, then lexical.json.
AnalyseIndex ==
    /\ "analysis" \notin marks
    /\ Lexical("analyse", "analyse text")
    /\ work' = work \cup {<<"index", ThisWeek>>}
    /\ UNCHANGED <<out, lock, marks, previous>>

AnalyseText ==
    /\ Lexical("analyse text", "analyse")
    /\ work' = work \cup {<<"lexical", ThisWeek>>}
    /\ marks' = marks \cup {"analysis"}
    /\ UNCHANGED <<out, lock, previous>>

LockForSwap ==
    /\ "analysis" \in marks /\ lock = "free"
    /\ Lexical("analyse", "set aside")
    /\ lock' = "lexical"
    /\ UNCHANGED <<out, marks, work, previous>>

SetAside ==
    /\ Lexical("set aside", "swap in")
    /\ previous' = IF out.analysis = {} THEN previous ELSE out.analysis
    /\ out' = [out EXCEPT !.analysis = {}]
    /\ UNCHANGED <<lock, marks, work>>

SwapIn ==
    /\ Lexical("swap in", "verify")
    /\ out' = [out EXCEPT !.analysis = work]
    /\ UNCHANGED <<lock, marks, work, previous>>

\* touch of refresh.complete; rm of the working and the previous directory
CompleteRefresh ==
    /\ Lexical("done", "idle")
    /\ marks' = marks \cup {"refresh"}
    /\ work' = {}
    /\ previous' = {}
    /\ UNCHANGED <<out, lock>>

-----------------------------------------------------------------------------
\* A job ends early: a command fails (set -e), systemd's timeout, a power cut.  A
\* step that copies leaves part of what it copies.
AudioLeft(old, new) == {a \in [Clips -> {"none", "torn", "whole"}] :
    /\ \A c \in Clips : a[c] \in {old[c], new[c]} \cup (IF new[c] = "none" THEN {} ELSE {"torn"})
    /\ Cardinality({c \in Clips : a[c] = "torn" /\ old[c] # "torn" /\ new[c] # "torn"}) <= 1}

HalfCleared ==
    {[analysis |-> A, audio |-> a, manifest |-> m, recent |-> None, operations |-> None] :
        A \in SUBSET out.analysis, a \in AudioLeft(out.audio, NoAudio),
        m \in {NoManifest, Sample}}

PartOfAnalysis(new) == {[out EXCEPT !.analysis = A] : A \in SUBSET new}
PartOfClips == {[out EXCEPT !.audio = a] : a \in AudioLeft(out.audio, kept.audio)}
PartOfClip  == IF out.audio[chosen.next] = "none" /\ chosen.next \notin Unfit
               THEN {out, [out EXCEPT !.audio[chosen.next] = "torn"]} ELSE {out}

HalfDone(j) ==
    CASE pc[j] = "clear" -> HalfCleared
      [] pc[j] = "restore analysis" -> PartOfAnalysis(kept.analysis)
      [] pc[j] = "restore clips" -> PartOfClips
      [] pc[j] = "choose" /\ chosen.next # None -> PartOfClip
      [] pc[j] = "snapshot" -> {out, [out EXCEPT !.recent = Torn]}
      [] pc[j] = "swap in" -> PartOfAnalysis(work)
      [] OTHER -> {out}

HalfSent(j) ==
    CASE pc[j] = "clips" -> {[prod EXCEPT !.audio = a] :
                               a \in {a \in [Clips -> {"none", "torn", "whole"}] :
                                        \A c \in Clips : a[c] \in {prod.audio[c], out.audio[c]}}}
      [] pc[j] = "analysis" -> {[prod EXCEPT !.analysis = A] :
                                  A \in SUBSET (prod.analysis \cup out.analysis)}
      [] OTHER -> {prod}

\* cleanup, the weekly job's EXIT trap.
Cleaned(analysis) ==
    IF previous # {} /\ analysis = {} THEN previous ELSE analysis

\* Whether a job that stops here takes the analysis with it.
Endangers(j) == pc[j] \in {"clear", "restore analysis", "swap in"}

End(j, left, sent, trapped) ==
    /\ out' = [left EXCEPT !.analysis = IF trapped THEN Cleaned(@) ELSE @]
    /\ previous' = IF trapped THEN {} ELSE previous
    /\ prod' = sent
    /\ published' = (published \/ sent.analysis = Whole(ThisWeek))
    /\ Goto(j, "idle")
    /\ IF lock = j
       THEN /\ lock' = "free"
            /\ kept' = [analysis |-> {}, audio |-> NoAudio]
            /\ chosen' = [next |-> None, clips |-> {}]
       ELSE UNCHANGED <<lock, kept, chosen>>
    /\ UNCHANGED <<listed, cache, marks, work>>

\* The trap is set once the weekly job has had the export lock; it does not run
\* when the job is killed.
Stop(j) ==
    /\ stops < MaxStops /\ stops' = stops + 1
    /\ pc[j] # "idle"
    /\ \E left \in HalfDone(j), sent \in HalfSent(j),
          trapped \in {FALSE} \cup {j = "lexical" /\ pc[j] # "export"} :
          End(j, left, sent, trapped)
    /\ damaged' = (damaged \/ Endangers(j))

\* The manifest cannot be read, or something is missing to deploy.
Refuse(j) ==
    /\ \/ At(j, "verify") /\ out.manifest.gen < 0
       \/ At(j, "deploy") /\ ~Deployable
    /\ End(j, out, prod, j = "lexical")
    /\ UNCHANGED <<stops, damaged>>

-----------------------------------------------------------------------------
ExportStep(j) ==
    \/ Preserve(j) \/ ClearOutput(j) \/ RestoreAnalysis(j) \/ RestoreClips(j)
    \/ ChooseClip(j) \/ RemoveUnused(j) \/ WriteManifest(j) \/ WriteSnapshot(j)

DeployStep(j) ==
    \/ Verify(j) \/ StartDeploy(j) \/ SyncClips(j) \/ SyncAnalysis(j) \/ CopyRecent(j)
    \/ CopyOperations(j) \/ Commit(j) \/ Invalidate(j) \/ Refuse(j)

JobStep(j) == ExportStep(j) \/ DeployStep(j)

LexicalStep == KeepManifest \/ AnalyseIndex \/ AnalyseText \/ SetAside \/ SwapIn \/ CompleteRefresh

Next ==
    \/ ListClip \/ BeginFast \/ Operations
    \/ BeginLexical \/ LockForExport \/ LockForSwap \/ LexicalStep
    \/ \E j \in Jobs : JobStep(j) \/ Stop(j)

Spec == Init /\ [][Next]_vars

\* The timers start the jobs again and again, systemd restarts the weekly one
\* (its StartLimitBurst is not reached in the model); a blocked flock is granted
\* although the hourly job, which never waits, comes by.
Fairness ==
    /\ SF_vars(BeginFast) /\ WF_vars(BeginLexical)
    /\ SF_vars(LockForExport) /\ SF_vars(LockForSwap)
    /\ WF_vars(Operations) /\ WF_vars(LexicalStep)
    /\ \A j \in Jobs : WF_vars(JobStep(j))

FairSpec == Spec /\ Fairness

-----------------------------------------------------------------------------
\* Every release that was committed is one export's: its manifest is not the
\* sample, the snapshot is of the same export, and every clip it names has its
\* audio in it.  The deployment takes the files of a directory that jobs rebuild
\* and may leave half built (deploy_generated_public_assets.sh 168-187,
\* publish.py 234-311).
ReleaseIsConsistent ==
    \A release \in prod.release :
        /\ release.manifest.gen > 0
        /\ release.recent = release.manifest.gen
        /\ release.manifest.clips \subseteq Has(release)

\* A deployment is only skipped as unchanged when production has every file of
\* the output directory, deployments that were cut off included.
SkipIsSafe ==
    \A j \in Jobs : At(j, "deploy") /\ prod.release = {Artifacts(out)}
                     => Artifacts(prod) = Artifacts(out)

\* The week is only marked complete when production has had its analysis, whole.
CompleteMeansPublished == "refresh" \in marks => published

\* Releases and the marks of the weekly job say the truth (deploy_generated_public_
\* assets.sh, refresh_lexical_analysis.sh).
DeploymentsAreRight == ReleaseIsConsistent /\ SkipIsSafe /\ CompleteMeansPublished

\* Between the jobs there is a whole analysis in the output directory, unless a
\* job was stopped in the middle of rebuilding or of swapping it and the weekly
\* job has not been back since.
AnalysisIsKept ==
    lock = "free" /\ ~damaged => \E w \in {LastWeek, ThisWeek} : out.analysis = Whole(w)

\* However the two jobs wait for each other and fail, the week's analysis
\* is published in the end.
WeekIsPublished == <>published
=============================================================================
