---------------------------- MODULE FreshnessMonitor ----------------------------
(***************************************************************************)
(* stale_clip_monitor.py and its alarms (infra/opentofu/monitoring.tf): a  *)
(* lambda function that runs every five minutes, reads the public manifest *)
(* and the vessel snapshot, and reports how old what they hold is.  What   *)
(* it cannot read makes it report nothing at all.  Time counts in periods  *)
(* of five minutes.                                                        *)
(***************************************************************************)
EXTENDS Integers, Sequences, FiniteSetsExt

CONSTANTS AisLimit,       \* 900 s in the alarm of the AIS ingest
          ManifestLimit,  \* 7200 s in the alarm of the manifest
          Periods,        \* samples an alarm looks at, 3
          MaxAhead        \* bound: how far the clocks of vessels are ahead

VARIABLES manifest,  \* [age, clips]: since it was written, whether a clip has a time
          snapshot,  \* [age, silence]: of its newest time; since it was written
          samples,   \* the last samples of each metric, newest first
          ran        \* whether the function was run in each of those periods

vars == <<manifest, snapshot, samples, ran>>

Longest == ManifestLimit + AisLimit + MaxAhead + Periods
Older(age) == Min({age + 1, Longest})
Pushed(v, seq) == SubSeq(<<v>> \o seq, 1, Periods)

Missing == -1
Metrics == {"ais", "manifest"}

Init ==
    /\ manifest = [age |-> 0, clips |-> TRUE]
    /\ snapshot = [age |-> 0, silence |-> 0]
    /\ samples = [m \in Metrics |-> [n \in 1 .. Periods |-> 0]]
    /\ ran = [n \in 1 .. Periods |-> TRUE]

\* The hourly job writes the manifest; it may list no clip.
WriteManifest(clips) ==
    /\ manifest' = [age |-> 0, clips |-> clips]
    /\ UNCHANGED <<snapshot, samples, ran>>

\* A vessel reports with a clock that is ahead.
WriteSnapshot(ahead) ==
    /\ snapshot' = [age |-> 0 - ahead, silence |-> 0]
    /\ UNCHANGED <<manifest, samples, ran>>

\* evaluate_ais_snapshot, evaluate_manifest_generation: no age is negative.
Age(newest) == Max({0, newest})

\* Mutant: the vessels are reported before the clips of the manifest are looked at.
ReportsVessels(m) == m = "ais" \/ manifest.clips

\* evaluate_manifest raises when no clip has a time; nothing is reported then.
Reports(m) == manifest.clips

\* A period passes, and the function runs or not (lambda_handler).
Period(runs) ==
    /\ manifest' = [manifest EXCEPT !.age = Older(@)]
    /\ snapshot' = [age |-> Older(snapshot.age), silence |-> Older(snapshot.silence)]
    /\ samples' = [m \in Metrics |->
          Pushed(IF ~(runs /\ Reports(m)) THEN Missing
                 ELSE IF m = "ais" THEN Age(Older(snapshot.age))
                 ELSE Age(Older(manifest.age)), samples[m])]
    /\ ran' = Pushed(runs, ran)

Next ==
    \/ \E clips \in BOOLEAN : WriteManifest(clips)
    \/ \E ahead \in 0 .. MaxAhead : WriteSnapshot(ahead)
    \/ \E runs \in BOOLEAN : Period(runs)

Spec == Init /\ [][Next]_vars

-----------------------------------------------------------------------------
\* The alarms that notify somebody: a missing sample breaches that of the AIS ingest
\* only.  CloudWatch may look further back when samples are missing; that is left out.
AisAlarm ==
    \A n \in 1 .. Periods : samples["ais"][n] \in {Missing} \cup AisLimit .. Longest
ManifestAlarm == \A n \in 1 .. Periods : samples["manifest"][n] >= ManifestLimit

\* When the vessels are silent, or the manifest is not written any more, an alarm says
\* so within the samples it looks at; for the manifest that takes samples from a function
\* that has been run for each of them or for none, and a manifest without a clip, which
\* silences every metric, is noticed by the alarm of the vessels
\* (stale_clip_monitor.py 44-227, monitoring.tf 349-432).
StalenessIsNoticed ==
    /\ snapshot.silence >= AisLimit + MaxAhead + Periods => AisAlarm
    /\ manifest.age >= ManifestLimit + Periods /\ (\A m, n \in 1 .. Periods : ran[m] = ran[n])
          => ManifestAlarm \/ AisAlarm
=============================================================================
