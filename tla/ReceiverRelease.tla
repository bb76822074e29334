---------------------------- MODULE ReceiverRelease ----------------------------
(***************************************************************************)
(* Which channels the Pi's receiver tunes and records.  receiver_config.py *)
(* rewrites the channels of the deployed configuration; scripts/apply_asr_ *)
(* receiver.sh does so for a release, beside the modules that belong to    *)
(* it, and puts everything back when a step fails or on demand.            *)
(***************************************************************************)
EXTENDS Naturals, Sequences, SequencesExt, FiniteSets, FiniteSetsExt

CONSTANTS Releases,
          Live, Recorded,   \* of each release, and of the first configuration:
                            \* LIVE_STREAM_CHANNELS, ACTIVE_CAPTURE_CHANNELS
          FirstRelease,     \* the name of what was installed first
          First,            \* the first configuration, [blocks, rest]
          Tuned,            \* the frequency of each channel, CHANNEL_METADATA
          MaxApplied, MaxFaults, MaxKills   \* bounds: releases, failures, kills

\* A configuration is [blocks, rest]: the channel blocks in order, each with its label,
\* its frequency and how many outputs it has of each type, [file, icecast], and the text
\* before and after them.
VARIABLES config,    \* the deployed configuration
          app,       \* the release whose modules are installed, or Mixed
          record,    \* of each release: its rollback snapshot, its digest and its mark
          run,       \* the script: [release, pc]
          up,        \* whether the receiver runs
          foundAt,   \* ghost: what each release found when it was first begun
          last,      \* ghost: the release that was applied or put back last, if whole
          applied, faults, kills

vars == <<config, app, record, run, up, foundAt, last, applied, faults, kills>>

None == [none |-> TRUE]
Mixed == [mixed |-> TRUE]
Named(r) == [release |-> r]

-----------------------------------------------------------------------------
\* configure_channels
Labels(c) == [n \in DOMAIN c.blocks |-> c.blocks[n].label]
Labelled(c, ch) == {n \in DOMAIN c.blocks : c.blocks[n].label = ch}
LastBlock(c, ch) == c.blocks[Max(Labelled(c, ch))]

\* The deployed block of a channel, or else the one of the template.
Body(current, template, ch) ==
    LastBlock(IF Labelled(current, ch) # {} THEN current ELSE template, ch)

AddsFile(b, recorded) ==
    b.label \in recorded /\ b.outputs.file = 0 /\ b.outputs.icecast = 1

\* One output that records is put before the stream, or all but the stream are taken.
Selected(b, recorded) ==
    IF b.label \in recorded /\ ~AddsFile(b, recorded) THEN b
    ELSE [label |-> b.label, freq |-> b.freq,
          outputs |-> [file |-> IF b.label \in recorded THEN 1 ELSE 0, icecast |-> 1]]

CanSelect(current, template, ch, recorded) ==
    /\ Labelled(current, ch) # {} \/ Labelled(template, ch) # {}
    /\ LET b == Body(current, template, ch) IN
       /\ b.freq = Tuned[ch]
       /\ b.outputs.icecast = 1
       /\ AddsFile(b, recorded) =>
             Labelled(template, ch) # {} /\ LastBlock(template, ch).outputs.file = 1
       /\ b.label \in recorded /\ ~AddsFile(b, recorded) => b.outputs.file = 1

CanConfigure(current, template, live, recorded) ==
    /\ "74" \notin ToSet(live) /\ IsInjective(live) /\ recorded \subseteq ToSet(live)
    /\ current.blocks # <<>>
    /\ \A ch \in ToSet(live) : CanSelect(current, template, ch, recorded)

Configured(current, template, live, recorded) ==
    [blocks |-> [n \in DOMAIN live |->
                     Selected(Body(current, template, live[n]), recorded)],
     rest |-> current.rest]

-----------------------------------------------------------------------------
\* apply_asr_receiver.sh
Idle == [release |-> None, pc |-> "idle"]
At(pc) == run.pc = pc
GoTo(pc) == run' = [run EXCEPT !.pc = pc]

Init ==
    /\ config = First /\ app = Named(FirstRelease)
    /\ record = [r \in Releases |-> [config |-> None, app |-> None,
                                 signed |-> FALSE, deployed |-> FALSE]]
    /\ run = Idle /\ up = TRUE
    /\ foundAt = [r \in Releases |-> None] /\ last = None
    /\ applied = 0 /\ faults = 0 /\ kills = 0

\* The first snapshot of a release is kept when the release is tried again.
FirstStep(r) == IF record[r].config = None THEN "config" ELSE "sign"

Apply(r) ==
    /\ At("idle") /\ ~record[r].deployed
    /\ applied < MaxApplied /\ applied' = applied + 1
    /\ run' = [release |-> r, pc |-> FirstStep(r)]
    /\ last' = None
    /\ foundAt' = IF record[r].config = None
                  THEN [foundAt EXCEPT ![r] = [config |-> config, app |-> app]]
                  ELSE foundAt
    /\ UNCHANGED <<config, app, record, up, faults, kills>>

\* cp -a of the configuration, then of the modules and the settings beside it
SnapshotConfig ==
    /\ At("config") /\ GoTo("modules")
    /\ record' = [record EXCEPT ![run.release].config = config]

SnapshotModules ==
    /\ At("modules") /\ GoTo("sign")
    /\ record' = [record EXCEPT ![run.release].app = app]

\* artifact.sha256, without which a release is not rolled back
Sign ==
    /\ At("sign") /\ GoTo("stop")
    /\ record' = [record EXCEPT ![run.release].signed = TRUE]

StopServices == At("stop") /\ GoTo("configure") /\ up' = FALSE

\* The configurations in the snapshots that have every live channel; which of them
\* is the oldest file is left open.
Templates(r) ==
    {record[s].config : s \in {t \in Releases :
        record[t].config # None /\ ToSet(Live[r]) \subseteq ToSet(Labels(record[t].config))}}

\* restore_receiver: the configuration first.  A snapshot that was cut short may lack
\* a file that must be copied, and the script ends there, or only optional ones.
Restored(r) ==
    /\ config' = record[r].config /\ run' = Idle
    /\ IF record[r].app = None
       THEN app' \in {app, Mixed} /\ up' = up /\ last' = None
       ELSE /\ app' = record[r].app /\ up' = TRUE
            /\ last' = IF record[r].app = Mixed THEN None ELSE [back |-> r]

Configure ==
    /\ At("configure")
    /\ LET r == run.release IN
       \/ \E t \in Templates(r) :
             IF CanConfigure(config, t, Live[r], Recorded[r])
             THEN /\ config' = Configured(config, t, Live[r], Recorded[r])
                  /\ GoTo("install")
                  /\ UNCHANGED <<app, up, last>>
             ELSE Restored(r)
       \/ Templates(r) = {} /\ Restored(r)
    /\ UNCHANGED record

Install == At("install") /\ GoTo("restart") /\ app' = Named(run.release)

RestartServices == At("restart") /\ GoTo("finish") /\ up' = TRUE

\* The DockTalk node is installed and the release marked.
Finish ==
    /\ At("finish") /\ run' = Idle
    /\ record' = [record EXCEPT ![run.release].deployed = TRUE]
    /\ last' = [applied |-> run.release]

\* A command fails once the trap is set: everything is put back.
StepFails ==
    /\ run.pc \in {"stop", "configure", "install", "restart", "finish"}
    /\ faults < MaxFaults /\ faults' = faults + 1
    /\ Restored(run.release)
    /\ UNCHANGED <<record, foundAt, applied, kills>>

\* The script is killed, and its services stay as they are, or the Pi restarts.
Killed ==
    /\ ~At("idle") /\ kills < MaxKills /\ kills' = kills + 1
    /\ run' = Idle
    /\ up' \in {up, TRUE}
    /\ app' \in (IF At("install") THEN {app, Mixed} ELSE {app})
    /\ \E copied \in (IF At("modules") THEN {None, Mixed} ELSE {record[run.release].app}) :
          record' = [record EXCEPT ![run.release].app = copied]
    /\ UNCHANGED <<config, foundAt, last, applied, faults>>

Rollback(r) ==
    /\ At("idle") /\ record[r].config # None /\ record[r].signed
    /\ applied < MaxApplied /\ applied' = applied + 1
    /\ Restored(r)
    /\ record' = [record EXCEPT ![r].deployed = @ /\ record[r].app = None]
    /\ UNCHANGED <<foundAt, faults, kills>>

Step ==
    /\ \/ (SnapshotConfig \/ SnapshotModules \/ Sign) /\ UNCHANGED <<config, app, up, last>>
       \/ StopServices /\ UNCHANGED <<config, app, record, last>>
       \/ Configure
       \/ Install /\ UNCHANGED <<config, record, up, last>>
       \/ RestartServices /\ UNCHANGED <<config, app, record, last>>
       \/ Finish /\ UNCHANGED <<config, app, up>>
    /\ UNCHANGED <<foundAt, applied, faults, kills>>

Next ==
    \/ \E r \in Releases : Apply(r) \/ Rollback(r)
    \/ Step \/ StepFails \/ Killed

Spec == Init /\ [][Next]_vars

-----------------------------------------------------------------------------
\* The configuration tunes and records what the policy of a release says.
Follows(c, r) ==
    /\ Labels(c) = Live[r] /\ c.rest = First.rest
    /\ \A b \in ToSet(c.blocks) :
          /\ b.freq = Tuned[b.label] /\ b.outputs.icecast = 1
          /\ b.outputs.file = IF b.label \in Recorded[r] THEN 1 ELSE 0

\* The receiver and the modules beside it belong together.  A release that comes to
\* its end leaves its own policy and modules, whatever was cut short before; one that
\* is put back leaves what it found when it was first begun, however often it was
\* tried since; and if no script is killed, the receiver always runs again with a
\* configuration of the modules beside it (receiver_config.py 50-95,
\* apply_asr_receiver.sh).
ReceiverMatchesModules ==
    /\ last # None =>
          IF "applied" \in DOMAIN last
          THEN up /\ app = Named(last.applied) /\ Follows(config, last.applied)
          ELSE up /\ [config |-> config, app |-> app] = foundAt[last.back]
    /\ kills = 0 /\ At("idle") => up /\ Follows(config, app.release)
=============================================================================
