--------------------------- MODULE Receiver_proofs ---------------------------
(***************************************************************************)
(* Proofs about the live services of MCReceiver, for every value of its    *)
(* constants: retuning, for any requests, channels and number of ssh       *)
(* commands that are given up; the performance history, for any spans,     *)
(* delays, faults and restarts; the live captions, for any chunks, limits  *)
(* and page sizes; the relay of vessel positions, for any browsers,        *)
(* payloads and posts; the rendition of a clip, for any levels and errors  *)
(* of the encoder.  A behaviour is of one of them, so each has its own     *)
(* invariant.                                                              *)
(***************************************************************************)
EXTENDS MCReceiver, FiniteSetTheorems, SequenceTheorems, TLAPS

\* The empty sequence, for every kind of element.
LEMMA EmptyIs ==
    /\ \A S : <<>> \in Seq(S)
    /\ Len(<<>>) = 0
  <1> DEFINE none == <<>>
  <1>1. \A S : none \in Seq(S)
    BY EmptySeq
  <1>2. Len(none) = 0
    BY EmptySeq
  <1> QED
    BY <1>1, <1>2

-----------------------------------------------------------------------------
(* Retuning the live receiver.                                             *)

TuneNext ==
    \E r \in Requests :
        \/ Tuner!Refuse(r) \/ Tuner!Begin(r) \/ Tuner!Notice(r)
        \/ Tuner!Connect(r) \/ Tuner!ConnectFails(r) \/ Tuner!SshReturns(r)
        \/ Tuner!SshExpires(r) \/ Tuner!RestartTranscriber(r)
        \/ Tuner!ReadEnv(r) \/ Tuner!Truncate(r) \/ Tuner!Write(r) \/ Tuner!Restart(r)

Heardable == TuneChannels \cup {TuneFirst, NoChannel}
Asked == [channel : TuneChannels,
          answer : {"none", "conflict", "ok", "bad gateway", "timeout"}]
Files == [channel : Heardable, rest : BOOLEAN]
ThreadPcs == {"none", "ssh", "transcriber", "returned", "raised", "expired"}
ScriptPcs == {"none", "begun", "read", "truncated", "written", "done", "failed"}

TuneTypes ==
    /\ tuneRequest \in [Requests -> Asked]
    /\ tuneThread \in [Requests -> ThreadPcs]
    /\ tuneScript \in [Requests -> ScriptPcs]
    /\ tuneLines \in [Requests -> Files]
    /\ tuneEnv \in Files
    /\ tuneStream \in Heardable
    /\ tuneTimeouts \in Nat

\* Only a script that has begun to write, and was not stopped before it restarted
\* the stream, lets the two differ.
StreamFollows ==
    \/ tuneStream = tuneEnv.channel
    \/ \E r \in Requests : tuneScript[r] \in {"truncated", "written", "failed"}

AtWork(r) == tuneScript[r] \in {"begun", "read", "truncated", "written"}
Waiting(r) == tuneThread[r] # "none" /\ tuneRequest[r].answer = "none"

\* While no ssh was given up: the lock is that of the request that waits, its thread
\* waits for its script, and what the script read or wrote is whole.
ScriptIsApart(r) ==
    /\ Waiting(r) => tuneLock = r
    /\ tuneLock = r => tuneLast = r /\ Waiting(r)
    /\ tuneThread[r] \in {"ssh", "transcriber"} => Waiting(r)
    /\ AtWork(r) => tuneThread[r] = "ssh"
    /\ tuneThread[r] = "none" => tuneScript[r] = "none"
    /\ tuneThread[r] \in {"transcriber", "returned"} => tuneScript[r] = "done"
    /\ tuneScript[r] \in {"read", "truncated"} => tuneLines[r].rest
    /\ tuneScript[r] = "written" => tuneEnv.channel = tuneRequest[r].channel
    /\ tuneScript[r] = "done" /\ tuneLast = r => tuneStream = tuneRequest[r].channel
    /\ tuneRequest[r].answer = "ok" => tuneThread[r] = "returned"

FileIsWhole == tuneEnv.rest \/ \E r \in Requests : tuneScript[r] = "truncated"

TuneInv ==
    /\ TuneTypes /\ StreamFollows
    /\ tuneTimeouts = 0 => FileIsWhole /\ \A r \in Requests : ScriptIsApart(r)

\* A receiver that nobody has asked anything is tuned as its file says.
LEMMA TuneInit == ASSUME Tuner!Init PROVE TuneInv
BY RetuneAssumption DEF Tuner!Init, Tuner!Empty, TuneInv, TuneTypes, StreamFollows,
     FileIsWhole, ScriptIsApart, Waiting, AtWork, Asked, Files, Heardable, ThreadPcs,
     ScriptPcs

\* A request that finds the lock taken is answered, and changes nothing else.
LEMMA TuneRefuseStep ==
    ASSUME TuneInv, NEW r \in Requests, Tuner!Refuse(r)
    PROVE  TuneInv'
<1>1. TuneTypes'
  BY DEF Tuner!Refuse, Tuner!Answer, TuneInv, TuneTypes, Asked, Files, Heardable,
         ThreadPcs, ScriptPcs
<1>2. StreamFollows'
  BY DEF Tuner!Refuse, Tuner!Answer, TuneInv, TuneTypes, StreamFollows, Files,
         ScriptPcs
<1>3. ASSUME tuneTimeouts' = 0
      PROVE  FileIsWhole'
  BY <1>3 DEF Tuner!Refuse, Tuner!Answer, TuneInv, TuneTypes, FileIsWhole, Files,
         ScriptPcs, ScriptIsApart
<1>4. ASSUME tuneTimeouts' = 0, NEW q \in Requests
      PROVE  ScriptIsApart(q)'
  BY <1>4, RetuneAssumption DEF Tuner!Refuse, Tuner!Answer, TuneInv, TuneTypes,
         ScriptIsApart, Waiting, AtWork, FileIsWhole, Asked, Files, ScriptPcs,
         ThreadPcs
<1> QED
  BY <1>1, <1>2, <1>3, <1>4 DEF TuneInv

\* The request that takes the lock finds no script at work, unless one was given up.
LEMMA TuneBeginStep ==
    ASSUME TuneInv, NEW r \in Requests, Tuner!Begin(r)
    PROVE  TuneInv'
<1>1. TuneTypes'
  BY DEF Tuner!Begin, TuneInv, TuneTypes, Asked, Files, Heardable, ThreadPcs,
         ScriptPcs
<1>2. StreamFollows'
  BY DEF Tuner!Begin, TuneInv, TuneTypes, StreamFollows, Files, ScriptPcs
<1>3. ASSUME tuneTimeouts' = 0
      PROVE  FileIsWhole'
  BY <1>3 DEF Tuner!Begin, TuneInv, TuneTypes, FileIsWhole, Files, ScriptPcs,
         ScriptIsApart
<1>4. ASSUME tuneTimeouts' = 0, NEW q \in Requests
      PROVE  ScriptIsApart(q)'
  BY <1>4, RetuneAssumption DEF Tuner!Begin, TuneInv, TuneTypes, ScriptIsApart,
         Waiting, AtWork, FileIsWhole, Asked, Files, ScriptPcs, ThreadPcs
<1> QED
  BY <1>1, <1>2, <1>3, <1>4 DEF TuneInv

\* The request is answered by what its thread came to, and gives the lock back.
LEMMA TuneNoticeStep ==
    ASSUME TuneInv, NEW r \in Requests, Tuner!Notice(r)
    PROVE  TuneInv'
<1>0. tuneThread[r] \in {"returned", "raised", "expired"}
  BY DEF Tuner!Notice, Tuner!Status
<1>1. PICK status \in {"ok", "bad gateway", "timeout"} :
         /\ tuneRequest' = [tuneRequest EXCEPT ![r].answer = status]
         /\ status = "ok" => tuneThread[r] = "returned"
  <2>1. /\ Tuner!Status["returned"] = "ok" /\ Tuner!Status["raised"] = "bad gateway"
        /\ Tuner!Status["expired"] = "timeout"
    BY DEF Tuner!Status
  <2>2. tuneRequest' = [tuneRequest EXCEPT ![r].answer = Tuner!Status[tuneThread[r]]]
    BY DEF Tuner!Notice, Tuner!Answer
  <2> QED
    BY <1>0, <2>1, <2>2
<1>2. tuneLock = r /\ tuneLock' = NoOne
  BY DEF Tuner!Notice
<1>3. UNCHANGED <<tuneThread, tuneScript, tuneLines, tuneEnv, tuneStream, tuneLast,
                  tuneTimeouts>>
  BY DEF Tuner!Notice
<1>4. TuneTypes'
  BY <1>1, <1>3 DEF TuneInv, TuneTypes, Asked
<1>5. StreamFollows'
  BY <1>3 DEF TuneInv, StreamFollows
<1>6. ASSUME tuneTimeouts' = 0
      PROVE  FileIsWhole'
  BY <1>3, <1>6 DEF TuneInv, FileIsWhole
<1>7. ASSUME tuneTimeouts' = 0, NEW q \in Requests
      PROVE  ScriptIsApart(q)'
  <2>1. ScriptIsApart(q) /\ ScriptIsApart(r)
    BY <1>3, <1>7 DEF TuneInv
  <2>2. CASE q = r
    BY <1>0, <1>1, <1>2, <1>3, <2>1, <2>2, RetuneAssumption
    DEF TuneInv, TuneTypes, Asked, ScriptIsApart, Waiting, AtWork
  <2>3. CASE q # r
    BY <1>1, <1>2, <1>3, <2>1, <2>3, RetuneAssumption
    DEF TuneInv, TuneTypes, Asked, ScriptIsApart, Waiting, AtWork
  <2> QED
    BY <2>2, <2>3
<1> QED
  BY <1>4, <1>5, <1>6, <1>7 DEF TuneInv

\* The script begins for the thread that waits for it.
LEMMA TuneConnectStep ==
    ASSUME TuneInv, NEW r \in Requests, Tuner!Connect(r)
    PROVE  TuneInv'
<1>1. TuneTypes'
  BY DEF Tuner!Connect, TuneInv, TuneTypes, Asked, Files, Heardable, ThreadPcs,
         ScriptPcs
<1>2. StreamFollows'
  BY DEF Tuner!Connect, TuneInv, TuneTypes, StreamFollows, Files, ScriptPcs
<1>3. ASSUME tuneTimeouts' = 0
      PROVE  FileIsWhole'
  BY <1>3 DEF Tuner!Connect, TuneInv, TuneTypes, FileIsWhole, Files, ScriptPcs,
         ScriptIsApart
<1>4. ASSUME tuneTimeouts' = 0, NEW q \in Requests
      PROVE  ScriptIsApart(q)'
  BY <1>4, RetuneAssumption DEF Tuner!Connect, TuneInv, TuneTypes, ScriptIsApart,
         Waiting, AtWork, FileIsWhole, Asked, Files, ScriptPcs, ThreadPcs
<1> QED
  BY <1>1, <1>2, <1>3, <1>4 DEF TuneInv

\* A thread that could not connect leaves no script behind.
LEMMA TuneConnectFailsStep ==
    ASSUME TuneInv, NEW r \in Requests, Tuner!ConnectFails(r)
    PROVE  TuneInv'
<1>1. TuneTypes'
  BY DEF Tuner!ConnectFails, Tuner!Thread, TuneInv, TuneTypes, Asked, Files,
         Heardable, ThreadPcs, ScriptPcs
<1>2. StreamFollows'
  BY DEF Tuner!ConnectFails, Tuner!Thread, TuneInv, TuneTypes, StreamFollows, Files,
         ScriptPcs
<1>3. ASSUME tuneTimeouts' = 0
      PROVE  FileIsWhole'
  BY <1>3 DEF Tuner!ConnectFails, Tuner!Thread, TuneInv, TuneTypes, FileIsWhole,
         Files, ScriptPcs, ScriptIsApart
<1>4. ASSUME tuneTimeouts' = 0, NEW q \in Requests
      PROVE  ScriptIsApart(q)'
  BY <1>4, RetuneAssumption DEF Tuner!ConnectFails, Tuner!Thread, TuneInv, TuneTypes,
         ScriptIsApart, Waiting, AtWork, FileIsWhole, Asked, Files, ScriptPcs,
         ThreadPcs
<1> QED
  BY <1>1, <1>2, <1>3, <1>4 DEF TuneInv

\* ssh returns when the script has come to its end.
LEMMA TuneSshReturnsStep ==
    ASSUME TuneInv, NEW r \in Requests, Tuner!SshReturns(r)
    PROVE  TuneInv'
<1>1. TuneTypes'
  BY DEF Tuner!SshReturns, Tuner!Thread, TuneInv, TuneTypes, Asked, Files, Heardable,
         ThreadPcs, ScriptPcs
<1>2. StreamFollows'
  BY DEF Tuner!SshReturns, Tuner!Thread, TuneInv, TuneTypes, StreamFollows, Files,
         ScriptPcs
<1>3. ASSUME tuneTimeouts' = 0
      PROVE  FileIsWhole'
  BY <1>3 DEF Tuner!SshReturns, Tuner!Thread, TuneInv, TuneTypes, FileIsWhole, Files,
         ScriptPcs, ScriptIsApart
<1>4. ASSUME tuneTimeouts' = 0, NEW q \in Requests
      PROVE  ScriptIsApart(q)'
  <2>1. ScriptIsApart(q) /\ ScriptIsApart(r) /\ TuneTypes
    BY <1>4 DEF Tuner!SshReturns, Tuner!Thread, TuneInv
  <2>2. CASE q = r
    BY <2>1, <2>2, RetuneAssumption DEF Tuner!SshReturns, Tuner!Thread, TuneTypes,
           ScriptIsApart, Waiting, AtWork, Asked, ScriptPcs, ThreadPcs
  <2>3. CASE q # r
    <3>1. tuneThread'[q] = tuneThread[q]
      BY <2>1, <2>3 DEF Tuner!SshReturns, Tuner!Thread, TuneTypes
    <3>2. UNCHANGED <<tuneRequest, tuneScript, tuneLines, tuneEnv, tuneStream, tuneLast,
                    tuneLock>>
      BY DEF Tuner!SshReturns, Tuner!Thread
    <3> QED
      BY <2>1, <3>1, <3>2 DEF ScriptIsApart, Waiting, AtWork
  <2> QED
    BY <2>2, <2>3
<1> QED
  BY <1>1, <1>2, <1>3, <1>4 DEF TuneInv

\* ssh is given up, and the script goes on.
LEMMA TuneSshExpiresStep ==
    ASSUME TuneInv, NEW r \in Requests, Tuner!SshExpires(r)
    PROVE  TuneInv'
<1>1. tuneTimeouts' = tuneTimeouts + 1 /\ UNCHANGED tuneScript
  BY DEF Tuner!SshExpires
<1>2. /\ tuneThread' = [tuneThread EXCEPT ![r] = "expired"]
      /\ UNCHANGED <<tuneRequest, tuneLines, tuneEnv, tuneStream>>
  BY DEF Tuner!SshExpires, Tuner!Thread
<1>3. TuneTypes
  BY DEF TuneInv
<1>4. tuneTimeouts' \in Nat /\ tuneTimeouts' # 0
  BY <1>1, <1>3 DEF TuneTypes
<1>5. tuneThread' \in [Requests -> ThreadPcs]
  BY <1>2, <1>3 DEF TuneTypes, ThreadPcs
<1>6. TuneTypes'
  BY <1>1, <1>2, <1>3, <1>4, <1>5 DEF TuneTypes
<1>7. StreamFollows'
  BY <1>1, <1>2 DEF TuneInv, StreamFollows
<1> QED
  BY <1>4, <1>6, <1>7 DEF TuneInv

\* The transcriber is restarted when the script is done.
LEMMA TuneRestartTranscriberStep ==
    ASSUME TuneInv, NEW r \in Requests, Tuner!RestartTranscriber(r)
    PROVE  TuneInv'
<1>1. TuneTypes'
  BY DEF Tuner!RestartTranscriber, Tuner!Thread, TuneInv, TuneTypes, Asked, Files,
         Heardable, ThreadPcs, ScriptPcs
<1>2. StreamFollows'
  BY DEF Tuner!RestartTranscriber, Tuner!Thread, TuneInv, TuneTypes, StreamFollows,
         Files, ScriptPcs
<1>3. ASSUME tuneTimeouts' = 0
      PROVE  FileIsWhole'
  BY <1>3 DEF Tuner!RestartTranscriber, Tuner!Thread, TuneInv, TuneTypes, FileIsWhole,
         Files, ScriptPcs, ScriptIsApart
<1>4. ASSUME tuneTimeouts' = 0, NEW q \in Requests
      PROVE  ScriptIsApart(q)'
  <2>1. ScriptIsApart(q) /\ ScriptIsApart(r) /\ TuneTypes
    BY <1>4 DEF Tuner!RestartTranscriber, Tuner!Thread, TuneInv
  <2>2. CASE q = r
    BY <2>1, <2>2, RetuneAssumption DEF Tuner!RestartTranscriber, Tuner!Thread,
           TuneTypes, ScriptIsApart, Waiting, AtWork, Asked, ScriptPcs, ThreadPcs
  <2>3. CASE q # r
    BY <2>1, <2>3, RetuneAssumption DEF Tuner!RestartTranscriber, Tuner!Thread,
           TuneTypes, ScriptIsApart, Waiting, AtWork, Asked, ScriptPcs, ThreadPcs
  <2> QED
    BY <2>2, <2>3
<1> QED
  BY <1>1, <1>2, <1>3, <1>4 DEF TuneInv

\* The script reads a whole file, if no other one has truncated it.
LEMMA TuneReadEnvStep ==
    ASSUME TuneInv, NEW r \in Requests, Tuner!ReadEnv(r)
    PROVE  TuneInv'
<1>1. TuneTypes'
  BY DEF Tuner!ReadEnv, Tuner!Script, TuneInv, TuneTypes, Asked, Files, Heardable,
         ThreadPcs, ScriptPcs
<1>2. StreamFollows'
  BY DEF Tuner!ReadEnv, Tuner!Script, TuneInv, TuneTypes, StreamFollows, Files,
         ScriptPcs
<1>3. ASSUME tuneTimeouts' = 0
      PROVE  FileIsWhole'
  BY <1>3 DEF Tuner!ReadEnv, Tuner!Script, TuneInv, TuneTypes, FileIsWhole, Files,
         ScriptPcs, ScriptIsApart
<1>4. ASSUME tuneTimeouts' = 0, NEW q \in Requests
      PROVE  ScriptIsApart(q)'
  BY <1>4, RetuneAssumption DEF Tuner!ReadEnv, Tuner!Script, TuneInv, TuneTypes,
         ScriptIsApart, Waiting, AtWork, FileIsWhole, Asked, Files, ScriptPcs,
         ThreadPcs
<1> QED
  BY <1>1, <1>2, <1>3, <1>4 DEF TuneInv

\* The file is empty, and its script remembers what it held.
LEMMA TuneTruncateStep ==
    ASSUME TuneInv, NEW r \in Requests, Tuner!Truncate(r)
    PROVE  TuneInv'
<1>1. TuneTypes'
  BY DEF Tuner!Truncate, Tuner!Script, Tuner!Empty, TuneInv, TuneTypes, Asked, Files,
         Heardable, ThreadPcs, ScriptPcs
<1>2. StreamFollows'
  BY DEF Tuner!Truncate, Tuner!Script, Tuner!Empty, TuneInv, TuneTypes, StreamFollows,
         Files, ScriptPcs
<1>3. ASSUME tuneTimeouts' = 0
      PROVE  FileIsWhole'
  BY <1>3 DEF Tuner!Truncate, Tuner!Script, Tuner!Empty, TuneInv, TuneTypes,
         FileIsWhole, Files, ScriptPcs, ScriptIsApart
<1>4. ASSUME tuneTimeouts' = 0, NEW q \in Requests
      PROVE  ScriptIsApart(q)'
  BY <1>4, RetuneAssumption DEF Tuner!Truncate, Tuner!Script, Tuner!Empty, TuneInv,
         TuneTypes, ScriptIsApart, Waiting, AtWork, FileIsWhole, Asked, Files,
         ScriptPcs, ThreadPcs
<1> QED
  BY <1>1, <1>2, <1>3, <1>4 DEF TuneInv

\* The script writes what it read, with its own channel.
LEMMA TuneWriteStep ==
    ASSUME TuneInv, NEW r \in Requests, Tuner!Write(r)
    PROVE  TuneInv'
<1>1. TuneTypes'
  BY DEF Tuner!Write, Tuner!Script, TuneInv, TuneTypes, Asked, Files, Heardable,
         ThreadPcs, ScriptPcs
<1>2. StreamFollows'
  BY DEF Tuner!Write, Tuner!Script, TuneInv, TuneTypes, StreamFollows, Files,
         ScriptPcs
<1>3. ASSUME tuneTimeouts' = 0
      PROVE  FileIsWhole'
  BY <1>3 DEF Tuner!Write, Tuner!Script, TuneInv, TuneTypes, FileIsWhole, Files,
         ScriptPcs, ScriptIsApart
<1>4. ASSUME tuneTimeouts' = 0, NEW q \in Requests
      PROVE  ScriptIsApart(q)'
  BY <1>4, RetuneAssumption DEF Tuner!Write, Tuner!Script, TuneInv, TuneTypes,
         ScriptIsApart, Waiting, AtWork, FileIsWhole, Asked, Files, ScriptPcs,
         ThreadPcs
<1> QED
  BY <1>1, <1>2, <1>3, <1>4 DEF TuneInv

\* The stream is restarted with the file as it is, or the script fails.
LEMMA TuneRestartStep ==
    ASSUME TuneInv, NEW r \in Requests, Tuner!Restart(r)
    PROVE  TuneInv'
<1>1. TuneTypes'
  BY DEF Tuner!Restart, Tuner!Script, TuneInv, TuneTypes, Asked, Files, Heardable,
         ThreadPcs, ScriptPcs
<1>2. StreamFollows'
  BY DEF Tuner!Restart, Tuner!Script, TuneInv, TuneTypes, StreamFollows, Files,
         ScriptPcs
<1>3. ASSUME tuneTimeouts' = 0
      PROVE  FileIsWhole'
  BY <1>3 DEF Tuner!Restart, Tuner!Script, TuneInv, TuneTypes, FileIsWhole, Files,
         ScriptPcs, ScriptIsApart
<1>4. ASSUME tuneTimeouts' = 0, NEW q \in Requests
      PROVE  ScriptIsApart(q)'
  <2>1. ScriptIsApart(q) /\ ScriptIsApart(r) /\ TuneTypes
    BY <1>4 DEF Tuner!Restart, Tuner!Script, TuneInv
  <2>2. CASE q = r
    BY <2>1, <2>2, RetuneAssumption DEF Tuner!Restart, Tuner!Script, TuneTypes,
           ScriptIsApart, Waiting, AtWork, Asked, ScriptPcs, ThreadPcs
  <2>3. CASE q # r
    <3>1. tuneScript'[q] = tuneScript[q]
      BY <2>1, <2>3 DEF Tuner!Restart, Tuner!Script, TuneTypes
    <3>2. tuneLast # q /\ UNCHANGED <<tuneLast, tuneLock, tuneEnv, tuneLines>>
      BY <2>1, <2>3 DEF Tuner!Restart, Tuner!Script, ScriptIsApart, AtWork
    <3>3. UNCHANGED <<tuneRequest, tuneThread>>
      BY DEF Tuner!Restart, Tuner!Script
    <3> QED
      BY <2>1, <3>1, <3>2, <3>3 DEF ScriptIsApart, Waiting, AtWork
  <2> QED
    BY <2>2, <2>3
<1> QED
  BY <1>1, <1>2, <1>3, <1>4 DEF TuneInv

\* A step of a retune keeps the invariant.
LEMMA TuneStep == TuneInv /\ TuneNext => TuneInv'
BY TuneRefuseStep, TuneBeginStep, TuneNoticeStep, TuneConnectStep, TuneConnectFailsStep,
   TuneSshReturnsStep, TuneSshExpiresStep, TuneRestartTranscriberStep, TuneReadEnvStep,
   TuneTruncateStep, TuneWriteStep, TuneRestartStep
   DEF TuneNext

\* What the invariant says once no script is at work.
LEMMA TuneIsRight ==
    TuneInv => Tuner!StreamMatchesSettings /\ Tuner!RetunesDoNotMix
<1> SUFFICES ASSUME TuneInv
             PROVE  Tuner!StreamMatchesSettings /\ Tuner!RetunesDoNotMix
  OBVIOUS
<1>1. Tuner!StreamMatchesSettings
  BY DEF TuneInv, StreamFollows, Tuner!StreamMatchesSettings, Tuner!Quiet
<1>2. ASSUME tuneTimeouts = 0, Tuner!Quiet
      PROVE  tuneEnv.rest
  BY <1>2 DEF TuneInv, FileIsWhole, Tuner!Quiet
<1>3. ASSUME tuneTimeouts = 0, NEW r \in Requests, tuneLast = r,
             tuneRequest[r].answer = "ok"
      PROVE  tuneStream = tuneRequest[r].channel
  BY <1>3 DEF TuneInv, ScriptIsApart
<1> QED
  BY <1>1, <1>2, <1>3 DEF Tuner!RetunesDoNotMix

\* Any requests to retune, ssh commands that fail or are given up, in any order: once no
\* script is at work the stream plays what the settings name, and the lock keeps the
\* retunes apart that were not given up (retune_channel, retune_pi).
THEOREM RetunesAreRight == HostSpec => []RetuneIsRight
<1> DEFINE Inv == part = "retune" => TuneInv
<1>1. HostInit => Inv
  BY TuneInit DEF HostInit
<1>2. Inv /\ [HostNext]_allVars => Inv'
  <2> SUFFICES ASSUME part = "retune" => TuneInv, [HostNext]_allVars, part' = "retune"
               PROVE  TuneInv'
    OBVIOUS
  <2>1. part = "retune" /\ (TuneNext \/ UNCHANGED RetuneVars)
    BY DEF HostNext, Only, allVars, TuneNext
  <2>2. CASE TuneNext
    BY <2>1, <2>2, TuneStep
  <2>3. CASE UNCHANGED RetuneVars
    BY <2>1, <2>3 DEF RetuneVars, TuneInv, TuneTypes, StreamFollows, FileIsWhole,
         ScriptIsApart, Waiting, AtWork
  <2> QED
    BY <2>1, <2>2, <2>3
<1>3. Inv => RetuneIsRight
  BY TuneIsRight DEF RetuneIsRight
<1> QED
  BY <1>1, <1>2, <1>3, PTL DEF HostSpec

-----------------------------------------------------------------------------
(* The performance history of a host.                                      *)

HistoryNext ==
    \/ History!Tick \/ History!Restart
    \/ \E c \in Captures : History!Collect(c)
    \/ \E c \in Captures : History!Record(c)
    \/ \E c \in Captures : History!SetLatest(c)

HistoryTypes ==
    /\ hostNow \in Nat /\ hostRestarts \in Nat
    /\ hostCapture \in [Captures -> Nat \cup {-1}]
    /\ hostRecorded \subseteq Captures
    /\ hostLastPersist = -1 \/ hostLastPersist \in hostDb
    /\ hostDb \subseteq hostSeen /\ hostSeen \subseteq 0 .. hostNow

\* A snapshot is recorded no later than MaxDelay after it was taken.
CapturesAreLate ==
    \A c \in Captures : hostCapture[c] # -1 =>
        hostCapture[c] <= hostNow /\ hostNow - hostCapture[c] <= MaxDelay

\* The sample p is near enough to stand for t.
Near(t, p) == t - p < PersistInterval + MaxDelay /\ p - t < PersistInterval + MaxDelay

\* A sample recorded in the persisted span was persisted, or one near it was.
SpanIsCovered ==
    \A t \in hostSeen \ hostUnsaved :
        (\A u \in hostSeen : t >= u - PersistSpan + PersistInterval + MaxDelay) =>
            \E p \in hostDb : Near(t, p)

\* The persisted samples by the process that persisted them: those of one are an
\* interval apart, those of earlier ones before whatever is captured now.
Runs(run) ==
    /\ \A p \in hostDb : run[p] \in 0 .. hostRestarts
    /\ \A p, q \in hostDb : run[p] = run[q] /\ p < q => q - p >= PersistInterval
    /\ \A p \in hostDb : run[p] = hostRestarts =>
          hostLastPersist # -1 /\ p <= hostLastPersist
    /\ \A p \in hostDb : run[p] # hostRestarts =>
          \A c \in Captures : hostCapture[c] # -1 => p <= hostCapture[c]

HistoryInv ==
    /\ HistoryTypes /\ CapturesAreLate /\ SpanIsCovered
    /\ hostSeen # {} => \E m \in hostSeen : \A u \in hostSeen : u <= m
    /\ \E run : Runs(run)
    /\ \E low \in Int : hostDb \subseteq low .. low + PersistSpan

\* Nothing is known of a host at the beginning.
LEMMA HistoryInit == ASSUME History!Init PROVE HistoryInv
<1>1. HistoryTypes /\ CapturesAreLate /\ SpanIsCovered
  BY DEF History!Init, History!None, HistoryTypes, CapturesAreLate, SpanIsCovered
<1>2. Runs([p \in {} |-> 0]) /\ hostDb \subseteq 0 .. 0 + PersistSpan
  BY DEF History!Init, Runs
<1> QED
  BY <1>1, <1>2 DEF HistoryInv, History!Init

\* A capture is begun with the time of now.
LEMMA CollectKeeps ==
    ASSUME HistoryInv, NEW c \in Captures, History!Collect(c)
    PROVE  HistoryInv'
<1>1. HistoryTypes /\ CapturesAreLate
  BY DEF HistoryInv
<1>2. UNCHANGED <<hostNow, hostRecorded, hostLastPersist, hostDb, hostSeen, hostUnsaved,
                  hostRestarts>>
  BY DEF History!Collect
<1>3. hostCapture' = [hostCapture EXCEPT ![c] = hostNow]
  BY DEF History!Collect
<1>4. HistoryTypes'
  BY <1>1, <1>2, <1>3 DEF HistoryTypes
<1>5. CapturesAreLate'
  BY <1>1, <1>2, <1>3, HistoryAssumption DEF HistoryTypes, CapturesAreLate
<1>6. SpanIsCovered'
  BY <1>2 DEF HistoryInv, SpanIsCovered
<1>7. PICK run : Runs(run)
  BY DEF HistoryInv
<1>8. Runs(run)'
  <2>1. ASSUME NEW p \in hostDb, run[p] # hostRestarts, NEW d \in Captures,
               hostCapture'[d] # -1
        PROVE  p <= hostCapture'[d]
    BY <1>1, <1>3, <1>7, <2>1 DEF HistoryTypes, Runs
  <2> QED
    BY <1>2, <1>7, <2>1 DEF Runs
<1>9. \E low \in Int : hostDb' \subseteq low .. low + PersistSpan
  BY <1>2 DEF HistoryInv
<1> QED
  BY <1>2, <1>4, <1>5, <1>6, <1>8, <1>9 DEF HistoryInv

\* A second passes.
LEMMA TickKeeps == ASSUME HistoryInv, History!Tick PROVE HistoryInv'
<1>1. HistoryTypes /\ CapturesAreLate
  BY DEF HistoryInv
<1>2. UNCHANGED <<hostCapture, hostRecorded, hostLastPersist, hostDb, hostSeen, hostUnsaved,
                  hostRestarts>>
  BY DEF History!Tick
<1>3. hostNow' = hostNow + 1
  BY DEF History!Tick
<1>4. HistoryTypes'
  BY <1>1, <1>2, <1>3 DEF HistoryTypes
<1>5. CapturesAreLate'
  <2>1. ASSUME NEW c \in Captures, hostCapture'[c] # -1
        PROVE  hostCapture'[c] <= hostNow' /\ hostNow' - hostCapture'[c] <= MaxDelay
    <3>1. hostCapture[c] # -1 /\ hostNow - hostCapture[c] < MaxDelay
      BY <1>2, <2>1 DEF History!Tick, History!None
    <3> QED
      BY <1>1, <1>2, <1>3, <3>1, HistoryAssumption DEF HistoryTypes, CapturesAreLate
  <2> QED
    BY <2>1 DEF CapturesAreLate
<1> QED
  BY <1>2, <1>4, <1>5 DEF HistoryInv, SpanIsCovered, Runs

\* The samples of the process that was stopped are those of an earlier one.
LEMMA HistoryRestartKeeps == ASSUME HistoryInv, History!Restart PROVE HistoryInv'
<1>1. HistoryTypes
  BY DEF HistoryInv
<1>2. UNCHANGED <<hostNow, hostDb, hostSeen, hostUnsaved>> /\ hostLastPersist' = -1
      /\ hostRestarts' = hostRestarts + 1 /\ hostCapture' = [c \in Captures |-> -1]
      /\ hostRecorded' = {}
  BY DEF History!Restart, History!None
<1>3. HistoryTypes' /\ CapturesAreLate' /\ SpanIsCovered'
  BY <1>1, <1>2 DEF HistoryInv, HistoryTypes, CapturesAreLate, SpanIsCovered
<1>4. PICK run : Runs(run)
  BY DEF HistoryInv
<1>5. Runs(run)'
  BY <1>1, <1>2, <1>4 DEF Runs, HistoryTypes
<1>6. \E low \in Int : hostDb' \subseteq low .. low + PersistSpan
  BY <1>2 DEF HistoryInv
<1> QED
  BY <1>2, <1>3, <1>5, <1>6 DEF HistoryInv

\* The payload is set.
LEMMA SetLatestKeeps ==
    ASSUME HistoryInv, NEW c \in Captures, History!SetLatest(c)
    PROVE  HistoryInv'
<1>1. HistoryTypes /\ CapturesAreLate
  BY DEF HistoryInv
<1>2. UNCHANGED <<hostNow, hostLastPersist, hostDb, hostSeen, hostUnsaved, hostRestarts>>
  BY DEF History!SetLatest
<1>3. hostCapture' = [hostCapture EXCEPT ![c] = -1] /\ hostRecorded' \subseteq hostRecorded
  BY DEF History!SetLatest, History!None
<1>4. \A d \in Captures : hostCapture'[d] # -1 => hostCapture'[d] = hostCapture[d]
  BY <1>1, <1>3 DEF HistoryTypes
<1>5. HistoryTypes' /\ CapturesAreLate'
  BY <1>1, <1>2, <1>3, <1>4 DEF HistoryTypes, CapturesAreLate
<1>6. SpanIsCovered'
  BY <1>2 DEF HistoryInv, SpanIsCovered
<1>7. PICK run : Runs(run)
  BY DEF HistoryInv
<1>8. Runs(run)'
  BY <1>2, <1>4, <1>7 DEF Runs
<1>9. \E low \in Int : hostDb' \subseteq low .. low + PersistSpan
  BY <1>2 DEF HistoryInv
<1> QED
  BY <1>2, <1>5, <1>6, <1>8, <1>9 DEF HistoryInv

\* A sample is persisted, or is near the one that was persisted last.
LEMMA RecordKeeps ==
    ASSUME HistoryInv, NEW c \in Captures, History!Record(c)
    PROVE  HistoryInv'
<1> DEFINE t == hostCapture[c]
           near == PersistInterval + MaxDelay
<1>1. HistoryTypes /\ CapturesAreLate /\ SpanIsCovered
  BY DEF HistoryInv
<1>2. UNCHANGED <<hostNow, hostRestarts>> /\ hostSeen' = hostSeen \cup {t}
  BY DEF History!Record
<1>3. t \in Nat /\ t <= hostNow /\ hostNow - t <= MaxDelay
  BY <1>1 DEF History!Record, History!None, HistoryTypes, CapturesAreLate
<1>4. hostSeen' \subseteq 0 .. hostNow'
  <2>1. hostNow \in Nat /\ hostSeen \subseteq 0 .. hostNow
    BY <1>1 DEF HistoryTypes
  <2>2. t \in 0 .. hostNow
    BY <1>3, <2>1
  <2> QED
    BY <1>2, <2>1, <2>2
<1>5. PICK run : Runs(run)
  BY DEF HistoryInv
<1>6. PICK low \in Int : hostDb \subseteq low .. low + PersistSpan
  BY DEF HistoryInv
<1>7. hostDb \subseteq Nat /\ hostSeen \subseteq Nat /\ hostNow \in Nat /\ hostRestarts \in Nat
  BY <1>1 DEF HistoryTypes
<1>11. hostSeen' # {} => \E m \in hostSeen' : \A u \in hostSeen' : u <= m
  <2>1. CASE hostSeen = {}
    BY <1>2, <1>3, <2>1
  <2>2. CASE hostSeen # {}
    <3>1. PICK m \in hostSeen : \A u \in hostSeen : u <= m
      BY <2>2 DEF HistoryInv
    <3>2. CASE m <= t
      <4>1. \A u \in hostSeen' : u <= t
        BY <1>2, <1>3, <1>7, <3>1, <3>2
      <4> QED
        BY <1>2, <4>1
    <3>3. CASE ~(m <= t)
      <4>1. \A u \in hostSeen' : u <= m
        BY <1>2, <1>3, <1>7, <3>1, <3>3
      <4> QED
        BY <1>2, <3>1, <4>1
    <3> QED
      BY <3>2, <3>3
  <2> QED
    BY <2>1, <2>2
<1>8. CASE /\ History!Due(t)
           /\ hostDb' = History!Inserted(t) /\ hostLastPersist' = t
           /\ hostRecorded' = hostRecorded \cup {c}
           /\ UNCHANGED <<hostCapture, hostUnsaved>>
  <2> PICK newRun : newRun = [p \in hostDb' |-> IF p = t THEN hostRestarts ELSE run[p]]
    OBVIOUS
  <2>1. hostDb' = {p \in hostDb \cup {t} : p >= t - PersistSpan}
    BY <1>8 DEF History!Inserted
  <2>2. t \in hostDb'
    BY <1>3, <2>1, HistoryAssumption
  <2>3. \A p \in hostDb : run[p] = hostRestarts => t - p >= PersistInterval
    <3> SUFFICES ASSUME NEW p \in hostDb, run[p] = hostRestarts
                 PROVE  t - p >= PersistInterval
      OBVIOUS
    <3>1. hostLastPersist # -1 /\ p <= hostLastPersist
      BY <1>5 DEF Runs
    <3>2. hostLastPersist \in Nat
      BY <1>1, <1>7, <3>1 DEF HistoryTypes
    <3>3. t - hostLastPersist >= PersistInterval
      BY <1>8, <3>1 DEF History!Due, History!None
    <3> QED
      BY <1>3, <1>7, <3>1, <3>2, <3>3, HistoryAssumption
  <2>4. \A p \in hostDb : p <= t
    BY <1>3, <1>5, <1>7, <2>3, HistoryAssumption DEF Runs, History!Record, History!None
  <2>5. HistoryTypes'
    BY <1>1, <1>2, <1>4, <1>8, <2>1, <2>2 DEF HistoryTypes
  <2>6. CapturesAreLate'
    BY <1>1, <1>2, <1>8 DEF CapturesAreLate
  <2>7. SpanIsCovered'
    <3> SUFFICES ASSUME NEW s \in hostSeen' \ hostUnsaved,
                        \A u \in hostSeen' : s >= u - PersistSpan + PersistInterval + MaxDelay
                 PROVE  \E p \in hostDb' : Near(s, p)
      BY <1>8 DEF SpanIsCovered
    <3>1. CASE s = t
      BY <1>3, <2>2, <3>1, HistoryAssumption DEF Near
    <3>2. CASE s # t
      <4>1. s \in hostSeen \ hostUnsaved
        BY <1>2, <3>2
      <4>2. PICK p \in hostDb : Near(s, p)
        BY <1>1, <1>2, <4>1 DEF SpanIsCovered
      <4>3. s >= t - PersistSpan + PersistInterval + MaxDelay
        BY <1>2
      <4>4. p >= t - PersistSpan
        BY <1>3, <1>7, <4>1, <4>2, <4>3, HistoryAssumption DEF Near
      <4> QED
        BY <2>1, <4>2, <4>4
    <3> QED
      BY <3>1, <3>2
  <2>8. Runs(newRun)'
    <3>1. \A p \in hostDb' : newRun[p] = IF p = t THEN hostRestarts ELSE run[p]
      OBVIOUS
    <3>2. \A p \in hostDb' : p = t \/ p \in hostDb
      BY <2>1
    <3>3. \A p \in hostDb' : newRun[p] \in 0 .. hostRestarts
      <4>1. hostRestarts \in 0 .. hostRestarts /\ \A p \in hostDb : run[p] \in 0 .. hostRestarts
        BY <1>5, <1>7 DEF Runs
      <4> QED
        BY <3>1, <3>2, <4>1
    <3>4. ASSUME NEW p \in hostDb', NEW q \in hostDb', newRun[p] = newRun[q], p < q
          PROVE  q - p >= PersistInterval
      <4>1. CASE q = t
        BY <1>3, <2>3, <3>1, <3>2, <3>4, <4>1
      <4>2. CASE q # t
        <5>1. p # t
          <6>1. q \in Nat /\ q <= t
            BY <1>7, <2>4, <3>2, <4>2
          <6> QED
            BY <1>3, <3>4, <6>1
        <5> QED
          BY <1>5, <3>1, <3>2, <3>4, <4>2, <5>1 DEF Runs
      <4> QED
        BY <4>1, <4>2
    <3>5. \A p \in hostDb' : p <= t
      BY <1>3, <2>4, <3>2
    <3>6. \A p \in hostDb' : newRun[p] # hostRestarts =>
             \A d \in Captures : hostCapture[d] # -1 => p <= hostCapture[d]
      BY <1>5, <3>1, <3>2 DEF Runs
    <3>7. hostLastPersist' = t /\ t # -1
      BY <1>3, <1>8
    <3> HIDE DEF t
    <3> QED
      BY <1>2, <1>8, <3>3, <3>4, <3>5, <3>6, <3>7 DEF Runs
  <2>9. hostDb' \subseteq t - PersistSpan .. (t - PersistSpan) + PersistSpan
    <3> SUFFICES ASSUME NEW p \in hostDb'
                 PROVE  p \in t - PersistSpan .. (t - PersistSpan) + PersistSpan
      OBVIOUS
    <3>1. p \in Nat /\ p <= t /\ p >= t - PersistSpan
      BY <1>3, <1>7, <2>1, <2>4
    <3> QED
      BY <1>3, <3>1, HistoryAssumption
  <2>10. t - PersistSpan \in Int
    BY <1>3, HistoryAssumption
  <2> QED
    BY <1>11, <2>5, <2>6, <2>7, <2>8, <2>9, <2>10 DEF HistoryInv
<1>9. CASE /\ ~History!Due(t)
           /\ hostRecorded' = hostRecorded \cup {c}
           /\ UNCHANGED <<hostCapture, hostDb, hostLastPersist, hostUnsaved>>
  <2>1. hostLastPersist \in hostDb /\ t - hostLastPersist < PersistInterval
    <3>1. hostLastPersist \in hostDb /\ ~(t - hostLastPersist >= PersistInterval)
      BY <1>1, <1>9 DEF HistoryTypes, History!Due, History!None
    <3> QED
      BY <1>3, <1>7, <3>1, HistoryAssumption
  <2>2. hostLastPersist \in 0 .. hostNow
    BY <1>1, <2>1 DEF HistoryTypes
  <2>3. Near(t, hostLastPersist)
    BY <1>1, <1>3, <2>1, <2>2, HistoryAssumption DEF Near, HistoryTypes
  <2>4. SpanIsCovered'
    BY <1>1, <1>2, <1>9, <2>1, <2>3 DEF SpanIsCovered
  <2>5. HistoryTypes' /\ CapturesAreLate'
    BY <1>1, <1>2, <1>4, <1>9 DEF HistoryTypes, CapturesAreLate
  <2>6. Runs(run)'
    BY <1>2, <1>5, <1>9 DEF Runs
  <2> QED
    BY <1>6, <1>9, <1>11, <2>4, <2>5, <2>6 DEF HistoryInv
<1>10. CASE /\ hostCapture' = [hostCapture EXCEPT ![c] = -1]
            /\ hostUnsaved' = hostUnsaved \cup {t}
            /\ hostLastPersist' = hostLastPersist
            /\ UNCHANGED <<hostRecorded, hostDb>>
  <2>1. \A d \in Captures : hostCapture'[d] # -1 => hostCapture'[d] = hostCapture[d]
    BY <1>1, <1>10 DEF HistoryTypes
  <2>2. HistoryTypes' /\ CapturesAreLate'
    BY <1>1, <1>2, <1>4, <1>10, <2>1 DEF HistoryTypes, CapturesAreLate
  <2>3. SpanIsCovered'
    BY <1>1, <1>2, <1>10 DEF SpanIsCovered
  <2>4. Runs(run)'
    BY <1>2, <1>5, <1>10, <2>1 DEF Runs
  <2> QED
    BY <1>6, <1>10, <1>11, <2>2, <2>3, <2>4 DEF HistoryInv
<1> QED
  BY <1>8, <1>9, <1>10 DEF History!Record, History!LastAfterFault, History!None

\* A sample near another one of the history is in it, too.
LEMMA NoGap == HistoryInv => History!HistoryHasNoGap
<1> SUFFICES ASSUME HistoryInv, hostSeen # {}, NEW t \in hostSeen \ hostUnsaved,
                    t >= History!Newest(hostSeen) - PersistSpan + PersistInterval + MaxDelay
             PROVE  \E p \in History!History(History!Newest(hostSeen)) : Near(t, p)
  BY DEF History!HistoryHasNoGap, Near
<1> DEFINE n == History!Newest(hostSeen)
<1>1. hostSeen \subseteq 0 .. hostNow /\ hostNow \in Nat /\ hostDb \subseteq hostSeen
  BY DEF HistoryInv, HistoryTypes
<1>2. \E m \in hostSeen : \A u \in hostSeen : u <= m
  BY DEF HistoryInv
<1>3. n \in hostSeen /\ \A u \in hostSeen : u <= n
  BY <1>2 DEF History!Newest
<1>4. t >= n - PersistSpan + PersistInterval + MaxDelay
  OBVIOUS
<1> HIDE DEF n
<1>7. n \in Nat /\ t \in Nat
  BY <1>1, <1>3
<1>5. PICK p \in hostDb : Near(t, p)
  <2>1. \A u \in hostSeen : t >= u - PersistSpan + PersistInterval + MaxDelay
    BY <1>1, <1>3, <1>4, <1>7, HistoryAssumption
  <2> QED
    BY <2>1 DEF HistoryInv, SpanIsCovered
<1>6. p >= n - PersistSpan
  BY <1>1, <1>4, <1>5, <1>7, HistoryAssumption DEF Near
<1> QED
  BY <1>5, <1>6 DEF History!History, n

\* The persisted samples of one process are an interval apart, so that there are no more
\* of them than intervals in the span.
LEMMA TableIsSmall == HistoryInv => History!TableIsBounded
<1> SUFFICES ASSUME HistoryInv PROVE History!TableIsBounded
  OBVIOUS
<1>1. PICK run : Runs(run)
  BY DEF HistoryInv
<1>2. PICK low \in Int : hostDb \subseteq low .. low + PersistSpan
  BY DEF HistoryInv
<1>3. hostRestarts \in Nat /\ hostDb \subseteq Int
  BY <1>2, HistoryAssumption DEF HistoryInv, HistoryTypes
<1> DEFINE Place(p) == (p - low) \div PersistInterval
           places == PersistSpan \div PersistInterval
           T == (0 .. hostRestarts) \X (0 .. places)
           f == [p \in hostDb |-> <<run[p], Place(p)>>]
<1>4. places \in Nat
  BY HistoryAssumption
<1>5. ASSUME NEW p \in hostDb PROVE Place(p) \in 0 .. places
  <2>1. p - low \in 0 .. PersistSpan
    BY <1>2, <1>3, HistoryAssumption
  <2>2. \A a \in Nat, b \in Nat : a <= b => a \div PersistInterval \in 0 .. b \div PersistInterval
    BY HistoryAssumption
  <2> QED
    BY <2>1, <2>2, HistoryAssumption
<1>6. ASSUME NEW p \in hostDb, NEW q \in hostDb, run[p] = run[q], Place(p) = Place(q)
      PROVE  p = q
  <2> SUFFICES ASSUME NEW x \in hostDb, NEW y \in hostDb, run[x] = run[y], x < y,
                      Place(x) = Place(y)
               PROVE  FALSE
    BY <1>3, <1>6
  <2>1. y - x >= PersistInterval
    BY <1>1 DEF Runs
  <2>2. x - low \in Nat /\ y - low \in Nat /\ (y - low) - (x - low) >= PersistInterval
    BY <1>2, <1>3, <2>1, HistoryAssumption
  <2>3. \A a \in Nat, b \in Nat :
           b - a >= PersistInterval => a \div PersistInterval # b \div PersistInterval
    BY HistoryAssumption
  <2> QED
    BY <2>2, <2>3
<1>7. f \in [hostDb -> T]
  <2>1. \A p \in hostDb : run[p] \in 0 .. hostRestarts
    BY <1>1 DEF Runs
  <2> HIDE DEF Place, places
  <2> QED
    BY <1>5, <2>1
<1>8. ASSUME NEW p \in hostDb, NEW q \in hostDb, f[p] = f[q] PROVE p = q
  <2> HIDE DEF Place
  <2> QED
    BY <1>6, <1>8
<1> HIDE DEF f, Place
<1>9. f \in Injection(hostDb, T)
  BY <1>7, <1>8 DEF Injection, IsInjective
<1>10. IsFiniteSet(T) /\ Cardinality(T) = (hostRestarts + 1) * (places + 1)
  <2>1. /\ IsFiniteSet(0 .. hostRestarts) /\ Cardinality(0 .. hostRestarts) = hostRestarts + 1
        /\ IsFiniteSet(0 .. places) /\ Cardinality(0 .. places) = places + 1
    <3> HIDE DEF places
    <3> QED
      BY <1>3, <1>4, FS_Interval
  <2> HIDE DEF places
  <2> QED
    BY <2>1, FS_Product
<1>11. Cardinality(hostDb) <= (hostRestarts + 1) * (places + 1)
  BY <1>9, <1>10, FS_Injection
<1>12. History!Cardinality(hostDb) = Cardinality(hostDb)
  BY DEF History!Cardinality, Cardinality
<1> QED
  BY <1>11, <1>12 DEF History!TableIsBounded

\* Another part's step leaves the history alone.
LEMMA HistoryStutters == ASSUME HistoryInv, UNCHANGED HistoryVars PROVE HistoryInv'
<1>1. /\ hostNow' = hostNow /\ hostCapture' = hostCapture /\ hostRecorded' = hostRecorded
      /\ hostLastPersist' = hostLastPersist /\ hostDb' = hostDb /\ hostSeen' = hostSeen
      /\ hostUnsaved' = hostUnsaved /\ hostRestarts' = hostRestarts
  BY DEF HistoryVars
<1> QED
  BY <1>1 DEF HistoryInv, HistoryTypes, CapturesAreLate, SpanIsCovered, Runs

\* Every step of the history keeps its invariant.
LEMMA HistoryStep == ASSUME HistoryInv, HistoryNext PROVE HistoryInv'
BY CollectKeeps, RecordKeeps, SetLatestKeeps, TickKeeps, HistoryRestartKeeps
   DEF HistoryNext

\* Whatever order snapshots are recorded in, with failures of SQLite and restarts, the
\* persisted history has no gap longer than its interval and the delay of a capture, and
\* holds no more samples than intervals of its span, per process (PerformanceHistoryStore).
THEOREM HistoryRight == HostSpec => []HistoryIsRight
<1> DEFINE Inv == part = "history" => HistoryInv
<1>1. HostInit => Inv
  BY HistoryInit DEF HostInit
<1>2. Inv /\ [HostNext]_allVars => Inv'
  <2> SUFFICES ASSUME part = "history" => HistoryInv, [HostNext]_allVars, part' = "history"
               PROVE  HistoryInv'
    OBVIOUS
  <2>1. part = "history" /\ (HistoryNext \/ UNCHANGED HistoryVars)
    BY DEF HostNext, Only, allVars, HistoryNext
  <2> QED
    BY <2>1, HistoryStep, HistoryStutters
<1>3. Inv => HistoryIsRight
  BY NoGap, TableIsSmall DEF HistoryIsRight
<1> QED
  BY <1>1, <1>2, <1>3, PTL DEF HostSpec
-----------------------------------------------------------------------------
(* The captions and the vessels: the newest of a set.                      *)

\* In S, before[p] are those that precede p; the first n.
Precedes(S, before) ==
    /\ IsFiniteSet(S) /\ before \in [S -> SUBSET S]
    /\ \A p \in S : p \notin before[p]
    /\ \A p, q \in S : p = q \/ p \in before[q] \/ q \in before[p]
    /\ \A p, q \in S : q \in before[p] => before[q] \subseteq before[p]

First(S, before, n) == {p \in S : Cardinality(before[p]) < n}

\* Of a set in order there are n first, or the set has no more.
LEMMA FirstAreMany ==
    ASSUME NEW S, NEW n \in Nat, NEW before, Precedes(S, before)
    PROVE  /\ IsFiniteSet(First(S, before, n)) /\ Cardinality(First(S, before, n)) \in Nat
           /\ Cardinality(First(S, before, n)) <= n
           /\ Cardinality(First(S, before, n)) = n \/ First(S, before, n) = S
           /\ Cardinality(S) <= n => First(S, before, n) = S
<1>0. /\ IsFiniteSet(S) /\ before \in [S -> SUBSET S]
      /\ \A p \in S : p \notin before[p]
      /\ \A p, q \in S : p = q \/ p \in before[q] \/ q \in before[p]
      /\ \A p, q \in S : q \in before[p] => before[q] \subseteq before[p]
  BY DEF Precedes
<1> USE <1>0
<1> SUFFICES LET first == {p \in S : Cardinality(before[p]) < n}
             IN  /\ IsFiniteSet(first) /\ Cardinality(first) \in Nat
                 /\ Cardinality(first) <= n
                 /\ Cardinality(first) = n \/ first = S
                 /\ Cardinality(S) <= n => first = S
  BY DEF First
<1> DEFINE first == {p \in S : Cardinality(before[p]) < n}
           size == Cardinality(S)
           rank == [p \in S |-> Cardinality(before[p])]
<1>1. size \in Nat
  BY FS_CardinalityType
<1>2. ASSUME NEW p \in S
      PROVE  IsFiniteSet(before[p]) /\ rank[p] \in Nat /\ rank[p] < size
  <2>1. before[p] \subseteq S \ {p}
    OBVIOUS
  <2>2. IsFiniteSet(S \ {p}) /\ Cardinality(S \ {p}) = size - 1
    BY FS_RemoveElement
  <2>3. IsFiniteSet(before[p]) /\ Cardinality(before[p]) <= size - 1
    BY <2>1, <2>2, FS_Subset
  <2>4. Cardinality(before[p]) \in Nat
    BY <2>3, FS_CardinalityType
  <2> HIDE DEF size
  <2> QED
    BY <1>1, <2>3, <2>4
<1>3. ASSUME NEW p \in S, NEW q \in S, q \in before[p] PROVE rank[q] < rank[p]
  <2>1. before[q] \subseteq before[p] \ {q}
    BY <1>3
  <2>2. IsFiniteSet(before[p] \ {q})
        /\ Cardinality(before[p] \ {q}) = Cardinality(before[p]) - 1
    BY <1>2, <1>3, FS_RemoveElement
  <2>3. Cardinality(before[q]) <= Cardinality(before[p]) - 1
    BY <2>1, <2>2, FS_Subset
  <2>4. Cardinality(before[q]) \in Nat /\ Cardinality(before[p]) \in Nat
    BY <1>2
  <2>5. Cardinality(before[q]) < Cardinality(before[p])
    BY <2>3, <2>4
  <2> QED
    BY <2>5
<1>4. ASSUME NEW p \in S, NEW q \in S, rank[p] = rank[q] PROVE p = q
  <2>1. rank[p] \in Nat /\ rank[q] \in Nat
    BY <1>2
  <2> HIDE DEF rank
  <2> QED
    BY <1>3, <1>4, <2>1
<1>5. IsFiniteSet(first)
  BY FS_Subset
<1>6. Cardinality(first) \in Nat
  BY <1>5, FS_CardinalityType
<1>7. CASE size <= n
  <2>1. \A p \in S : Cardinality(before[p]) < n
    <3> HIDE DEF size
    <3> QED
      BY <1>1, <1>2, <1>7
  <2>2. first = S
    BY <2>1
  <2> HIDE DEF first
  <2>3. Cardinality(first) <= n /\ first = S
    BY <1>6, <1>7, <2>2
  <2> QED
    BY <1>5, <1>6, <2>3 DEF first
<1>8. CASE ~(size <= n)
  <2> DEFINE numbers == 0 .. size - 1
             places == 0 .. n - 1
             f == [p \in first |-> rank[p]]
  <2>1. IsFiniteSet(numbers) /\ Cardinality(numbers) = size
    <3>1. Cardinality(0 .. size - 1) = IF 0 > size - 1 THEN 0 ELSE (size - 1) - 0 + 1
      BY <1>1, FS_Interval
    <3>2. IsFiniteSet(0 .. size - 1)
      BY <1>1, FS_Interval
    <3> HIDE DEF size
    <3> QED
      BY <1>1, <1>8, <3>1, <3>2
  <2>2. rank \in Injection(S, numbers)
    <3>1. \A p \in S : rank[p] \in numbers
      <4> HIDE DEF size, rank
      <4> QED
        BY <1>1, <1>2
    <3>2. rank \in [S -> numbers]
      BY <3>1
    <3> HIDE DEF rank, numbers
    <3> QED
      BY <1>4, <3>2 DEF Injection, IsInjective
  <2>3. rank \in Surjection(S, numbers)
    <3> HIDE DEF rank, numbers
    <3> QED
      BY <2>1, <2>2, FS_Injection
  <2>4. IsFiniteSet(places) /\ Cardinality(places) = n
    <3>1. Cardinality(0 .. n - 1) = IF 0 > n - 1 THEN 0 ELSE (n - 1) - 0 + 1
      BY FS_Interval
    <3>2. IsFiniteSet(0 .. n - 1)
      BY FS_Interval
    <3> QED
      BY <3>1, <3>2
  <2>5. \A p \in first : f[p] = rank[p] /\ rank[p] \in places
    BY <1>2
  <2>6. f \in Injection(first, places)
    <3>1. f \in [first -> places]
      BY <2>5
    <3>2. \A p, q \in first : f[p] = f[q] => p = q
      <4> HIDE DEF rank, f
      <4> QED
        BY <1>4, <2>5
    <3> HIDE DEF f, first, places
    <3> QED
      BY <3>1, <3>2 DEF Injection, IsInjective
  <2>7. f \in Surjection(first, places)
    <3>1. ASSUME NEW k \in places PROVE \E p \in first : f[p] = k
      <4>1. k \in numbers
        <5> HIDE DEF size
        <5> QED
          BY <1>1, <1>8, <3>1
      <4>2. PICK p \in S : rank[p] = k
        <5> HIDE DEF rank, numbers
        <5> QED
          BY <2>3, <4>1 DEF Surjection
      <4>3. p \in first
        BY <3>1, <4>2
      <4> QED
        BY <2>5, <4>2, <4>3
    <3>2. f \in [first -> places]
      BY <2>5
    <3> HIDE DEF f, first, places
    <3> QED
      BY <3>1, <3>2 DEF Surjection
  <2>8. Cardinality(first) = n
    <3> HIDE DEF f, first, places
    <3> QED
      BY <2>4, <2>6, <2>7, FS_Injection
  <2> HIDE DEF size, first
  <2>9. Cardinality(first) <= n /\ Cardinality(first) = n /\ ~(size <= n)
    BY <1>6, <1>8, <2>8
  <2> QED
    BY <1>5, <1>6, <2>9 DEF first, size
<1> QED
  BY <1>7, <1>8

-----------------------------------------------------------------------------
(* The live captions.                                                      *)

CaptionsNext ==
    \/ Captions!Connect
    \/ \E chunk \in Chunks : Captions!Read(chunk)
    \/ Captions!StreamEnds \/ Captions!TranscriptionFails
    \/ Captions!SkipBlank \/ Captions!Store \/ Captions!Show \/ Captions!ChunkDone
    \/ Captions!Restart
    \/ Captions!Ask \/ Captions!Page \/ Captions!Answered

Spoken == [id : Nat, text : {"speech", "blank"}]

\* What is left of the chunk is in order, and was said after what was shown.
ChunkIsNext ==
    /\ captionLoop \in [pc : {"connect", "read", "append", "show"}, todo : Seq(Spoken)]
    /\ captionFfmpeg = IF captionLoop.pc = "connect" THEN 0 ELSE 1
    /\ captionSaid \in Nat /\ captionStore \subseteq 0 .. captionSaid
    /\ \A i \in DOMAIN captionLoop.todo : captionLoop.todo[i].id <= captionSaid
    /\ \A i, j \in DOMAIN captionLoop.todo :
          i < j => captionLoop.todo[i].id < captionLoop.todo[j].id
    /\ captionLoop.pc = "show" =>
          captionLoop.todo # <<>> /\ Head(captionLoop.todo).id \in captionStore

\* What is shown is stored, and is the end of what was added.
ShownIsStored ==
    /\ captionEntries \in Seq(Nat) /\ captionAppended \in Seq(Nat)
    /\ Len(captionEntries) <= MaxEntries /\ Len(captionEntries) <= Len(captionAppended)
    /\ \A i \in DOMAIN captionEntries :
          /\ captionEntries[i] \in captionStore
          /\ captionEntries[i] =
                captionAppended[Len(captionAppended) - Len(captionEntries) + i]
    /\ \A a \in DOMAIN captionAppended : captionAppended[a] <= captionSaid
    /\ \A a, b \in DOMAIN captionAppended :
          a < b => captionAppended[a] < captionAppended[b]
    /\ \A a \in DOMAIN captionAppended, i \in DOMAIN captionLoop.todo :
          captionAppended[a] < captionLoop.todo[i].id

\* What was read is newer than what was there then and was not read yet.
ReadFromNewest(rows, stored) ==
    /\ rows \subseteq Nat /\ IsFiniteSet(rows)
    /\ \A e \in stored \ rows : \A r \in rows : e < r

RequestIsRight ==
    /\ captionRequest \in [pc : {"none", "page", "done"}, rows : SUBSET Nat,
                           stored : SUBSET captionStore]
    /\ captionRequest.pc \in {"page", "done"} =>
          ReadFromNewest(captionRequest.rows, captionRequest.stored)
    /\ captionRequest.pc = "page" => Cardinality(captionRequest.rows) < Limit
    /\ captionRequest.pc = "done" =>
          /\ Cardinality(captionRequest.rows) <= Limit
          /\ \/ Cardinality(captionRequest.rows) = Limit
             \/ captionRequest.stored \subseteq captionRequest.rows

CaptionsInv == ChunkIsNext /\ ShownIsStored /\ RequestIsRight

\* Nothing has been said.
LEMMA CaptionsInit == ASSUME Captions!Init PROVE CaptionsInv
<1> USE DEF Captions!Init, Captions!Connecting, Captions!NoRequest
<1>1. ChunkIsNext
  BY EmptyIs DEF ChunkIsNext
<1>2. ShownIsStored
  BY EmptyIs, CaptionsAssumption DEF ShownIsStored
<1>3. RequestIsRight
  BY DEF RequestIsRight
<1> QED
  BY <1>1, <1>2, <1>3 DEF CaptionsInv

\* The loop forgets its chunk.
LEMMA ChunkIsDropped ==
    ASSUME CaptionsInv,
           \/ captionLoop' = [pc |-> "connect", todo |-> <<>>] /\ captionFfmpeg' = 0
           \/ captionLoop' = [pc |-> "read", todo |-> <<>>] /\ captionFfmpeg' = 1,
           captionSaid' = captionSaid, captionStore \subseteq captionStore',
           captionStore' \subseteq 0 .. captionSaid,
           \/ UNCHANGED <<captionEntries, captionAppended>>
           \/ captionEntries' = <<>> /\ captionAppended' = <<>>,
           \/ UNCHANGED captionRequest
           \/ captionRequest' = Captions!NoRequest
    PROVE  CaptionsInv'
<1>0. <<>> \in Seq(Spoken) /\ DOMAIN <<>> = {}
  BY EmptyIs
<1>1. captionLoop'.todo = <<>> /\ DOMAIN captionLoop'.todo = {}
      /\ captionLoop' \in [pc : {"connect", "read"}, todo : Seq(Spoken)]
      /\ captionFfmpeg' = IF captionLoop'.pc = "connect" THEN 0 ELSE 1
  <2>1. CASE captionLoop' = [pc |-> "connect", todo |-> <<>>] /\ captionFfmpeg' = 0
    BY <1>0, <2>1
  <2>2. CASE captionLoop' = [pc |-> "read", todo |-> <<>>] /\ captionFfmpeg' = 1
    BY <1>0, <2>2
  <2> QED
    BY <2>1, <2>2
<1>2. ChunkIsNext'
  <2>1. captionSaid' \in Nat /\ captionStore' \subseteq 0 .. captionSaid'
    BY DEF CaptionsInv, ChunkIsNext
  <2>2. captionLoop' \in [pc : {"connect", "read", "append", "show"}, todo : Seq(Spoken)]
        /\ captionLoop'.pc # "show"
    BY <1>1
  <2> QED
    BY <1>1, <2>1, <2>2 DEF ChunkIsNext
<1>3. ShownIsStored'
  <2>1. CASE UNCHANGED <<captionEntries, captionAppended>>
    BY <1>1, <2>1 DEF CaptionsInv, ShownIsStored
  <2>2. CASE captionEntries' = <<>> /\ captionAppended' = <<>>
    BY <2>2, EmptyIs, CaptionsAssumption DEF ShownIsStored
  <2> QED
    BY <2>1, <2>2
<1>4. RequestIsRight'
  <2>1. CASE UNCHANGED captionRequest
    BY <2>1 DEF CaptionsInv, RequestIsRight
  <2>2. CASE captionRequest' = Captions!NoRequest
    BY <2>2 DEF RequestIsRight, Captions!NoRequest
  <2> QED
    BY <2>1, <2>2
<1> QED
  BY <1>2, <1>3, <1>4 DEF CaptionsInv

\* The stream ends, a chunk fails, or the service is restarted.
LEMMA StreamEndsKeeps == ASSUME CaptionsInv, Captions!StreamEnds PROVE CaptionsInv'
<1>1. captionFfmpeg = 1 /\ captionStore \subseteq 0 .. captionSaid
  BY DEF CaptionsInv, ChunkIsNext, Captions!StreamEnds
<1> QED
  BY <1>1, ChunkIsDropped DEF Captions!StreamEnds, Captions!Connecting

\* A chunk cannot be transcribed.
LEMMA TranscriptionFailsKeeps ==
    ASSUME CaptionsInv, Captions!TranscriptionFails
    PROVE  CaptionsInv'
<1>1. captionFfmpeg = 1 /\ captionStore \subseteq 0 .. captionSaid
  BY DEF CaptionsInv, ChunkIsNext, Captions!TranscriptionFails
<1> QED
  BY <1>1, ChunkIsDropped DEF Captions!TranscriptionFails

\* The service is restarted.
LEMMA CaptionsRestartKeeps == ASSUME CaptionsInv, Captions!Restart PROVE CaptionsInv'
<1>1. captionStore \subseteq 0 .. captionSaid
  BY DEF CaptionsInv, ChunkIsNext
<1> QED
  BY <1>1, ChunkIsDropped DEF Captions!Restart, Captions!Connecting

\* The loop goes on with what it has.
LEMMA LoopGoesOn ==
    ASSUME CaptionsInv, captionLoop'.todo = captionLoop.todo,
           captionLoop' \in [pc : {"connect", "read", "append"}, todo : Seq(Spoken)],
           captionFfmpeg' = IF captionLoop'.pc = "connect" THEN 0 ELSE 1,
           UNCHANGED <<captionSaid, captionStore, captionEntries, captionAppended,
                       captionRequest>>
    PROVE  CaptionsInv'
<1>1. ChunkIsNext'
  BY DEF CaptionsInv, ChunkIsNext
<1>2. ShownIsStored'
  BY DEF CaptionsInv, ShownIsStored
<1>3. RequestIsRight'
  BY DEF CaptionsInv, RequestIsRight
<1> QED
  BY <1>1, <1>2, <1>3 DEF CaptionsInv

\* ffmpeg is started.
LEMMA ConnectKeeps == ASSUME CaptionsInv, Captions!Connect PROVE CaptionsInv'
<1>1. captionFfmpeg = 0 /\ captionLoop \in [pc : {"connect", "read", "append", "show"}, todo : Seq(Spoken)]
      /\ captionLoop' = [captionLoop EXCEPT !.pc = "read"]
  BY DEF CaptionsInv, ChunkIsNext, Captions!Connect
<1>2. captionLoop'.todo = captionLoop.todo /\ captionLoop'.pc = "read"
      /\ captionLoop' \in [pc : {"connect", "read", "append"}, todo : Seq(Spoken)]
  BY <1>1
<1> QED
  BY <1>1, <1>2, LoopGoesOn DEF Captions!Connect

\* A chunk is done.
LEMMA ChunkDoneKeeps == ASSUME CaptionsInv, Captions!ChunkDone PROVE CaptionsInv'
<1>1. captionFfmpeg = 1 /\ captionLoop \in [pc : {"connect", "read", "append", "show"}, todo : Seq(Spoken)]
      /\ captionLoop' = [captionLoop EXCEPT !.pc = "read"]
  BY DEF CaptionsInv, ChunkIsNext, Captions!ChunkDone
<1>2. captionLoop'.todo = captionLoop.todo /\ captionLoop'.pc = "read"
      /\ captionLoop' \in [pc : {"connect", "read", "append"}, todo : Seq(Spoken)]
  BY <1>1
<1> QED
  BY <1>1, <1>2, LoopGoesOn DEF Captions!ChunkDone

\* A chunk is read: its segments are said after all others.
LEMMA ReadKeeps ==
    ASSUME CaptionsInv, NEW chunk \in Chunks, Captions!Read(chunk)
    PROVE  CaptionsInv'
<1> DEFINE todo == [i \in DOMAIN chunk |-> [id |-> captionSaid + i, text |-> chunk[i]]]
<1>1. chunk \in Seq({"speech", "blank"})
  BY CaptionsAssumption
<1>2. Len(chunk) \in Nat /\ DOMAIN chunk = 1 .. Len(chunk)
      /\ \A i \in DOMAIN chunk : chunk[i] \in {"speech", "blank"}
  BY <1>1
<1>3. captionSaid \in Nat /\ captionLoop.pc = "read" /\ captionFfmpeg = 1
  BY DEF CaptionsInv, ChunkIsNext, Captions!Read
<1>4. captionSaid' = captionSaid + Len(chunk)
      /\ captionLoop' = [pc |-> "append", todo |-> todo]
      /\ UNCHANGED <<captionFfmpeg, captionStore, captionEntries, captionAppended,
                     captionRequest>>
  BY DEF Captions!Read
<1>5. \A i \in 1 .. Len(chunk) : todo[i] \in Spoken /\ todo[i].id = captionSaid + i
  BY <1>2, <1>3 DEF Spoken
<1>6. todo \in Seq(Spoken) /\ DOMAIN todo = 1 .. Len(chunk)
  <2>1. todo = [i \in 1 .. Len(chunk) |-> todo[i]]
    BY <1>2
  <2> HIDE DEF todo
  <2> QED
    BY <1>2, <1>5, <2>1
<1> HIDE DEF todo
<1>7. captionLoop'.todo = todo /\ captionLoop'.pc = "append"
  BY <1>4
<1>8. ChunkIsNext'
  <2>1. captionStore \subseteq 0 .. captionSaid + Len(chunk)
    BY <1>2, <1>3 DEF CaptionsInv, ChunkIsNext
  <2>2. \A i \in DOMAIN todo : todo[i].id <= captionSaid + Len(chunk)
    BY <1>2, <1>3, <1>5, <1>6
  <2>3. \A i, j \in DOMAIN todo : i < j => todo[i].id < todo[j].id
    BY <1>2, <1>3, <1>5, <1>6
  <2> QED
    BY <1>2, <1>3, <1>4, <1>6, <1>7, <2>1, <2>2, <2>3 DEF ChunkIsNext
<1>9. ShownIsStored'
  <2>1. captionAppended \in Seq(Nat)
        /\ \A a \in DOMAIN captionAppended : captionAppended[a] <= captionSaid
    BY DEF CaptionsInv, ShownIsStored
  <2>2. \A a \in DOMAIN captionAppended : captionAppended[a] \in Nat
    BY <2>1
  <2>3. \A a \in DOMAIN captionAppended : captionAppended[a] <= captionSaid + Len(chunk)
    BY <1>2, <1>3, <2>1, <2>2
  <2>4. \A a \in DOMAIN captionAppended, i \in DOMAIN todo : captionAppended[a] < todo[i].id
    BY <1>2, <1>3, <1>5, <1>6, <2>1, <2>2
  <2> QED
    BY <1>4, <1>7, <2>3, <2>4 DEF CaptionsInv, ShownIsStored
<1>10. RequestIsRight'
  BY <1>4 DEF CaptionsInv, RequestIsRight
<1> QED
  BY <1>8, <1>9, <1>10 DEF CaptionsInv

\* What is left of a chunk without its first segment.
LEMMA TailIs ==
    ASSUME ChunkIsNext, captionLoop.todo # <<>>
    PROVE  LET todo == captionLoop.todo IN
           /\ Tail(todo) \in Seq(Spoken) /\ Head(todo) = todo[1] /\ 1 \in DOMAIN todo
           /\ Head(todo).id \in Nat /\ Head(todo).id <= captionSaid
           /\ \A i \in DOMAIN Tail(todo) : i + 1 \in DOMAIN todo /\ Tail(todo)[i] = todo[i + 1]
           /\ \A i \in DOMAIN Tail(todo) :
                 /\ Tail(todo)[i].id <= captionSaid
                 /\ Head(todo).id < Tail(todo)[i].id
           /\ \A i, j \in DOMAIN Tail(todo) : i < j => Tail(todo)[i].id < Tail(todo)[j].id
<1> DEFINE todo == captionLoop.todo
<1>1. todo \in Seq(Spoken) /\ todo # <<>>
  BY DEF ChunkIsNext
<1>2. \A i \in DOMAIN todo : todo[i].id <= captionSaid
  BY DEF ChunkIsNext
<1>3. \A i, j \in DOMAIN todo : i < j => todo[i].id < todo[j].id
  BY DEF ChunkIsNext
<1> HIDE DEF todo
<1>4. Tail(todo) \in Seq(Spoken) /\ Head(todo) = todo[1] /\ Len(todo) \in Nat \ {0}
      /\ DOMAIN todo = 1 .. Len(todo) /\ Len(Tail(todo)) = Len(todo) - 1
      /\ DOMAIN Tail(todo) = 1 .. Len(todo) - 1
      /\ \A i \in 1 .. Len(todo) - 1 : Tail(todo)[i] = todo[i + 1]
  BY <1>1
<1>5. 1 \in DOMAIN todo /\ \A i \in DOMAIN Tail(todo) : i + 1 \in DOMAIN todo /\ 1 < i + 1
  BY <1>4
<1>6. \A i, j \in DOMAIN Tail(todo) : i < j => i + 1 < j + 1
  BY <1>4
<1>7. todo[1].id \in Nat
  <2>1. todo[1] \in Spoken
    BY <1>1, <1>4
  <2> QED
    BY <2>1 DEF Spoken
<1> QED
  BY <1>2, <1>3, <1>4, <1>5, <1>6, <1>7 DEF todo

\* A blank segment is left out.
LEMMA SkipBlankKeeps == ASSUME CaptionsInv, Captions!SkipBlank PROVE CaptionsInv'
<1>1. ChunkIsNext /\ ShownIsStored /\ captionLoop.todo # <<>> /\ captionLoop.pc = "append"
      /\ captionLoop' = [captionLoop EXCEPT !.todo = Tail(captionLoop.todo)]
      /\ UNCHANGED <<captionFfmpeg, captionSaid, captionStore, captionEntries,
                     captionAppended, captionRequest>>
  BY DEF CaptionsInv, Captions!SkipBlank
<1>2. captionLoop'.pc = "append" /\ captionLoop'.todo = Tail(captionLoop.todo)
      /\ captionLoop' \in [pc : {"connect", "read", "append", "show"}, todo : Seq(Spoken)]
  BY <1>1, TailIs DEF ChunkIsNext
<1>3. ChunkIsNext'
  BY <1>1, <1>2, TailIs DEF ChunkIsNext
<1>4. ShownIsStored'
  BY <1>1, <1>2, TailIs DEF ShownIsStored
<1>5. RequestIsRight'
  BY <1>1 DEF CaptionsInv, RequestIsRight
<1> QED
  BY <1>3, <1>4, <1>5 DEF CaptionsInv

\* A segment is stored, or the store fails.
LEMMA StoreKeeps == ASSUME CaptionsInv, Captions!Store PROVE CaptionsInv'
<1> DEFINE id == Head(captionLoop.todo).id
<1>1. ChunkIsNext /\ ShownIsStored /\ captionLoop.todo # <<>> /\ captionLoop.pc = "append"
      /\ UNCHANGED <<captionFfmpeg, captionSaid, captionEntries, captionAppended,
                     captionRequest>>
  BY DEF CaptionsInv, Captions!Store
<1>2. id \in 0 .. captionSaid /\ captionStore \subseteq 0 .. captionSaid
  BY <1>1, TailIs DEF ChunkIsNext
<1>3. captionFfmpeg = 1
  BY <1>1 DEF ChunkIsNext
<1>4. CASE /\ captionStore' = captionStore \cup {id}
           /\ captionLoop' = [captionLoop EXCEPT !.pc = "show"]
  <2>1. captionLoop'.pc = "show" /\ captionLoop'.todo = captionLoop.todo
        /\ captionLoop' \in [pc : {"connect", "read", "append", "show"}, todo : Seq(Spoken)]
    BY <1>1, <1>4 DEF ChunkIsNext
  <2>2. ChunkIsNext'
    BY <1>1, <1>2, <1>3, <1>4, <2>1 DEF ChunkIsNext
  <2>3. ShownIsStored'
    BY <1>1, <1>4, <2>1 DEF ShownIsStored
  <2>4. RequestIsRight'
    BY <1>1, <1>4 DEF CaptionsInv, RequestIsRight
  <2> QED
    BY <2>2, <2>3, <2>4 DEF CaptionsInv
<1>5. CASE /\ captionStore' \in {captionStore, captionStore \cup {id}}
           /\ captionLoop' = [pc |-> "read", todo |-> <<>>]
  <2>1. captionStore \subseteq captionStore' /\ captionStore' \subseteq 0 .. captionSaid
    BY <1>2, <1>5
  <2> QED
    BY <1>1, <1>3, <1>5, <2>1, ChunkIsDropped
<1> QED
  BY <1>4, <1>5 DEF Captions!Store

\* It is shown, and the oldest makes room.
LEMMA ShowKeeps == ASSUME CaptionsInv, Captions!Show PROVE CaptionsInv'
<1> DEFINE id == Head(captionLoop.todo).id
           old == captionEntries
           all == Append(old, id)
           new == captionEntries'
<1>1. ChunkIsNext /\ ShownIsStored /\ captionLoop.pc = "show" /\ captionLoop.todo # <<>>
      /\ id \in captionStore /\ captionFfmpeg = 1
  BY DEF CaptionsInv, ChunkIsNext, Captions!Show
<1>2. new = Captions!Shown(all) /\ captionAppended' = Append(captionAppended, id)
      /\ captionLoop' = [pc |-> "append", todo |-> Tail(captionLoop.todo)]
      /\ UNCHANGED <<captionFfmpeg, captionSaid, captionStore, captionRequest>>
  BY DEF Captions!Show
<1>3. captionLoop'.pc = "append" /\ captionLoop'.todo = Tail(captionLoop.todo)
      /\ captionLoop' \in [pc : {"connect", "read", "append", "show"}, todo : Seq(Spoken)]
  BY <1>1, <1>2, TailIs
<1>4. ChunkIsNext'
  BY <1>1, <1>2, <1>3, TailIs DEF ChunkIsNext
<1>5. id \in Nat /\ id <= captionSaid /\ old \in Seq(Nat) /\ captionAppended \in Seq(Nat)
      /\ captionSaid \in Nat
  BY <1>1, TailIs DEF ShownIsStored, ChunkIsNext
<1> DEFINE n == Len(captionAppended)
           m == Len(old)
           k == Len(new)
<1>6. n \in Nat /\ m \in Nat /\ m <= n /\ m <= MaxEntries
  BY <1>1, <1>5 DEF ShownIsStored
<1>7. /\ captionAppended' \in Seq(Nat) /\ Len(captionAppended') = n + 1
      /\ captionAppended'[n + 1] = id
      /\ \A a \in 1 .. n : captionAppended'[a] = captionAppended[a]
  BY <1>2, <1>5
<1>8. /\ all \in Seq(Nat) /\ Len(all) = m + 1 /\ all[m + 1] = id
      /\ \A i \in 1 .. m : all[i] = old[i]
  BY <1>5
<1>9. /\ new \in Seq(Nat) /\ k <= MaxEntries
      /\ \/ k = m + 1 /\ \A i \in 1 .. k : new[i] = all[i]
         \/ k = m /\ \A i \in 1 .. k : new[i] = all[i + 1]
  <2>1. CASE m + 1 > MaxEntries
    <3>1. new = Tail(all)
      BY <1>2, <1>8, <2>1 DEF Captions!Shown
    <3> HIDE DEF all, new
    <3>2. all # <<>> /\ Len(Tail(all)) = m /\ Tail(all) \in Seq(Nat)
          /\ \A i \in 1 .. m : Tail(all)[i] = all[i + 1]
      BY <1>6, <1>8
    <3> QED
      BY <1>6, <3>1, <3>2
  <2>2. CASE ~(m + 1 > MaxEntries)
    <3>1. new = all
      BY <1>2, <1>8, <2>2 DEF Captions!Shown
    <3> HIDE DEF all, new
    <3> QED
      BY <1>6, <1>8, <2>2, <3>1, CaptionsAssumption
  <2> QED
    BY <2>1, <2>2
<1>10. \A i \in 1 .. m + 1 : all[i] \in captionStore /\ all[i] = captionAppended'[n - m + i]
  <2> SUFFICES ASSUME NEW i \in 1 .. m + 1
               PROVE  all[i] \in captionStore /\ all[i] = captionAppended'[n - m + i]
    OBVIOUS
  <2>1. CASE i = m + 1
    <3>1. n - m + i = n + 1
      BY <1>6, <2>1
    <3> QED
      BY <1>1, <1>7, <1>8, <2>1, <3>1
  <2>2. CASE i # m + 1
    <3>1. i \in 1 .. m /\ n - m + i \in 1 .. n
      BY <1>6, <2>2
    <3>2. old[i] \in captionStore /\ old[i] = captionAppended[n - m + i]
      BY <1>1, <1>5, <3>1 DEF ShownIsStored
    <3> QED
      BY <1>7, <1>8, <3>1, <3>2
  <2> QED
    BY <2>1, <2>2
<1>11. \A i \in 1 .. k : new[i] \in captionStore /\ new[i] = captionAppended'[(n + 1) - k + i]
  <2> SUFFICES ASSUME NEW i \in 1 .. k
               PROVE  new[i] \in captionStore /\ new[i] = captionAppended'[(n + 1) - k + i]
    OBVIOUS
  <2> HIDE DEF n, m, k, new, all
  <2>1. CASE k = m + 1 /\ \A j \in 1 .. k : new[j] = all[j]
    <3>1. (n + 1) - k + i = n - m + i
      BY <1>6, <2>1
    <3> QED
      BY <1>10, <2>1, <3>1
  <2>2. CASE k = m /\ \A j \in 1 .. k : new[j] = all[j + 1]
    <3>1. i + 1 \in 1 .. m + 1 /\ (n + 1) - k + i = n - m + (i + 1)
      BY <1>6, <2>2
    <3> QED
      BY <1>10, <2>2, <3>1
  <2> QED
    BY <1>9, <2>1, <2>2
<1>12. DOMAIN new = 1 .. k /\ DOMAIN captionAppended' = 1 .. n + 1
       /\ DOMAIN captionAppended = 1 .. n /\ k <= n + 1
  BY <1>5, <1>6, <1>7, <1>9
<1>13. \A a \in 1 .. n : captionAppended[a] <= captionSaid /\ captionAppended[a] < id
  BY <1>1, <1>12, TailIs DEF ShownIsStored
<1>14. \A a \in 1 .. n + 1 : a \in 1 .. n \/ a = n + 1
  BY <1>6
<1>15. \A a, b \in DOMAIN captionAppended' :
          a < b => captionAppended'[a] < captionAppended'[b]
  <2> SUFFICES ASSUME NEW a \in 1 .. n + 1, NEW b \in 1 .. n + 1, a < b
               PROVE  captionAppended'[a] < captionAppended'[b]
    BY <1>12
  <2>1. a \in 1 .. n
    BY <1>6
  <2>2. CASE b = n + 1
    BY <1>7, <1>13, <2>1, <2>2
  <2>3. CASE b \in 1 .. n
    BY <1>1, <1>7, <1>12, <2>1, <2>3 DEF ShownIsStored
  <2> QED
    BY <1>14, <2>2, <2>3
<1>16. \A a \in DOMAIN captionAppended' : captionAppended'[a] <= captionSaid
  BY <1>5, <1>7, <1>12, <1>13, <1>14
<1>17. \A a \in DOMAIN captionAppended', i \in DOMAIN captionLoop'.todo :
          captionAppended'[a] < captionLoop'.todo[i].id
  <2> SUFFICES ASSUME NEW a \in 1 .. n + 1, NEW i \in DOMAIN Tail(captionLoop.todo)
               PROVE  captionAppended'[a] < Tail(captionLoop.todo)[i].id
    BY <1>3, <1>12
  <2>1. CASE a = n + 1
    BY <1>1, <1>7, <2>1, TailIs
  <2>2. CASE a \in 1 .. n
    BY <1>1, <1>7, <1>12, <2>2, TailIs DEF ShownIsStored
  <2> QED
    BY <1>14, <2>1, <2>2
<1>18. ShownIsStored'
  BY <1>2, <1>7, <1>9, <1>11, <1>12, <1>15, <1>16, <1>17 DEF ShownIsStored
<1>19. RequestIsRight'
  BY <1>2 DEF CaptionsInv, RequestIsRight
<1> QED
  BY <1>4, <1>18, <1>19 DEF CaptionsInv

\* A request begins with what is stored.
LEMMA AskKeeps == ASSUME CaptionsInv, Captions!Ask PROVE CaptionsInv'
<1>1. captionRequest' = [pc |-> "page", rows |-> {}, stored |-> captionStore]
      /\ UNCHANGED <<captionLoop, captionFfmpeg, captionSaid, captionStore, captionEntries,
                     captionAppended>>
  BY DEF Captions!Ask
<1>2. Cardinality({}) = 0 /\ IsFiniteSet({})
  BY FS_EmptySet
<1>3. RequestIsRight'
  BY <1>1, <1>2, CaptionsAssumption DEF RequestIsRight, ReadFromNewest
<1> QED
  BY <1>1, <1>3 DEF CaptionsInv, ChunkIsNext, ShownIsStored

\* A page has the newest of what is left.
LEMMA PageKeeps == ASSUME CaptionsInv, Captions!Page PROVE CaptionsInv'
<1> DEFINE rows == captionRequest.rows
           stored == captionRequest.stored
           left == Captions!NextOf(captionStore, rows)
           asked == Limit - Captions!Cardinality(rows)
           size == IF asked < PageSize THEN asked ELSE PageSize
           page == Captions!Newest(size, left)
           after == [i \in left |-> {j \in left : j > i}]
           all == rows \cup page
           ends == Captions!Cardinality(left) <= size \/ Captions!Cardinality(all) = Limit
<1>1. /\ captionRequest.pc = "page"
      /\ captionRequest' = [captionRequest EXCEPT !.rows = all,
                                                  !.pc = IF ends THEN "done" ELSE "page"]
      /\ UNCHANGED <<captionLoop, captionFfmpeg, captionSaid, captionStore, captionEntries,
                     captionAppended>>
  BY DEF Captions!Page
<1>2. /\ captionRequest \in [pc : {"none", "page", "done"}, rows : SUBSET Nat,
                             stored : SUBSET captionStore]
      /\ ReadFromNewest(rows, stored) /\ Cardinality(rows) < Limit
  BY <1>1 DEF CaptionsInv, RequestIsRight
<1>3. \A S : Captions!Cardinality(S) = Cardinality(S)
  BY DEF Captions!Cardinality, Cardinality
<1>4. Cardinality(rows) \in Nat /\ IsFiniteSet(rows)
  BY <1>2, FS_CardinalityType DEF ReadFromNewest
<1>5. captionStore \subseteq Nat /\ IsFiniteSet(captionStore)
  <2>1. captionSaid \in Nat /\ captionStore \subseteq 0 .. captionSaid
    BY DEF CaptionsInv, ChunkIsNext
  <2> QED
    <3>1. IsFiniteSet(0 .. captionSaid)
      BY <2>1, FS_Interval
    <3>2. IsFiniteSet(captionStore)
      BY <2>1, <3>1, FS_Subset
    <3> QED
      BY <2>1, <3>2
<1>6. left \subseteq captionStore /\ \A i \in left, r \in rows : i < r
  BY DEF Captions!NextOf
<1>7. IsFiniteSet(left) /\ left \subseteq Nat
  BY <1>5, <1>6, FS_Subset
<1>8. asked \in Nat \ {0} /\ asked = Limit - Cardinality(rows)
  BY <1>2, <1>3, <1>4, CaptionsAssumption
<1>9. size \in Nat /\ size <= asked
  BY <1>8, CaptionsAssumption
<1>10. page = {i \in left : Cardinality(after[i]) < size}
  BY <1>3 DEF Captions!Newest
<1>11. /\ after \in [left -> SUBSET left]
       /\ \A i \in left : i \notin after[i]
       /\ \A i, j \in left : i = j \/ i \in after[j] \/ j \in after[i]
       /\ \A i, j \in left : j \in after[i] => after[j] \subseteq after[i]
  <2>1. after \in [left -> SUBSET left] /\ \A i \in left : after[i] = {j \in left : j > i}
    OBVIOUS
  <2> HIDE DEF after, left
  <2>2. \A i, j \in left : (j \in after[i] <=> j > i) /\ i \in Nat /\ j \in Nat
    BY <1>7, <2>1
  <2>3. \A i, j \in left : j \in after[i] => \A h \in after[j] : h \in after[i]
    <3> SUFFICES ASSUME NEW i \in left, NEW j \in left, j \in after[i], NEW h \in after[j]
                 PROVE  h \in after[i]
      OBVIOUS
    <3>1. h \in left /\ i \in Nat /\ j \in Nat
      BY <2>1, <2>2
    <3>2. h > j /\ j > i /\ h \in Nat
      BY <2>2, <3>1
    <3>3. h > i
      BY <3>1, <3>2
    <3> QED
      BY <2>2, <3>1, <3>3
  <2>4. \A i \in left : i \notin after[i]
    <3>1. \A i \in left : i \in Nat /\ ~(i > i)
      BY <1>7
    <3> QED
      BY <2>2, <3>1
  <2>5. \A i, j \in left : i = j \/ i \in after[j] \/ j \in after[i]
    <3>1. \A i, j \in left : i = j \/ i > j \/ j > i
      BY <2>2
    <3> QED
      BY <2>2, <3>1
  <2> QED
    BY <2>1, <2>3, <2>4, <2>5
<1>12. /\ IsFiniteSet(page) /\ Cardinality(page) \in Nat /\ Cardinality(page) <= size
       /\ Cardinality(page) = size \/ page = left
       /\ Cardinality(left) <= size => page = left
  <2> HIDE DEF left, after, size, page
  <2>1. Precedes(left, after)
    BY <1>7, <1>11 DEF Precedes
  <2>2. page = First(left, after, size)
    BY <1>10 DEF First
  <2> QED
    BY <1>9, <2>1, <2>2, FirstAreMany
<1>13. page \subseteq left
  BY DEF Captions!Newest
<1>14. all \subseteq Nat /\ IsFiniteSet(all) /\ Cardinality(all) <= Limit
       /\ Cardinality(all) \in Nat
  <2>1. rows \cap page = {}
    <3>1. \A i \in page : i \in Nat /\ (i \in rows => i < i)
      BY <1>6, <1>7, <1>13
    <3> QED
      BY <3>1
  <2>2. Cardinality(rows \cap page) = 0
    BY <2>1, FS_EmptySet
  <2>3. IsFiniteSet(all)
        /\ Cardinality(all) = Cardinality(rows) + Cardinality(page) - Cardinality(rows \cap page)
    <3> HIDE DEF rows, page
    <3> QED
      BY <1>4, <1>12, FS_Union
  <2>4. rows \subseteq Nat
    BY <1>2
  <2> HIDE DEF rows, page, size, asked, left
  <2> QED
    BY <1>4, <1>7, <1>8, <1>9, <1>12, <1>13, <2>2, <2>3, <2>4, CaptionsAssumption
<1>15. \A e \in stored \ all : e \in left /\ e \notin page
  <2>1. stored \subseteq captionStore /\ \A e \in stored \ rows : \A r \in rows : e < r
    BY <1>2 DEF ReadFromNewest
  <2> HIDE DEF page
  <2> QED
    BY <2>1 DEF Captions!NextOf
<1>16. \A e \in left \ page : \A r \in page : e < r
  <2> SUFFICES ASSUME NEW e \in left \ page, NEW r \in page, ~(e < r)
               PROVE  FALSE
    OBVIOUS
  <2>1. e \in left /\ r \in left /\ e # r /\ e \in Nat /\ r \in Nat
    BY <1>7, <1>13
  <2>2. r < e
    BY <2>1
  <2>3. e \in after[r]
    BY <2>1, <2>2
  <2>4. after[e] \subseteq after[r] /\ after[r] \subseteq left
    BY <1>11, <2>1, <2>3
  <2>5. IsFiniteSet(after[r])
    BY <1>7, <2>4, FS_Subset
  <2>6. Cardinality(after[e]) <= Cardinality(after[r]) /\ Cardinality(after[r]) \in Nat
        /\ Cardinality(after[e]) \in Nat
    BY <2>4, <2>5, FS_Subset, FS_CardinalityType
  <2>7. Cardinality(after[r]) < size /\ ~(Cardinality(after[e]) < size)
    BY <1>10, <2>1
  <2> HIDE DEF size, after
  <2> QED
    BY <1>9, <2>6, <2>7
<1>17. ReadFromNewest(all, stored)
  <2>1. \A e \in stored \ all : \A r \in rows : e < r
    BY <1>2 DEF ReadFromNewest
  <2>2. \A e \in stored \ all : \A r \in page : e < r
    BY <1>15, <1>16
  <2> QED
    BY <1>14, <2>1, <2>2 DEF ReadFromNewest
<1>18. CASE ends
  <2>1. captionRequest'.pc = "done" /\ captionRequest'.rows = all
        /\ captionRequest'.stored = stored
        /\ captionRequest' \in [pc : {"none", "page", "done"}, rows : SUBSET Nat,
                                stored : SUBSET captionStore]
    BY <1>1, <1>2, <1>14, <1>18
  <2>2. Cardinality(all) = Limit \/ stored \subseteq all
    <3>1. CASE Cardinality(left) <= size
      BY <1>12, <1>15, <3>1
    <3>2. CASE Cardinality(all) = Limit
      BY <3>2
    <3> QED
      BY <1>3, <1>18, <3>1, <3>2
  <2>3. RequestIsRight'
    <3> HIDE DEF all, stored
    <3> QED
      BY <1>1, <1>14, <1>17, <2>1, <2>2 DEF RequestIsRight
  <2> QED
    BY <1>1, <2>3 DEF CaptionsInv, ChunkIsNext, ShownIsStored
<1>19. CASE ~ends
  <2>1. captionRequest'.pc = "page" /\ captionRequest'.rows = all
        /\ captionRequest'.stored = stored
        /\ captionRequest' \in [pc : {"none", "page", "done"}, rows : SUBSET Nat,
                                stored : SUBSET captionStore]
    BY <1>1, <1>2, <1>14, <1>19
  <2>2. Cardinality(all) < Limit
    <3>1. Cardinality(all) # Limit
      BY <1>3, <1>19
    <3> HIDE DEF all
    <3> QED
      BY <1>14, <3>1, CaptionsAssumption
  <2>3. RequestIsRight'
    <3> HIDE DEF all, stored
    <3> QED
      BY <1>1, <1>17, <2>1, <2>2 DEF RequestIsRight
  <2> QED
    BY <1>1, <2>3 DEF CaptionsInv, ChunkIsNext, ShownIsStored
<1> QED
  BY <1>18, <1>19

\* The request is answered.
LEMMA AnsweredKeeps == ASSUME CaptionsInv, Captions!Answered PROVE CaptionsInv'
<1>1. captionRequest' = [pc |-> "none", rows |-> {}, stored |-> {}]
      /\ UNCHANGED <<captionLoop, captionFfmpeg, captionSaid, captionStore, captionEntries,
                     captionAppended>>
  BY DEF Captions!Answered, Captions!NoRequest
<1>2. RequestIsRight'
  BY <1>1 DEF RequestIsRight
<1> QED
  BY <1>1, <1>2 DEF CaptionsInv, ChunkIsNext, ShownIsStored

\* Every step of the captions keeps their invariant.
LEMMA CaptionsStep == ASSUME CaptionsInv, CaptionsNext PROVE CaptionsInv'
BY ConnectKeeps, ReadKeeps, StreamEndsKeeps, TranscriptionFailsKeeps, SkipBlankKeeps,
   StoreKeeps, ShowKeeps, ChunkDoneKeeps, CaptionsRestartKeeps, AskKeeps, PageKeeps,
   AnsweredKeeps DEF CaptionsNext

\* Another part's step leaves them alone.
LEMMA CaptionsStutter == ASSUME CaptionsInv, UNCHANGED CaptionsVars PROVE CaptionsInv'
BY DEF CaptionsVars, CaptionsInv, ChunkIsNext, ShownIsStored, RequestIsRight

\* What is shown and what is answered.
LEMMA CaptionsAreGood ==
    CaptionsInv => Captions!CaptionsAreStored /\ Captions!RecentIsWithoutGap
<1> SUFFICES ASSUME CaptionsInv
             PROVE  Captions!CaptionsAreStored /\ Captions!RecentIsWithoutGap
  OBVIOUS
<1>1. ShownIsStored /\ RequestIsRight /\ captionFfmpeg \in {0, 1}
  BY DEF CaptionsInv, ChunkIsNext
<1> DEFINE n == Len(captionAppended)
           m == Len(captionEntries)
<1>2. captionEntries \in Seq(Nat) /\ captionAppended \in Seq(Nat) /\ m \in Nat /\ n \in Nat
      /\ m <= n /\ m <= MaxEntries
  BY <1>1 DEF ShownIsStored
<1>3. Captions!ToSet(captionEntries) \subseteq captionStore
  BY <1>1 DEF ShownIsStored, Captions!ToSet
<1>4. Captions!IsSuffix(captionEntries, captionAppended)
  <2> DEFINE s == Captions!Reverse(captionEntries)
             t == Captions!Reverse(captionAppended)
  <2>1. s = [i \in 1 .. m |-> captionEntries[(m - i) + 1]]
        /\ t = [i \in 1 .. n |-> captionAppended[(n - i) + 1]]
    BY DEF Captions!Reverse
  <2>2. /\ \A i \in 1 .. m : captionEntries[(m - i) + 1] \in Nat
        /\ \A i \in 1 .. n : captionAppended[(n - i) + 1] \in Nat
    <3>1. \A i \in 1 .. m : (m - i) + 1 \in 1 .. m
      BY <1>2
    <3>2. \A i \in 1 .. n : (n - i) + 1 \in 1 .. n
      BY <1>2
    <3>3. /\ \A i \in 1 .. m : captionEntries[i] \in Nat
          /\ \A i \in 1 .. n : captionAppended[i] \in Nat
      BY <1>2
    <3> QED
      BY <3>1, <3>2, <3>3
  <2>3. s \in Seq(Nat) /\ Len(s) = m /\ t \in Seq(Nat) /\ Len(t) = n
    <3> HIDE DEF s, t, n, m
    <3> QED
      BY <1>2, <2>1, <2>2
  <2>4. \A i \in 1 .. m : s[i] = t[i]
    <3> SUFFICES ASSUME NEW i \in 1 .. m PROVE s[i] = t[i]
      OBVIOUS
    <3>1. (m - i) + 1 \in 1 .. m /\ i \in 1 .. n
      BY <1>2
    <3>2. (n - m) + ((m - i) + 1) = (n - i) + 1
      BY <1>2
    <3>3. captionEntries[(m - i) + 1] = captionAppended[(n - m) + ((m - i) + 1)]
      <4>1. \A j \in DOMAIN captionEntries :
               captionEntries[j] = captionAppended[(n - m) + j]
        BY <1>1 DEF ShownIsStored
      <4>2. DOMAIN captionEntries = 1 .. m
        BY <1>2
      <4> HIDE DEF m, n
      <4> QED
        BY <3>1, <4>1, <4>2
    <3> QED
      BY <2>1, <3>1, <3>2, <3>3
  <2> HIDE DEF s, t
  <2>5. SubSeq(s, 1, m) = SubSeq(t, 1, m)
    <3>1. /\ SubSeq(s, 1, m) \in Seq(Nat) /\ Len(SubSeq(s, 1, m)) = m
          /\ \A i \in 1 .. m : SubSeq(s, 1, m)[i] = s[i]
      BY <1>2, <2>3
    <3>2. /\ SubSeq(t, 1, m) \in Seq(Nat) /\ Len(SubSeq(t, 1, m)) = m
          /\ \A i \in 1 .. m : SubSeq(t, 1, m)[i] = t[i]
      BY <1>2, <2>3
    <3> QED
      BY <2>4, <3>1, <3>2, SeqEqual
  <2> QED
    BY <1>2, <2>3, <2>5 DEF Captions!IsSuffix, Captions!IsPrefix, s, t
<1>5. Captions!CaptionsAreStored
  BY <1>1, <1>2, <1>3, <1>4 DEF Captions!CaptionsAreStored, ShownIsStored
<1>6. Captions!RecentIsWithoutGap
  <2>1. \A S : Captions!Cardinality(S) = Cardinality(S)
    BY DEF Captions!Cardinality, Cardinality
  <2> QED
    BY <1>1, <2>1 DEF RequestIsRight, ReadFromNewest, Captions!RecentIsWithoutGap
<1> QED
  BY <1>5, <1>6
-----------------------------------------------------------------------------
(* The relay of vessel positions.                                          *)

\* A set of naturals has a least element: the first of it.
LEMMA LeastOf ==
    ASSUME NEW S, IsFiniteSet(S), S \subseteq Nat, S # {}
    PROVE  \E h \in S : \A i \in S : h <= i
<1> DEFINE before == [i \in S |-> {j \in S : j < i}]
           first == First(S, before, 1)
<1>1. before \in [S -> SUBSET S] /\ \A i, j \in S : j \in before[i] <=> j < i
  OBVIOUS
<1>2. Precedes(S, before)
  <2> HIDE DEF before
  <2>1. \A i \in S : i \notin before[i]
    BY <1>1
  <2>2. \A i, j \in S : i = j \/ i \in before[j] \/ j \in before[i]
    <3>1. \A i, j \in S : i = j \/ i < j \/ j < i
      OBVIOUS
    <3> QED
      BY <1>1, <3>1
  <2>3. \A i, j \in S : j \in before[i] => before[j] \subseteq before[i]
    <3> SUFFICES ASSUME NEW i \in S, NEW j \in S, j \in before[i], NEW h \in before[j]
                 PROVE  h \in before[i]
      OBVIOUS
    <3>1. h \in S /\ h < j /\ j < i /\ h \in Nat /\ i \in Nat /\ j \in Nat
      BY <1>1
    <3>2. h < i
      BY <3>1
    <3> QED
      BY <1>1, <3>1, <3>2
  <2> QED
    BY <1>1, <2>1, <2>2, <2>3 DEF Precedes
<1>3. first # {}
  <2> HIDE DEF before
  <2>1. Cardinality(First(S, before, 1)) = 1 \/ First(S, before, 1) = S
    BY <1>2, FirstAreMany
  <2> QED
    BY <2>1, FS_EmptySet
<1>4. PICK h \in first : TRUE
  BY <1>3
<1>5. h \in S /\ Cardinality(before[h]) < 1
  <2> HIDE DEF before
  <2> QED
    BY <1>4 DEF First
<1>6. IsFiniteSet(before[h]) /\ Cardinality(before[h]) \in Nat
  <2> HIDE DEF before
  <2>1. before[h] \subseteq S
    BY <1>1, <1>5
  <2> QED
    BY <2>1, FS_Subset, FS_CardinalityType
<1>7. before[h] = {}
  <2> HIDE DEF before
  <2>1. Cardinality(before[h]) = 0
    BY <1>5, <1>6
  <2> QED
    BY <1>6, <2>1, FS_EmptySet
<1>8. \A i \in S : ~(i < h)
  BY <1>1, <1>5, <1>7
<1> QED
  BY <1>5, <1>8

\* What was received of the vessels.
LEMMA PositionsAre ==
    /\ \A p \in Ais!Positions : p.mmsi \in Nat /\ p.age \in Nat /\ p.inside \in BOOLEAN
    /\ \A p, q \in Ais!Positions :
          Ais!Newer(p, q) <=> p.age < q.age \/ (p.age = q.age /\ p.mmsi > q.mmsi)
<1>1. \A p \in Ais!Positions : p.mmsi \in Nat /\ p.age \in Nat /\ p.inside \in BOOLEAN
  BY RelayAssumption DEF Ais!Positions
<1> QED
  BY <1>1 DEF Ais!Newer

\* Those of one post are a sequence.
LEMMA PayloadsAre == Payloads \subseteq Seq(Ais!Positions)
<1> SUFFICES ASSUME NEW payload \in Payloads PROVE payload \in Seq(Ais!Positions)
  OBVIOUS
<1>1. CASE aisPost > 0
  BY <1>1 DEF Payloads
<1>2. CASE ~(aisPost > 0)
  <2>1. PICK n \in 0 .. MaxMessages :
           payload \in [1 .. n -> {p \in Ais!Positions : p.inside \/ p.age = 0}]
    BY <1>2 DEF Payloads
  <2>2. n \in Nat
    BY RelayAssumption
  <2>3. payload \in [1 .. n -> Ais!Positions]
    BY <2>1
  <2> QED
    BY <2>2, <2>3
<1> QED
  BY <1>1, <1>2

\* The usable vessels, each at its first position: finitely many, of different numbers.
LEMMA FirstOfEachIsRight ==
    ASSUME NEW payload \in Seq(Ais!Positions)
    PROVE  LET usable == Ais!FirstOfEach(payload, Ais!Kept(payload))
           IN  /\ IsFiniteSet(usable) /\ usable \subseteq Ais!Positions
               /\ \A p \in usable : p \in Ais!ToSet(payload) /\ Ais!Usable(p)
               /\ \A p, q \in usable : p.mmsi = q.mmsi => p = q
               /\ \A p \in Ais!ToSet(payload) : Ais!Usable(p) =>
                     \E v \in usable : v.mmsi = p.mmsi
<1> DEFINE K == Ais!Kept(payload)
           usable == Ais!FirstOfEach(payload, K)
           ahead == {j \in K : \A h \in K : h < j => payload[h].mmsi # payload[j].mmsi}
<1>1. K = {i \in 1 .. Len(payload) : Ais!Usable(payload[i])}
  BY DEF Ais!Kept
<1>2. usable = {payload[i] : i \in ahead}
  BY DEF Ais!FirstOfEach
<1>3. /\ \A i \in K : i \in 1 .. Len(payload) /\ i \in Nat /\ payload[i] \in Ais!Positions
                      /\ Ais!Usable(payload[i])
      /\ \A i \in ahead : i \in K
  BY <1>1
<1>4. IsFiniteSet(K) /\ IsFiniteSet(ahead)
  <2>1. IsFiniteSet(1 .. Len(payload))
    BY FS_Interval
  <2>2. K \subseteq 1 .. Len(payload) /\ ahead \subseteq K
    BY <1>1
  <2> HIDE DEF K, ahead
  <2> QED
    BY <2>1, <2>2, FS_Subset
<1>5. IsFiniteSet(usable)
  <2> DEFINE f == [i \in ahead |-> payload[i]]
  <2>1. f \in Surjection(ahead, usable)
    <3> HIDE DEF ahead
    <3> QED
      BY <1>2 DEF Surjection
  <2> HIDE DEF ahead, usable, f
  <2> QED
    BY <1>4, <2>1, FS_Surjection
<1>6. Ais!ToSet(payload) = {payload[i] : i \in 1 .. Len(payload)}
  BY DEF Ais!ToSet
<1>7. \A p \in usable : p \in Ais!Positions /\ p \in Ais!ToSet(payload) /\ Ais!Usable(p)
  <2> HIDE DEF K, ahead, usable
  <2> QED
    BY <1>2, <1>3, <1>6
<1>8. ASSUME NEW p \in usable, NEW q \in usable, p.mmsi = q.mmsi PROVE p = q
  <2>1. PICK i \in ahead : p = payload[i]
    BY <1>2
  <2>2. PICK j \in ahead : q = payload[j]
    BY <1>2
  <2>3. ~(i < j) /\ ~(j < i)
    BY <1>3, <1>8, <2>1, <2>2
  <2> HIDE DEF K, ahead, usable
  <2> QED
    BY <1>3, <2>1, <2>2, <2>3
<1>9. ASSUME NEW p \in Ais!ToSet(payload), Ais!Usable(p)
      PROVE  \E v \in usable : v.mmsi = p.mmsi
  <2>1. PICK i \in 1 .. Len(payload) : p = payload[i]
    BY <1>6
  <2> DEFINE same == {h \in K : payload[h].mmsi = p.mmsi}
  <2>2. i \in same
    BY <1>1, <1>9, <2>1
  <2>3. IsFiniteSet(same) /\ same \subseteq Nat /\ same # {}
    <3>1. same \subseteq K
      OBVIOUS
    <3> HIDE DEF K, same
    <3> QED
      BY <1>3, <1>4, <2>2, <3>1, FS_Subset
  <2>4. PICK h \in same : \A j \in same : h <= j
    <3> HIDE DEF same
    <3> QED
      BY <2>3, LeastOf
  <2>5. ASSUME NEW j \in K, j < h PROVE payload[j].mmsi # payload[h].mmsi
    <3> SUFFICES ASSUME payload[j].mmsi = payload[h].mmsi PROVE FALSE
      OBVIOUS
    <3>1. j \in same
      BY <2>4
    <3>2. h <= j /\ h \in Nat /\ j \in Nat
      BY <1>3, <2>4, <3>1
    <3> QED
      BY <2>5, <3>2
  <2>6. h \in ahead
    BY <2>4, <2>5
  <2> QED
    BY <1>2, <2>4, <2>6
<1> HIDE DEF usable
<1> QED
  BY <1>5, <1>7, <1>8, <1>9 DEF usable

\* What a post will show is right.
LEMMA SnapshotIsRight ==
    ASSUME NEW payload \in Seq(Ais!Positions)
    PROVE  Ais!IsSnapshotOf(Ais!Snapshot(payload), payload)
<1> DEFINE usable == Ais!FirstOfEach(payload, Ais!Kept(payload))
           before == [p \in usable |-> {q \in usable : Ais!Newer(q, p)}]
           vessels == Ais!Snapshot(payload)
<1>1. /\ IsFiniteSet(usable) /\ usable \subseteq Ais!Positions
      /\ \A p \in usable : p \in Ais!ToSet(payload) /\ Ais!Usable(p)
      /\ \A p, q \in usable : p.mmsi = q.mmsi => p = q
      /\ \A p \in Ais!ToSet(payload) : Ais!Usable(p) => \E v \in usable : v.mmsi = p.mmsi
  BY FirstOfEachIsRight
<1>2. \A S : Ais!Cardinality(S) = Cardinality(S)
  BY DEF Ais!Cardinality, Cardinality
<1>3. MaxVessels \in Nat
  BY RelayAssumption
<1>4. /\ before \in [usable -> SUBSET usable]
      /\ \A p, q \in usable : q \in before[p] <=> Ais!Newer(q, p)
      /\ \A p \in usable : before[p] = {q \in usable : Ais!Newer(q, p)}
  OBVIOUS
<1>5. vessels = First(usable, before, MaxVessels)
  <2>1. vessels = {p \in usable : Cardinality({q \in usable : Ais!Newer(q, p)}) < MaxVessels}
    BY <1>2 DEF Ais!Snapshot, Ais!Cut
  <2>2. \A p \in usable :
           Cardinality(before[p]) = Cardinality({q \in usable : Ais!Newer(q, p)})
    <3> HIDE DEF before
    <3> QED
      BY <1>4
  <2> HIDE DEF before, usable, vessels
  <2> QED
    BY <2>1, <2>2 DEF First
<1> HIDE DEF before, usable, vessels
<1>6. \A p, q \in usable :
         /\ p.mmsi \in Nat /\ p.age \in Nat /\ q.mmsi \in Nat /\ q.age \in Nat
         /\ q \in before[p] <=> q.age < p.age \/ (q.age = p.age /\ q.mmsi > p.mmsi)
  BY <1>1, <1>4, PositionsAre
<1>7. \A p, q \in usable : q \in before[p] => before[q] \subseteq before[p]
  <2> SUFFICES ASSUME NEW p \in usable, NEW q \in usable, q \in before[p],
                      NEW h \in before[q]
               PROVE  h \in before[p]
    OBVIOUS
  <2>1. h \in usable
    BY <1>4
  <2>2. /\ h.age < q.age \/ (h.age = q.age /\ h.mmsi > q.mmsi)
        /\ q.age < p.age \/ (q.age = p.age /\ q.mmsi > p.mmsi)
        /\ h.age \in Nat /\ q.age \in Nat /\ p.age \in Nat
        /\ h.mmsi \in Nat /\ q.mmsi \in Nat /\ p.mmsi \in Nat
    BY <1>6, <2>1
  <2>3. h.age < p.age \/ (h.age = p.age /\ h.mmsi > p.mmsi)
    BY <2>2
  <2> QED
    BY <1>6, <2>1, <2>3
<1>8. Precedes(usable, before)
  <2>1. \A p \in usable : p \notin before[p]
    BY <1>6
  <2>2. \A p, q \in usable : p = q \/ p \in before[q] \/ q \in before[p]
    <3> SUFFICES ASSUME NEW p \in usable, NEW q \in usable, p # q
                 PROVE  p \in before[q] \/ q \in before[p]
      OBVIOUS
    <3>1. p.mmsi # q.mmsi
      BY <1>1
    <3>2. \/ p.age < q.age \/ (p.age = q.age /\ p.mmsi > q.mmsi)
          \/ q.age < p.age \/ (q.age = p.age /\ q.mmsi > p.mmsi)
      BY <1>6, <3>1
    <3> QED
      BY <1>6, <3>2
  <2> QED
    BY <1>1, <1>4, <1>7, <2>1, <2>2 DEF Precedes
<1>9. /\ vessels \subseteq usable
      /\ Cardinality(vessels) <= MaxVessels
      /\ Cardinality(vessels) = MaxVessels \/ vessels = usable
  <2>1. vessels \subseteq usable
    BY <1>5 DEF First
  <2> QED
    BY <1>3, <1>5, <1>8, <2>1, FirstAreMany
\* A usable vessel that is left out was not seen after one that is there.
<1>10. ASSUME NEW v \in usable, v \notin vessels, NEW p \in vessels PROVE p.age <= v.age
  <2> SUFFICES ASSUME ~(p.age <= v.age) PROVE FALSE
    OBVIOUS
  <2>1. p \in usable /\ Cardinality(before[p]) < MaxVessels
    BY <1>5 DEF First
  <2>2. v \in before[p]
    BY <1>6, <2>1
  <2>3. before[v] \subseteq before[p] /\ before[p] \subseteq usable
    BY <1>4, <1>7, <2>1, <2>2
  <2>4. IsFiniteSet(before[p])
    BY <1>1, <2>3, FS_Subset
  <2>5. IsFiniteSet(before[v]) /\ Cardinality(before[v]) <= Cardinality(before[p])
    BY <2>3, <2>4, FS_Subset
  <2>6. Cardinality(before[v]) \in Nat /\ Cardinality(before[p]) \in Nat
    BY <2>4, <2>5, FS_CardinalityType
  <2>7. Cardinality(before[v]) < MaxVessels
    BY <1>3, <2>1, <2>5, <2>6
  <2> QED
    BY <1>5, <1>10, <2>7 DEF First
<1>11. ASSUME NEW p \in Ais!ToSet(payload), Ais!Usable(p)
       PROVE  \/ \E v \in vessels : v.mmsi = p.mmsi
              \/ /\ Cardinality(vessels) = MaxVessels
                 /\ \E q \in Ais!ToSet(payload) : /\ q.mmsi = p.mmsi /\ Ais!Usable(q)
                                                  /\ \A v \in vessels : v.age <= q.age
  <2>1. PICK v \in usable : v.mmsi = p.mmsi
    BY <1>1, <1>11
  <2>2. CASE v \in vessels
    BY <2>1, <2>2
  <2>3. CASE v \notin vessels
    <3>1. Cardinality(vessels) = MaxVessels
      BY <1>9, <2>3
    <3>2. v \in Ais!ToSet(payload) /\ v.mmsi = p.mmsi /\ Ais!Usable(v)
      BY <1>1, <2>1
    <3>3. \A w \in vessels : w.age <= v.age
      BY <1>10, <2>3
    <3> QED
      BY <3>1, <3>2, <3>3
  <2> QED
    BY <2>2, <2>3
<1>12. \A p, q \in vessels : p.mmsi = q.mmsi => p = q
  BY <1>1, <1>9
<1>13. \A p \in vessels : p \in Ais!ToSet(payload) /\ Ais!Usable(p)
  BY <1>1, <1>9
<1>14. Ais!Cardinality(vessels) = Cardinality(vessels)
  BY <1>2
<1>15. Ais!IsSnapshotOf(vessels, payload)
  BY <1>9, <1>11, <1>12, <1>13, <1>14 DEF Ais!IsSnapshotOf
<1> QED
  BY <1>15 DEF vessels

-----------------------------------------------------------------------------
(* The relay's invariant.                                                  *)

AisTypes ==
    /\ aisSender \in {"none", "sent", "ok", "failed"} /\ aisPost \in 0 .. MaxPosts
    /\ aisLambda \in [1 .. MaxPosts -> [pc : {"none", "put", "scan", "post"},
                                        payload : Seq(Ais!Positions),
                                        todo : SUBSET Browsers]]
    /\ aisTable \subseteq Browsers /\ aisOpen \subseteq Browsers
    /\ aisShown \in [Browsers -> Nat]
    /\ aisJoined \in [Browsers -> 0 .. aisPost]
    /\ aisTimeouts \in Nat

\* While no post was given up, a lambda works only for the post that is waited for.
OnlyTheLastWorks ==
    \A n \in 1 .. MaxPosts : aisLambda[n].pc # "none" => n = aisPost /\ aisSender = "sent"

\* What it did before its scan, and before each of its posts.
ScanComesAfterPut ==
    \A n \in 1 .. MaxPosts : aisLambda[n].pc \in {"scan", "post"} => aisObject = aisPost

PostsAreToDo ==
    \A n \in 1 .. MaxPosts : aisLambda[n].pc = "post" =>
        \A b \in aisOpen \cap aisTable :
            aisJoined[b] < aisPost => b \in aisLambda[n].todo \/ aisShown[b] = aisPost

AisInv ==
    /\ AisTypes
    /\ aisTimeouts = 0 => /\ OnlyTheLastWorks /\ ScanComesAfterPut /\ PostsAreToDo
                          /\ Ais!AcceptedIsShown

\* It holds at the start.
LEMMA AisInit == ASSUME Ais!Init PROVE AisInv
<1>1. Ais!NoLambda \in [pc : {"none", "put", "scan", "post"}, payload : Seq(Ais!Positions),
                        todo : SUBSET Browsers] /\ Ais!NoLambda.pc = "none"
  BY EmptyIs DEF Ais!NoLambda
<1>2. MaxPosts \in Nat
  BY RelayAssumption
<1>3. AisTypes
  BY <1>1, <1>2 DEF Ais!Init, AisTypes
<1>4. \A n \in 1 .. MaxPosts : aisLambda[n].pc = "none"
  BY <1>1 DEF Ais!Init
<1>5. aisSender = "none"
  BY DEF Ais!Init
<1> QED
  BY <1>3, <1>4, <1>5 DEF AisInv, OnlyTheLastWorks, ScanComesAfterPut, PostsAreToDo,
     Ais!AcceptedIsShown

\* A new post: no lambda was working for an earlier one, or one was given up.
LEMMA AisSendKeeps ==
    ASSUME AisInv, NEW payload \in Payloads, Ais!Send(payload) PROVE AisInv'
<1> DEFINE new == [pc |-> "put", payload |-> payload, todo |-> {}]
<1>1. /\ aisSender # "sent" /\ aisPost < MaxPosts
      /\ aisSender' = "sent" /\ aisPost' = aisPost + 1
      /\ aisLambda' = [aisLambda EXCEPT ![aisPost + 1] = new]
      /\ UNCHANGED <<aisObject, aisTable, aisOpen, aisShown, aisJoined, aisTimeouts>>
  BY DEF Ais!Send
<1>2. aisPost' \in 1 .. MaxPosts /\ aisPost \in Nat
  BY <1>1, RelayAssumption DEF AisInv, AisTypes
<1>3. new \in [pc : {"none", "put", "scan", "post"}, payload : Seq(Ais!Positions),
               todo : SUBSET Browsers] /\ new.pc = "put"
  BY PayloadsAre
<1> HIDE DEF new
<1>4. AisTypes'
  <2>1. aisJoined' \in [Browsers -> 0 .. aisPost']
    BY <1>1, <1>2 DEF AisInv, AisTypes
  <2>2. aisPost' \in 0 .. MaxPosts
    BY <1>2
  <2> QED
    BY <1>1, <1>2, <1>3, <2>1, <2>2 DEF AisInv, AisTypes
<1>5. ASSUME aisTimeouts' = 0
      PROVE  OnlyTheLastWorks' /\ ScanComesAfterPut' /\ PostsAreToDo' /\ Ais!AcceptedIsShown'
  <2>1. \A n \in 1 .. MaxPosts : aisLambda[n].pc = "none"
    BY <1>1, <1>5 DEF AisInv, OnlyTheLastWorks
  <2>2. \A n \in 1 .. MaxPosts :
           aisLambda'[n].pc = IF n = aisPost' THEN "put" ELSE "none"
    BY <1>1, <1>3, <2>1 DEF AisInv, AisTypes
  <2> QED
    BY <1>1, <2>2 DEF OnlyTheLastWorks, ScanComesAfterPut, PostsAreToDo,
       Ais!AcceptedIsShown
<1> QED
  BY <1>4, <1>5 DEF AisInv

\* A post that is given up ends what is promised.
LEMMA AisTimeOutKeeps == ASSUME AisInv, Ais!TimeOut PROVE AisInv'
<1>1. /\ aisSender' = "failed" /\ aisTimeouts' = aisTimeouts + 1
      /\ UNCHANGED <<aisPost, aisLambda, aisObject, aisTable, aisOpen, aisShown, aisJoined>>
  BY DEF Ais!TimeOut
<1>2. aisTimeouts' \in Nat /\ aisTimeouts' # 0
  BY <1>1 DEF AisInv, AisTypes
<1> QED
  BY <1>1, <1>2 DEF AisInv, AisTypes

\* The snapshot is put in S3 for the post that is waited for.
LEMMA PutObjectKeeps ==
    ASSUME AisInv, NEW n \in 1 .. MaxPosts, Ais!PutObject(n) PROVE AisInv'
<1>1. /\ aisLambda[n].pc = "put" /\ aisObject' = n
      /\ aisLambda' = [aisLambda EXCEPT ![n].pc = "scan", ![n].payload = <<>>]
      /\ UNCHANGED <<aisSender, aisPost, aisTable, aisOpen, aisShown, aisJoined,
                     aisTimeouts>>
  BY DEF Ais!PutObject
<1>2. AisTypes'
  BY <1>1, EmptyIs DEF AisInv, AisTypes
<1>3. ASSUME aisTimeouts' = 0
      PROVE  OnlyTheLastWorks' /\ ScanComesAfterPut' /\ PostsAreToDo' /\ Ais!AcceptedIsShown'
  <2>1. /\ \A k \in 1 .. MaxPosts : aisLambda[k].pc # "none" =>
              k = aisPost /\ aisSender = "sent"
        /\ n = aisPost /\ aisSender = "sent"
    BY <1>1, <1>3 DEF AisInv, OnlyTheLastWorks
  <2>2. \A k \in 1 .. MaxPosts :
           aisLambda'[k].pc = IF k = n THEN "scan" ELSE aisLambda[k].pc
    BY <1>1 DEF AisInv, AisTypes
  <2>3. OnlyTheLastWorks'
    BY <1>1, <2>1, <2>2 DEF OnlyTheLastWorks
  <2>4. ScanComesAfterPut'
    BY <1>1, <2>1, <2>2 DEF ScanComesAfterPut
  <2>5. PostsAreToDo'
    <3>1. \A k \in 1 .. MaxPosts : aisLambda'[k].pc # "post"
      BY <2>1, <2>2
    <3> QED
      BY <3>1 DEF PostsAreToDo
  <2>6. Ais!AcceptedIsShown'
    BY <1>1, <2>1 DEF Ais!AcceptedIsShown
  <2> QED
    BY <2>3, <2>4, <2>5, <2>6
<1> QED
  BY <1>2, <1>3 DEF AisInv

\* Whoever is registered before the scan is to be posted to.
LEMMA ScanKeeps ==
    ASSUME AisInv, NEW n \in 1 .. MaxPosts, Ais!Scan(n) PROVE AisInv'
<1>1. /\ aisLambda[n].pc = "scan"
      /\ aisLambda' = [aisLambda EXCEPT ![n].pc = "post", ![n].todo = aisTable]
      /\ UNCHANGED <<aisSender, aisPost, aisObject, aisTable, aisOpen, aisShown, aisJoined,
                     aisTimeouts>>
  BY DEF Ais!Scan
<1>2. AisTypes'
  BY <1>1 DEF AisInv, AisTypes
<1>3. ASSUME aisTimeouts' = 0
      PROVE  OnlyTheLastWorks' /\ ScanComesAfterPut' /\ PostsAreToDo' /\ Ais!AcceptedIsShown'
  <2>1. /\ \A k \in 1 .. MaxPosts : aisLambda[k].pc # "none" =>
              k = aisPost /\ aisSender = "sent"
        /\ n = aisPost /\ aisSender = "sent" /\ aisObject = aisPost
    BY <1>1, <1>3 DEF AisInv, OnlyTheLastWorks, ScanComesAfterPut
  <2>2. \A k \in 1 .. MaxPosts :
           /\ aisLambda'[k].pc = IF k = n THEN "post" ELSE aisLambda[k].pc
           /\ k = n => aisLambda'[k].todo = aisTable
    BY <1>1 DEF AisInv, AisTypes
  <2>3. OnlyTheLastWorks'
    BY <1>1, <2>1, <2>2 DEF OnlyTheLastWorks
  <2>4. ScanComesAfterPut'
    BY <1>1, <2>1, <2>2 DEF ScanComesAfterPut
  <2>5. PostsAreToDo'
    BY <1>1, <2>1, <2>2 DEF PostsAreToDo
  <2>6. Ais!AcceptedIsShown'
    BY <1>1, <2>1 DEF Ais!AcceptedIsShown
  <2> QED
    BY <2>3, <2>4, <2>5, <2>6
<1> QED
  BY <1>2, <1>3 DEF AisInv

\* A post is shown, or raises and the sender is told.
LEMMA AisPostKeeps ==
    ASSUME AisInv, NEW n \in 1 .. MaxPosts, NEW b \in Browsers, Ais!Post(n, b)
    PROVE  AisInv'
<1>0. /\ aisLambda[n].pc = "post" /\ b \in aisLambda[n].todo
      /\ UNCHANGED <<aisPost, aisObject, aisTable, aisOpen, aisJoined, aisTimeouts>>
      /\ n \in Nat
  BY DEF Ais!Post
<1>1. CASE b \in aisOpen
  <2>1. /\ aisShown' = [aisShown EXCEPT ![b] = n]
        /\ aisLambda' = [aisLambda EXCEPT ![n].todo = @ \ {b}]
        /\ UNCHANGED aisSender
    BY <1>1 DEF Ais!Post
  <2>2. AisTypes'
    BY <1>0, <2>1 DEF AisInv, AisTypes
  <2>3. ASSUME aisTimeouts' = 0
        PROVE  OnlyTheLastWorks' /\ ScanComesAfterPut' /\ PostsAreToDo' /\ Ais!AcceptedIsShown'
    <3>1. /\ \A k \in 1 .. MaxPosts : aisLambda[k].pc # "none" =>
                k = aisPost /\ aisSender = "sent"
          /\ n = aisPost /\ aisSender = "sent"
          /\ ScanComesAfterPut /\ PostsAreToDo
      BY <1>0, <2>3 DEF AisInv, OnlyTheLastWorks
    <3>2. \A k \in 1 .. MaxPosts :
             /\ aisLambda'[k].pc = aisLambda[k].pc
             /\ aisLambda'[k].todo = IF k = n THEN aisLambda[k].todo \ {b}
                                     ELSE aisLambda[k].todo
      BY <2>1 DEF AisInv, AisTypes
    <3>3. \A c \in Browsers : aisShown'[c] = IF c = b THEN aisPost ELSE aisShown[c]
      BY <2>1, <3>1 DEF AisInv, AisTypes
    <3>4. PostsAreToDo'
      <4>1. aisOpen \cap aisTable \subseteq Browsers
        BY DEF AisInv, AisTypes
      <4> SUFFICES ASSUME NEW k \in 1 .. MaxPosts, aisLambda'[k].pc = "post",
                          NEW c \in aisOpen \cap aisTable, aisJoined[c] < aisPost
                   PROVE  c \in aisLambda'[k].todo \/ aisShown'[c] = aisPost
        BY <1>0 DEF PostsAreToDo
      <4>2. c \in aisLambda[k].todo \/ aisShown[c] = aisPost
        BY <3>1, <3>2 DEF PostsAreToDo
      <4> QED
        BY <3>2, <3>3, <4>1, <4>2
    <3> QED
      BY <1>0, <2>1, <3>1, <3>2, <3>4 DEF OnlyTheLastWorks, ScanComesAfterPut,
         Ais!AcceptedIsShown
  <2> QED
    BY <2>2, <2>3 DEF AisInv
<1>2. CASE b \notin aisOpen
  <2>1. /\ aisLambda' = [aisLambda EXCEPT ![n] = Ais!NoLambda]
        /\ aisSender' = (IF aisSender = "sent" /\ aisPost = n THEN "failed" ELSE aisSender)
        /\ UNCHANGED aisShown
    BY <1>2 DEF Ais!Post, Ais!Answer
  <2>2. Ais!NoLambda \in [pc : {"none", "put", "scan", "post"},
                          payload : Seq(Ais!Positions), todo : SUBSET Browsers]
        /\ Ais!NoLambda.pc = "none"
    BY EmptyIs DEF Ais!NoLambda
  <2>3. AisTypes'
    BY <1>0, <2>1, <2>2 DEF AisInv, AisTypes
  <2>4. ASSUME aisTimeouts' = 0
        PROVE  OnlyTheLastWorks' /\ ScanComesAfterPut' /\ PostsAreToDo' /\ Ais!AcceptedIsShown'
    <3>1. /\ \A k \in 1 .. MaxPosts : aisLambda[k].pc # "none" => k = n
          /\ n = aisPost /\ aisSender = "sent"
      BY <1>0, <2>4 DEF AisInv, OnlyTheLastWorks
    <3>2. \A k \in 1 .. MaxPosts : aisLambda'[k].pc = "none"
      BY <2>1, <2>2, <3>1 DEF AisInv, AisTypes
    <3>3. aisSender' = "failed"
      BY <2>1, <3>1
    <3> QED
      BY <3>2, <3>3 DEF OnlyTheLastWorks, ScanComesAfterPut, PostsAreToDo,
         Ais!AcceptedIsShown
  <2> QED
    BY <2>3, <2>4 DEF AisInv
<1> QED
  BY <1>1, <1>2

\* When nothing is left to do, whoever is still there shows the post.
LEMMA AisAcceptKeeps ==
    ASSUME AisInv, NEW n \in 1 .. MaxPosts, Ais!Accept(n) PROVE AisInv'
<1>1. /\ aisLambda[n].pc = "post" /\ aisLambda[n].todo = {}
      /\ aisLambda' = [aisLambda EXCEPT ![n] = Ais!NoLambda]
      /\ aisSender' = (IF aisSender = "sent" /\ aisPost = n THEN "ok" ELSE aisSender)
      /\ UNCHANGED <<aisPost, aisObject, aisTable, aisOpen, aisShown, aisJoined,
                     aisTimeouts>>
  BY DEF Ais!Accept, Ais!Answer
<1>2. Ais!NoLambda \in [pc : {"none", "put", "scan", "post"}, payload : Seq(Ais!Positions),
                        todo : SUBSET Browsers] /\ Ais!NoLambda.pc = "none"
  BY EmptyIs DEF Ais!NoLambda
<1>3. AisTypes'
  BY <1>1, <1>2 DEF AisInv, AisTypes
<1>4. ASSUME aisTimeouts' = 0
      PROVE  OnlyTheLastWorks' /\ ScanComesAfterPut' /\ PostsAreToDo' /\ Ais!AcceptedIsShown'
  <2>1. /\ \A k \in 1 .. MaxPosts : aisLambda[k].pc # "none" => k = n
        /\ n = aisPost /\ aisSender = "sent" /\ aisObject = aisPost
        /\ \A b \in aisOpen \cap aisTable :
              aisJoined[b] < aisPost => aisShown[b] = aisPost
    BY <1>1, <1>4 DEF AisInv, OnlyTheLastWorks, ScanComesAfterPut, PostsAreToDo
  <2>2. \A k \in 1 .. MaxPosts : aisLambda'[k].pc = "none"
    BY <1>1, <1>2, <2>1 DEF AisInv, AisTypes
  <2>3. OnlyTheLastWorks' /\ ScanComesAfterPut' /\ PostsAreToDo'
    BY <2>2 DEF OnlyTheLastWorks, ScanComesAfterPut, PostsAreToDo
  <2>4. Ais!AcceptedIsShown'
    BY <1>1, <2>1 DEF Ais!AcceptedIsShown
  <2> QED
    BY <2>3, <2>4
<1> QED
  BY <1>3, <1>4 DEF AisInv

\* Who comes was not registered before the post.
LEMMA AisConnectKeeps ==
    ASSUME AisInv, NEW b \in Browsers, Ais!Connect(b) PROVE AisInv'
<1>1. /\ b \notin aisOpen \cup aisTable
      /\ aisOpen' = aisOpen \cup {b} /\ aisTable' = aisTable \cup {b}
      /\ aisJoined' = [aisJoined EXCEPT ![b] = aisPost]
      /\ UNCHANGED <<aisSender, aisPost, aisLambda, aisObject, aisShown, aisTimeouts>>
  BY DEF Ais!Connect
<1>2. aisPost \in 0 .. aisPost /\ aisPost \in Nat
  BY RelayAssumption DEF AisInv, AisTypes
<1>3. AisTypes'
  BY <1>1, <1>2 DEF AisInv, AisTypes
<1>4. \A c \in aisOpen' \cap aisTable' : aisJoined'[c] < aisPost' =>
         c \in aisOpen \cap aisTable /\ aisJoined[c] < aisPost
  BY <1>1, <1>2 DEF AisInv, AisTypes
<1>5. ASSUME aisTimeouts' = 0
      PROVE  OnlyTheLastWorks' /\ ScanComesAfterPut' /\ PostsAreToDo' /\ Ais!AcceptedIsShown'
  <2>1. OnlyTheLastWorks /\ ScanComesAfterPut /\ PostsAreToDo /\ Ais!AcceptedIsShown
    BY <1>1, <1>5 DEF AisInv
  <2>2. OnlyTheLastWorks' /\ ScanComesAfterPut'
    BY <1>1, <2>1 DEF OnlyTheLastWorks, ScanComesAfterPut
  <2>3. PostsAreToDo'
    BY <1>1, <1>4, <2>1 DEF PostsAreToDo
  <2>4. Ais!AcceptedIsShown'
    BY <1>1, <1>4, <2>1 DEF Ais!AcceptedIsShown
  <2> QED
    BY <2>2, <2>3, <2>4
<1> QED
  BY <1>3, <1>5 DEF AisInv

\* Who goes, or is forgotten, is not one of those who must be shown it.
LEMMA AisLeaveKeeps ==
    ASSUME AisInv, aisOpen' \subseteq aisOpen, aisTable' \subseteq aisTable,
           UNCHANGED <<aisSender, aisPost, aisLambda, aisObject, aisShown, aisJoined,
                       aisTimeouts>>
    PROVE  AisInv'
<1>1. AisTypes'
  BY DEF AisInv, AisTypes
<1>2. aisOpen' \cap aisTable' \subseteq aisOpen \cap aisTable
  OBVIOUS
<1>3. ASSUME aisTimeouts' = 0
      PROVE  OnlyTheLastWorks' /\ ScanComesAfterPut' /\ PostsAreToDo' /\ Ais!AcceptedIsShown'
  <2>1. OnlyTheLastWorks /\ ScanComesAfterPut /\ PostsAreToDo /\ Ais!AcceptedIsShown
    BY <1>3 DEF AisInv
  <2>2. OnlyTheLastWorks' /\ ScanComesAfterPut'
    BY <2>1 DEF OnlyTheLastWorks, ScanComesAfterPut
  <2>3. PostsAreToDo' /\ Ais!AcceptedIsShown'
    BY <1>2, <2>1 DEF PostsAreToDo, Ais!AcceptedIsShown
  <2> QED
    BY <2>2, <2>3
<1> QED
  BY <1>1, <1>3 DEF AisInv

AisNext ==
    \/ \E payload \in Payloads : Ais!Send(payload)
    \/ Ais!TimeOut
    \/ \E n \in 1 .. MaxPosts : Ais!PutObject(n)
    \/ \E n \in 1 .. MaxPosts : Ais!Scan(n)
    \/ \E n \in 1 .. MaxPosts : Ais!Accept(n)
    \/ \E n \in 1 .. MaxPosts, b \in Browsers : Ais!Post(n, b)
    \/ \E b \in Browsers : Ais!Connect(b)
    \/ \E b \in Browsers : Ais!Close(b)
    \/ \E b \in Browsers : Ais!Expire(b)

\* Every step of the relay keeps its invariant.
LEMMA AisStep == ASSUME AisInv, AisNext PROVE AisInv'
<1>1. ASSUME NEW b \in Browsers, Ais!Close(b) PROVE AisInv'
  <2>1. /\ aisOpen' \subseteq aisOpen /\ aisTable' \subseteq aisTable
        /\ UNCHANGED <<aisSender, aisPost, aisLambda, aisObject, aisShown, aisJoined,
                       aisTimeouts>>
    BY <1>1 DEF Ais!Close
  <2> QED
    BY <2>1, AisLeaveKeeps
<1>2. ASSUME NEW b \in Browsers, Ais!Expire(b) PROVE AisInv'
  <2>1. /\ aisOpen' \subseteq aisOpen /\ aisTable' \subseteq aisTable
        /\ UNCHANGED <<aisSender, aisPost, aisLambda, aisObject, aisShown, aisJoined,
                       aisTimeouts>>
    BY <1>2 DEF Ais!Expire
  <2> QED
    BY <2>1, AisLeaveKeeps
<1> QED
  BY <1>1, <1>2, AisSendKeeps, AisTimeOutKeeps, PutObjectKeeps, ScanKeeps, AisPostKeeps,
     AisAcceptKeeps, AisConnectKeeps DEF AisNext

\* Another part's step leaves it alone.
LEMMA AisStutter == ASSUME AisInv, UNCHANGED AisVars PROVE AisInv'
<1>1. UNCHANGED <<aisSender, aisPost, aisLambda, aisObject, aisTable, aisOpen, aisShown,
                  aisJoined, aisTimeouts>>
  BY DEF AisVars
<1> QED
  BY <1>1, AisLeaveKeeps

\* What the relay promises.
LEMMA AisIsGood == AisInv => Ais!SnapshotsAreRight /\ Ais!AcceptedIsShown
<1>1. AisInv => Ais!AcceptedIsShown
  BY DEF AisInv, Ais!AcceptedIsShown
<1>2. AisInv => Ais!SnapshotsAreRight
  BY SnapshotIsRight DEF AisInv, AisTypes, Ais!SnapshotsAreRight
<1> QED
  BY <1>1, <1>2

-----------------------------------------------------------------------------
(* The rendition of a clip.                                                *)

RenditionNext ==
    \/ \E peak \in Peaks : Rendition!Begin(peak)
    \/ \E loss \in Losses : Rendition!Compress(loss)
    \/ \E error \in Errors : Rendition!Encode(error)
    \/ Rendition!Judge \/ Rendition!Place \/ Rendition!Name \/ Rendition!Fails

\* The level x as volumedetect prints it, and no more than full scale.
Printed(x) == IF 10 * ((x + 5) \div 10) < 0 THEN 10 * ((x + 5) \div 10) ELSE 0
Limited(x) == IF x < 0 THEN x ELSE 0

\* An encoding that may be placed.
Good(e) == e.peak \in Int /\ Rendition!Floor <= e.peak /\ e.peak < Rendition!Target + 5

\* What was wrong if the peak of a second encoding was.
Excuse ==
    \/ clipErrors[1] # clipErrors[2] \/ clipErrors[1] < Rendition!Floor
    \/ clipErrors[1] > -Rendition!Target \/ clipSource > 0

\* The first encoding missed the target by what the encoder did to it.
Missed ==
    LET first == Limited(clipCompressed + (Rendition!Target - Printed(clipCompressed)))
                   + clipErrors[1]
        decoded == Printed(first)
    IN  /\ ~(decoded \in Rendition!Floor .. Rendition!Target)
        /\ clipGain = (Rendition!Target - Printed(clipCompressed))
                        + (Rendition!Target - decoded)
                        - (IF decoded > Rendition!Target THEN 2 ELSE 0)

\* Where a rendition is, and what it has measured so far.
PlaceOfRendition ==
    /\ clipPc \in {"idle", "compress", "encode", "judge", "place", "name"}
    /\ clipSource \in Int /\ clipCompressed \in Int /\ clipGain \in Int
    /\ clipErrors \in Seq(Int) /\ Len(clipErrors) <= 2
    /\ clipPc = "compress" => clipErrors = <<>>
    /\ clipPc \in {"encode", "judge"} /\ clipSource <= 0 =>
          clipCompressed <= Rendition!Target + 4
    /\ clipPc = "encode" => Len(clipErrors) \in {0, 1}
    /\ clipPc \in {"judge", "place"} =>
          /\ Len(clipErrors) \in {1, 2}
          /\ clipEncoded = [gain |-> clipGain,
                            peak |-> Limited(clipCompressed + clipGain)
                                       + clipErrors[Len(clipErrors)]]
    /\ (clipPc = "encode" /\ Len(clipErrors) = 0) \/ (clipPc = "judge" /\ Len(clipErrors) = 1) =>
          clipGain = Rendition!Target - Printed(clipCompressed)
    /\ (clipPc = "encode" /\ Len(clipErrors) = 1) \/ (clipPc = "judge" /\ Len(clipErrors) = 2) =>
          Missed
    /\ clipPc = "place" =>
          Printed(clipEncoded.peak) \in Rendition!Floor .. Rendition!Target

\* What is kept of it.
KeptOfRendition ==
    /\ \A f \in {clipPending, clipFile} : f # Rendition!None => Good(f)
    /\ clipPc = "name" =>
          /\ clipPending # Rendition!None
          /\ clipResult = [gain |-> clipPending.gain,
                           decoded |-> Printed(clipPending.peak)]
    /\ clipPc = "idle" =>
          \/ clipResult = Rendition!None
          \/ \E why \in {"quiet", "peak", "failed"} : clipResult = [rejected |-> why]
          \/ /\ clipFile # Rendition!None
             /\ clipResult = [gain |-> clipFile.gain, decoded |-> Printed(clipFile.peak)]
    /\ clipPc = "idle" /\ clipResult = [rejected |-> "peak"] => Excuse

RenditionInv == PlaceOfRendition /\ KeptOfRendition

\* What Min does with a level.
LEMMA MeasuredIs ==
    ASSUME NEW x \in Int
    PROVE  /\ Rendition!Measured(x) = Printed(x)
           /\ Rendition!Min({0, x}) = Limited(x)
           /\ Printed(x) \in Int /\ Limited(x) \in Int
<1>1. ASSUME NEW y \in Int PROVE Rendition!Min({0, y}) = IF y < 0 THEN y ELSE 0
  <2> DEFINE S == {0, y}
             m == IF y < 0 THEN y ELSE 0
  <2>1. m \in S /\ \A z \in S : m =< z
    BY <1>1
  <2>2. \A w \in S : (\A z \in S : w =< z) => w = m
    BY <1>1
  <2>3. (CHOOSE w \in S : \A z \in S : w =< z) = m
    <3> HIDE DEF S, m
    <3> QED
      BY <2>1, <2>2
  <2> QED
    BY <2>3 DEF Rendition!Min
<1>2. 10 * ((x + 5) \div 10) \in Int
  OBVIOUS
<1>3. Rendition!Measured(x) = Printed(x)
  BY <1>1, <1>2 DEF Rendition!Measured, Printed
<1> QED
  BY <1>1, <1>2, <1>3 DEF Limited, Printed

\* What rounding does to a level.
LEMMA PrintedIs ==
    ASSUME NEW x \in Int
    PROVE  /\ Printed(x) \in Int /\ Printed(x) <= 0
           /\ \E k \in Int : Printed(x) = 10 * k
           /\ x < 5 => Printed(x) - x \in -4 .. 5
           /\ x >= 5 => Printed(x) = 0
  BY DEF Printed

\* No rendition has been begun.
LEMMA RenditionInit == ASSUME Rendition!Init PROVE RenditionInv
  <1> USE DEF Rendition!Init
  <1>1. PlaceOfRendition
    BY EmptyIs DEF PlaceOfRendition
  <1> QED
    BY <1>1 DEF RenditionInv, KeptOfRendition, Rendition!None

\* A clip is filtered and measured.
LEMMA RenditionBegins ==
    ASSUME RenditionInv, NEW peak \in Peaks, Rendition!Begin(peak)
    PROVE  RenditionInv'
<1>1. PlaceOfRendition /\ KeptOfRendition
  BY DEF RenditionInv
<1>2. clipPc = "idle" /\ clipSource' = peak /\ clipErrors' = <<>> /\ peak \in Int
      /\ UNCHANGED <<clipCompressed, clipGain, clipPending, clipFile>>
  BY RenditionAssumption DEF Rendition!Begin
<1>3. \/ clipPc' = "idle" /\ clipResult' = [rejected |-> "quiet"]
      \/ clipPc' = "compress" /\ UNCHANGED <<clipEncoded, clipResult>>
  BY DEF Rendition!Begin, Rendition!Rejected
<1>4. PlaceOfRendition'
  BY <1>1, <1>2, <1>3, EmptyIs DEF PlaceOfRendition
<1>5. KeptOfRendition'
  BY <1>1, <1>2, <1>3 DEF KeptOfRendition, Good
<1> QED
  BY <1>4, <1>5 DEF RenditionInv

\* It is brought to the target, and compressed.
LEMMA RenditionCompresses ==
    ASSUME RenditionInv, NEW loss \in Losses, Rendition!Compress(loss)
    PROVE  RenditionInv'
<1> DEFINE normalised == clipSource + (Rendition!Target - Rendition!Measured(clipSource))
<1>1. PlaceOfRendition /\ KeptOfRendition
  BY DEF RenditionInv
<1>2. clipPc = "compress" /\ clipPc' = "encode"
      /\ clipCompressed' = normalised - loss
      /\ clipGain' = Rendition!Target - Rendition!Measured(normalised - loss)
      /\ UNCHANGED <<clipSource, clipEncoded, clipErrors, clipPending, clipFile, clipResult>>
  BY DEF Rendition!Compress
<1>3. clipSource \in Int /\ loss \in Nat
  BY <1>1, RenditionAssumption DEF PlaceOfRendition
<1>4. Rendition!Measured(clipSource) = Printed(clipSource) /\ Printed(clipSource) \in Int
  BY <1>3, MeasuredIs
<1>5. normalised - loss \in Int
  BY <1>3, <1>4 DEF Rendition!Target
<1>6. clipGain' = Rendition!Target - Printed(clipCompressed') /\ clipGain' \in Int
  <2>1. /\ Rendition!Measured(normalised - loss) = Printed(normalised - loss)
        /\ Printed(normalised - loss) \in Int
    BY <1>5, MeasuredIs
  <2> HIDE DEF normalised
  <2> QED
    BY <1>2, <2>1 DEF Rendition!Target
<1>7. clipSource <= 0 => normalised - loss <= Rendition!Target + 4
  <2>1. clipSource < 5 => Printed(clipSource) - clipSource \in -4 .. 5
    BY <1>3, PrintedIs
  <2> QED
    BY <1>3, <1>4, <2>1 DEF Rendition!Target
<1>8. Len(clipErrors') = 0 /\ clipErrors' = <<>>
  BY <1>1, <1>2 DEF PlaceOfRendition
<1> HIDE DEF normalised
<1>9. PlaceOfRendition'
  BY <1>1, <1>2, <1>5, <1>6, <1>7, <1>8 DEF PlaceOfRendition
<1>10. KeptOfRendition'
  BY <1>1, <1>2 DEF KeptOfRendition, Good
<1> QED
  BY <1>9, <1>10 DEF RenditionInv

\* It is encoded.
LEMMA RenditionEncodes ==
    ASSUME RenditionInv, NEW error \in Errors, Rendition!Encode(error)
    PROVE  RenditionInv'
<1>1. PlaceOfRendition /\ KeptOfRendition
  BY DEF RenditionInv
<1>2. clipPc = "encode" /\ clipPc' = "judge"
      /\ clipEncoded' = [gain |-> clipGain,
                         peak |-> Rendition!Min({0, clipCompressed + clipGain}) + error]
      /\ clipErrors' = Append(clipErrors, error)
      /\ UNCHANGED <<clipSource, clipCompressed, clipGain, clipPending, clipFile, clipResult>>
  BY DEF Rendition!Encode
<1>3. clipCompressed \in Int /\ clipGain \in Int /\ error \in Int /\ clipErrors \in Seq(Int)
      /\ Len(clipErrors) \in {0, 1}
  BY <1>1, <1>2, RenditionAssumption DEF PlaceOfRendition
<1>4. Rendition!Min({0, clipCompressed + clipGain}) = Limited(clipCompressed + clipGain)
  BY <1>3, MeasuredIs
<1>5. clipErrors' \in Seq(Int) /\ Len(clipErrors') = Len(clipErrors) + 1
      /\ clipErrors'[Len(clipErrors')] = error
      /\ (Len(clipErrors) = 1 => clipErrors'[1] = clipErrors[1])
  BY <1>2, <1>3
<1>6. Len(clipErrors) = 1 => Missed'
  <2>1. Len(clipErrors) = 1 => Missed
    BY <1>1, <1>2, <1>3 DEF PlaceOfRendition
  <2> QED
    BY <1>2, <1>5, <2>1 DEF Missed
<1>7. PlaceOfRendition'
  <2>1. clipEncoded' = [gain |-> clipGain',
                        peak |-> Limited(clipCompressed' + clipGain')
                                   + clipErrors'[Len(clipErrors')]]
    BY <1>2, <1>4, <1>5
  <2>7. \/ Len(clipErrors) = 0 /\ Len(clipErrors') = 1
        \/ Len(clipErrors) = 1 /\ Len(clipErrors') = 2
    <3> DEFINE n == Len(clipErrors)
               m == Len(clipErrors')
    <3>1. n = 0 \/ n = 1
      BY <1>3
    <3>2. m = n + 1
      BY <1>5
    <3> HIDE DEF n, m
    <3>3. \/ n = 0 /\ m = 1
          \/ n = 1 /\ m = 2
      BY <3>1, <3>2
    <3> QED
      BY <3>3 DEF n, m
  <2>2. Len(clipErrors') \in {1, 2} /\ Len(clipErrors') <= 2
    <3> DEFINE m == Len(clipErrors')
    <3>1. m = 1 \/ m = 2
      BY <2>7
    <3> HIDE DEF m
    <3>2. m \in {1, 2} /\ m <= 2
      BY <3>1
    <3> QED
      BY <3>2 DEF m
  <2>3. Len(clipErrors') = 1 => clipGain' = Rendition!Target - Printed(clipCompressed')
    BY <1>1, <1>2, <2>7 DEF PlaceOfRendition
  <2>4. Len(clipErrors') = 2 => Missed'
    BY <1>6, <2>7
  <2>5. clipSource' <= 0 => clipCompressed' <= Rendition!Target + 4
    BY <1>1, <1>2 DEF PlaceOfRendition
  <2>6. clipSource' \in Int /\ clipCompressed' \in Int /\ clipGain' \in Int
    BY <1>1, <1>2 DEF PlaceOfRendition
  <2> QED
    BY <1>2, <1>5, <2>1, <2>2, <2>3, <2>4, <2>5, <2>6 DEF PlaceOfRendition
<1>8. KeptOfRendition'
  BY <1>1, <1>2 DEF KeptOfRendition, Good
<1> QED
  BY <1>7, <1>8 DEF RenditionInv

\* Rounding is to the nearest ten, and never above zero.
LEMMA PrintedIsNear ==
    ASSUME NEW x \in Int
    PROVE  /\ \E k \in Int : Printed(x) = 10 * k
           /\ Printed(x) \in Int /\ Printed(x) <= 0
           /\ x <= 4 => x - 4 <= Printed(x) /\ Printed(x) <= x + 5
<1>1. PICK k \in Int : k = (x + 5) \div 10
  OBVIOUS
<1>2. 10 * k <= x + 5 /\ x + 5 <= 10 * k + 9
  BY <1>1
<1>3. Printed(x) = IF 10 * k < 0 THEN 10 * k ELSE 0
  BY <1>1 DEF Printed
<1>4. \E i \in Int : Printed(x) = 10 * i
  <2>1. Printed(x) = 10 * k \/ Printed(x) = 10 * 0
    BY <1>3
  <2> QED
    BY <2>1
<1> QED
  BY <1>2, <1>3, <1>4

\* An encoding that missed the target once, by what the encoder did to it, hits it the
\* second time if the encoder does the same again.
LEMMA CorrectionHits ==
    ASSUME NEW c \in Int, NEW e \in Int, c <= -16, -75 <= e, e <= 20,
           ~(Printed(Limited(c + (-20 - Printed(c))) + e) \in -75 .. -20)
    PROVE  LET decoded == Printed(Limited(c + (-20 - Printed(c))) + e)
               gain == (-20 - Printed(c)) + (-20 - decoded)
                         - (IF decoded > -20 THEN 2 ELSE 0)
           IN  Printed(Limited(c + gain) + e) \in -75 .. -20
<1> DEFINE first == c + (-20 - Printed(c))
           decoded == Printed(Limited(first) + e)
           second == first + (-20 - decoded) - (IF decoded > -20 THEN 2 ELSE 0)
<1>1. Printed(c) \in Int /\ c - 4 <= Printed(c) /\ Printed(c) <= c + 5
  BY PrintedIsNear
<1>2. first \in Int /\ -25 <= first /\ first <= -16
  BY <1>1
<1>3. c + ((-20 - Printed(c)) + (-20 - decoded) - (IF decoded > -20 THEN 2 ELSE 0)) = second
      /\ second \in Int /\ decoded \in Int
  <2>1. decoded \in Int
    <3> HIDE DEF first
    <3>1. Limited(first) + e \in Int
      BY <1>2 DEF Limited
    <3> QED
      BY <3>1, PrintedIsNear
  <2> HIDE DEF decoded
  <2> QED
    BY <1>1, <2>1
<1> HIDE DEF first
<1>4. Limited(first) = first
  BY <1>2 DEF Limited
<1>5. PICK k \in Int : decoded = 10 * k
  <2>1. first + e \in Int
    BY <1>2
  <2> QED
    BY <1>4, <2>1, PrintedIsNear
<1>6. decoded = Printed(first + e) /\ ~(decoded \in -75 .. -20)
  BY <1>4 DEF first
<1> HIDE DEF decoded
<1>7. (first + e) - 4 <= decoded /\ decoded <= first + e + 5 /\ decoded <= 0
  <2> DEFINE x == first + e
  <2>1. x \in Int /\ x <= 4
    BY <1>2
  <2>2. decoded = Printed(x)
    BY <1>6
  <2> HIDE DEF x
  <2>3. x - 4 <= decoded /\ decoded <= x + 5 /\ decoded <= 0
    BY <2>1, <2>2, PrintedIsNear
  <2> QED
    BY <2>3 DEF x
<1>8. decoded <= -80 \/ decoded \in {-10, 0}
  <2>1. ~(-75 <= 10 * k /\ 10 * k <= -20) /\ 10 * k <= 0
    BY <1>5, <1>6, <1>7
  <2>2. k <= -8 \/ k = -1 \/ k = 0
    BY <2>1
  <2> QED
    BY <1>5, <2>2
<1>9. CASE decoded <= -80
  <2>1. second > 0 /\ Limited(second) = 0
    BY <1>2, <1>3, <1>9 DEF Limited
  <2>2. e <= -51
    BY <1>2, <1>3, <1>7, <1>9
  <2>3. Printed(e) \in Int /\ e - 4 <= Printed(e) /\ Printed(e) <= e + 5
        /\ \E i \in Int : Printed(e) = 10 * i
    BY <2>2, PrintedIsNear
  <2>4. Printed(e) \in -75 .. -20
    BY <2>2, <2>3
  <2> QED
    BY <1>3, <2>1, <2>4 DEF decoded, first
<1>10. CASE decoded \in {-10, 0}
  <2>1. second = first - 22 - decoded /\ second < 0 /\ Limited(second) = second
    BY <1>2, <1>3, <1>10 DEF Limited
  <2> DEFINE x == second + e
  <2>2. x \in Int /\ -27 <= x /\ x <= -18
    BY <1>2, <1>3, <1>7, <1>10, <2>1
  <2> HIDE DEF x
  <2>3. x \in Int /\ x <= 4
    BY <2>2
  <2>4. Printed(x) \in Int /\ x - 4 <= Printed(x) /\ Printed(x) <= x + 5
    BY <2>3, PrintedIsNear
  <2>5. PICK i \in Int : Printed(x) = 10 * i
    BY <2>3, PrintedIsNear
  <2>6. -27 - 4 <= 10 * i /\ 10 * i <= -18 + 5
    BY <2>2, <2>4, <2>5
  <2>7. Printed(x) \in -75 .. -20
    BY <2>5, <2>6
  <2> QED
    BY <1>3, <2>1, <2>7 DEF decoded, first, x
<1> QED
  BY <1>8, <1>9, <1>10

\* It is judged: placed, corrected once, or rejected.
LEMMA RenditionJudges == ASSUME RenditionInv, Rendition!Judge PROVE RenditionInv'
<1> DEFINE decoded == Rendition!Measured(clipEncoded.peak)
<1>1. PlaceOfRendition /\ KeptOfRendition
  BY DEF RenditionInv
<1>2. clipPc = "judge" /\ UNCHANGED <<clipSource, clipCompressed, clipErrors, clipPending, clipFile>>
  BY DEF Rendition!Judge
<1>3. /\ clipSource \in Int /\ clipCompressed \in Int /\ clipGain \in Int
      /\ clipErrors \in Seq(Int) /\ Len(clipErrors) \in {1, 2}
      /\ clipEncoded = [gain |-> clipGain,
                        peak |-> Limited(clipCompressed + clipGain)
                                   + clipErrors[Len(clipErrors)]]
  BY <1>1, <1>2 DEF PlaceOfRendition
<1>4. Limited(clipCompressed + clipGain) \in Int /\ clipErrors[Len(clipErrors)] \in Int
      /\ clipErrors[1] \in Int
  <2>1. clipCompressed + clipGain \in Int
    BY <1>3
  <2>2. \A i \in 1 .. Len(clipErrors) : clipErrors[i] \in Int
    BY <1>3
  <2>3. Len(clipErrors) \in 1 .. Len(clipErrors) /\ 1 \in 1 .. Len(clipErrors)
    <3> DEFINE n == Len(clipErrors)
    <3>1. n = 1 \/ n = 2
      BY <1>3
    <3> HIDE DEF n
    <3>2. n \in 1 .. n /\ 1 \in 1 .. n
      BY <3>1
    <3> QED
      BY <3>2 DEF n
  <2> QED
    BY <2>1, <2>2, <2>3, MeasuredIs
<1>5. clipEncoded.peak \in Int
      /\ clipEncoded.peak = Limited(clipCompressed + clipGain) + clipErrors[Len(clipErrors)]
  BY <1>3, <1>4
<1>6. decoded = Printed(clipEncoded.peak) /\ decoded \in Int
  BY <1>5, MeasuredIs
<1>7. CASE /\ decoded \in Rendition!Floor .. Rendition!Target
           /\ clipPc' = "place" /\ UNCHANGED <<clipGain, clipEncoded, clipResult>>
  <2>1. PlaceOfRendition'
    BY <1>1, <1>2, <1>3, <1>6, <1>7 DEF PlaceOfRendition
  <2>2. KeptOfRendition'
    BY <1>1, <1>2, <1>7 DEF KeptOfRendition, Good
  <2> QED
    BY <2>1, <2>2 DEF RenditionInv
<1>8. CASE /\ ~(decoded \in Rendition!Floor .. Rendition!Target) /\ Len(clipErrors) = 1
           /\ clipPc' = "encode" /\ clipGain' = Rendition!Corrected(decoded)
           /\ UNCHANGED <<clipEncoded, clipResult>>
  <2>1. clipGain = Rendition!Target - Printed(clipCompressed)
    BY <1>1, <1>2, <1>8 DEF PlaceOfRendition
  <2>2. decoded = Printed(Limited(clipCompressed + (Rendition!Target - Printed(clipCompressed)))
                            + clipErrors[1])
    BY <1>5, <1>6, <1>8, <2>1
  <2> HIDE DEF decoded
  <2>3. Missed'
    BY <1>2, <1>8, <2>1, <2>2 DEF Missed, Rendition!Corrected
  <2>4. clipGain' \in Int
    <3> DEFINE x == decoded
    <3>1. x \in Int
      BY <1>6 DEF x
    <3> HIDE DEF x
    <3>2. clipGain + (-20 - x) - (IF x > -20 THEN 2 ELSE 0) \in Int
      BY <1>3, <3>1
    <3> QED
      BY <1>8, <3>2 DEF Rendition!Corrected, Rendition!Target, x
  <2>5. PlaceOfRendition'
    BY <1>1, <1>2, <1>8, <2>3, <2>4 DEF PlaceOfRendition
  <2>6. KeptOfRendition'
    BY <1>1, <1>2, <1>8 DEF KeptOfRendition, Good
  <2> QED
    BY <2>5, <2>6 DEF RenditionInv
<1>9. CASE /\ ~(decoded \in Rendition!Floor .. Rendition!Target) /\ Len(clipErrors) = 2
           /\ clipPc' = "idle" /\ clipResult' = [rejected |-> "peak"]
           /\ UNCHANGED clipGain
  <2>1. Missed
    BY <1>1, <1>2, <1>9 DEF PlaceOfRendition
  <2>2. Excuse
    <3> SUFFICES ASSUME clipErrors[1] = clipErrors[2], -75 <= clipErrors[1],
                        clipErrors[1] <= 20, clipSource <= 0
                 PROVE  FALSE
      BY <1>3, <1>4 DEF Excuse, Rendition!Floor, Rendition!Target
    <3>1. clipCompressed <= -16
      BY <1>1, <1>2 DEF PlaceOfRendition, Rendition!Target
    <3> DEFINE c == clipCompressed
               e == clipErrors[1]
               d == Printed(Limited(c + (-20 - Printed(c))) + e)
               gain == (-20 - Printed(c)) + (-20 - d) - (IF d > -20 THEN 2 ELSE 0)
    <3>2. ~(d \in -75 .. -20) /\ clipGain = gain
      BY <2>1 DEF Missed, Rendition!Floor, Rendition!Target
    <3>3. Printed(Limited(c + gain) + e) \in -75 .. -20
      BY <1>3, <1>4, <3>1, <3>2, CorrectionHits
    <3>4. decoded = Printed(Limited(c + gain) + e)
      <4> HIDE DEF gain, decoded
      <4> QED
        BY <1>5, <1>6, <1>9, <3>2
    <3> QED
      BY <1>9, <3>3, <3>4 DEF Rendition!Floor, Rendition!Target
  <2>3. Excuse'
    BY <1>2, <2>2 DEF Excuse
  <2>4. PlaceOfRendition'
    BY <1>1, <1>2, <1>3, <1>9 DEF PlaceOfRendition
  <2>5. KeptOfRendition'
    BY <1>1, <1>2, <1>9, <2>3 DEF KeptOfRendition, Good
  <2> QED
    BY <2>4, <2>5 DEF RenditionInv
<1> QED
  BY <1>3, <1>7, <1>8, <1>9 DEF Rendition!Judge, Rendition!Rejected

\* It is placed beside the clip.
LEMMA RenditionPlaces == ASSUME RenditionInv, Rendition!Place PROVE RenditionInv'
<1>1. PlaceOfRendition /\ KeptOfRendition
  BY DEF RenditionInv
<1>2. clipPc = "place" /\ clipPc' = "name" /\ clipPending' = clipEncoded
      /\ clipResult' = [gain |-> clipGain, decoded |-> Rendition!Measured(clipEncoded.peak)]
      /\ UNCHANGED <<clipSource, clipCompressed, clipGain, clipErrors, clipFile>>
  BY DEF Rendition!Place
<1>3. /\ clipCompressed \in Int /\ clipGain \in Int
      /\ clipErrors \in Seq(Int) /\ Len(clipErrors) \in {1, 2}
      /\ clipEncoded = [gain |-> clipGain,
                        peak |-> Limited(clipCompressed + clipGain)
                                   + clipErrors[Len(clipErrors)]]
  BY <1>1, <1>2 DEF PlaceOfRendition
<1>4. clipEncoded.peak \in Int /\ clipEncoded.gain = clipGain /\ clipEncoded # Rendition!None
  <2>1. Limited(clipCompressed + clipGain) \in Int /\ clipErrors[Len(clipErrors)] \in Int
    <3>1. clipCompressed + clipGain \in Int
      BY <1>3
    <3>2. \A i \in 1 .. Len(clipErrors) : clipErrors[i] \in Int
      BY <1>3
    <3>3. Len(clipErrors) \in 1 .. Len(clipErrors)
      <4> DEFINE n == Len(clipErrors)
      <4>1. n = 1 \/ n = 2
        BY <1>3
      <4> HIDE DEF n
      <4>2. n \in 1 .. n /\ 1 \in 1 .. n
        BY <4>1
      <4> QED
        BY <4>2 DEF n
    <3> QED
      BY <3>1, <3>2, <3>3, MeasuredIs
  <2> QED
    BY <1>3, <2>1 DEF Rendition!None
<1>5. Rendition!Measured(clipEncoded.peak) = Printed(clipEncoded.peak)
  BY <1>4, MeasuredIs
<1>6. Good(clipEncoded)
  <2>1. Printed(clipEncoded.peak) \in Rendition!Floor .. Rendition!Target
    BY <1>1, <1>2 DEF PlaceOfRendition
  <2> QED
    <3> DEFINE x == clipEncoded.peak
    <3>1. /\ x \in Int /\ Printed(x) \in -75 .. -20
          /\ x < 5 => Printed(x) - x \in -4 .. 5
          /\ x >= 5 => Printed(x) = 0
      BY <1>4, <2>1, PrintedIs DEF Rendition!Floor, Rendition!Target
    <3>2. \E k \in Int : Printed(x) = 10 * k
      BY <1>4, PrintedIs
    <3> HIDE DEF x
    <3>3. x \in Int /\ -75 <= x /\ x < -20 + 5
      BY <3>1, <3>2
    <3> QED
      BY <3>3 DEF Good, Rendition!Floor, Rendition!Target, x
<1>7. PlaceOfRendition'
  BY <1>1, <1>2 DEF PlaceOfRendition
<1>8. KeptOfRendition'
  BY <1>1, <1>2, <1>4, <1>5, <1>6 DEF KeptOfRendition, Good
<1> QED
  BY <1>7, <1>8 DEF RenditionInv

\* It gets its name.
LEMMA RenditionIsNamed == ASSUME RenditionInv, Rendition!Name PROVE RenditionInv'
<1>1. PlaceOfRendition /\ KeptOfRendition
  BY DEF RenditionInv
<1>2. clipPc = "name" /\ clipPc' = "idle" /\ clipFile' = clipPending
      /\ clipPending' = Rendition!None
      /\ UNCHANGED <<clipSource, clipCompressed, clipGain, clipEncoded, clipErrors, clipResult>>
  BY DEF Rendition!Name
<1>3. PlaceOfRendition'
  BY <1>1, <1>2 DEF PlaceOfRendition
<1>4. KeptOfRendition'
  BY <1>1, <1>2 DEF KeptOfRendition, Good
<1> QED
  BY <1>3, <1>4 DEF RenditionInv

\* It fails.
LEMMA RenditionFails == ASSUME RenditionInv, Rendition!Fails PROVE RenditionInv'
<1>1. PlaceOfRendition /\ KeptOfRendition
  BY DEF RenditionInv
<1>2. clipPc' = "idle" /\ clipResult' = [rejected |-> "failed"]
      /\ UNCHANGED <<clipSource, clipCompressed, clipGain, clipErrors, clipPending, clipFile>>
  BY DEF Rendition!Fails, Rendition!Rejected
<1>3. PlaceOfRendition'
  BY <1>1, <1>2 DEF PlaceOfRendition
<1>4. KeptOfRendition'
  BY <1>1, <1>2 DEF KeptOfRendition, Good
<1> QED
  BY <1>3, <1>4 DEF RenditionInv

\* Every step of a rendition keeps its invariant.
LEMMA RenditionStep == ASSUME RenditionInv, RenditionNext PROVE RenditionInv'
BY RenditionBegins, RenditionCompresses, RenditionEncodes, RenditionJudges, RenditionPlaces,
   RenditionIsNamed, RenditionFails DEF RenditionNext

\* Another part's step leaves it alone.
LEMMA RenditionStutters == ASSUME RenditionInv, UNCHANGED RenditionVars PROVE RenditionInv'
BY DEF RenditionVars, RenditionInv, PlaceOfRendition, KeptOfRendition, Missed, Excuse, Good

\* What a rendition that is there, or was rejected, tells.
LEMMA RenditionIsGood == RenditionInv => Rendition!RenditionIsRight
<1> SUFFICES ASSUME RenditionInv PROVE Rendition!RenditionIsRight
  OBVIOUS
<1>1. PlaceOfRendition /\ KeptOfRendition
  BY DEF RenditionInv
<1>2. \A f \in {clipPending, clipFile} \ {Rendition!None} :
         Rendition!Floor <= f.peak /\ f.peak < Rendition!Target + 5
  BY <1>1 DEF KeptOfRendition, Good
<1>3. ASSUME clipPc = "idle", clipResult # Rendition!None, "gain" \in DOMAIN clipResult
      PROVE  clipResult = [gain |-> clipFile.gain,
                           decoded |-> Rendition!Measured(clipFile.peak)]
  <2>1. \A why : "gain" \notin DOMAIN [rejected |-> why]
    OBVIOUS
  <2>2. clipFile # Rendition!None
        /\ clipResult = [gain |-> clipFile.gain, decoded |-> Printed(clipFile.peak)]
    BY <1>1, <1>3, <2>1 DEF KeptOfRendition
  <2>3. clipFile.peak \in Int
    BY <1>1, <2>2 DEF KeptOfRendition, Good
  <2> QED
    BY <2>2, <2>3, MeasuredIs
<1>4. clipPc = "idle" /\ clipResult = [rejected |-> "peak"] => Excuse
  BY <1>1 DEF KeptOfRendition
<1> QED
  BY <1>2, <1>3, <1>4 DEF Rendition!RenditionIsRight, Excuse
-----------------------------------------------------------------------------
(* The live view: captions, vessels and renditions.                        *)

LiveViewInv ==
    /\ part = "captions" => CaptionsInv
    /\ part = "ais" => AisInv
    /\ part = "rendition" => RenditionInv

\* What is shown as a caption is stored, and a page of recent ones has no gap; a vessel
\* snapshot is the newest of what was received and an accepted one reaches whoever is
\* registered; a rendition that is there has the peak it should (live_transcriber.py,
\* ais_live.py, process_canonical_clip_audio).
THEOREM LiveViewRight == HostSpec => []LiveViewIsRight
<1>1. HostInit => LiveViewInv
  BY CaptionsInit, AisInit, RenditionInit DEF HostInit, LiveViewInv
<1>2. LiveViewInv /\ [HostNext]_allVars => LiveViewInv'
  <2> SUFFICES ASSUME LiveViewInv, [HostNext]_allVars PROVE LiveViewInv'
    OBVIOUS
  <2>1. ASSUME part' = "captions" PROVE CaptionsInv'
    <3>1. part = "captions" /\ (CaptionsNext \/ UNCHANGED CaptionsVars)
      BY <2>1 DEF HostNext, Only, allVars, CaptionsNext
    <3> QED
      BY <3>1, CaptionsStep, CaptionsStutter DEF LiveViewInv
  <2>2. ASSUME part' = "ais" PROVE AisInv'
    <3>1. part = "ais" /\ (AisNext \/ UNCHANGED AisVars)
      BY <2>2 DEF HostNext, Only, allVars, AisNext
    <3> QED
      BY <3>1, AisStep, AisStutter DEF LiveViewInv
  <2>3. ASSUME part' = "rendition" PROVE RenditionInv'
    <3>1. part = "rendition" /\ (RenditionNext \/ UNCHANGED RenditionVars)
      BY <2>3 DEF HostNext, Only, allVars, RenditionNext
    <3> QED
      BY <3>1, RenditionStep, RenditionStutters DEF LiveViewInv
  <2> QED
    BY <2>1, <2>2, <2>3 DEF LiveViewInv
<1>3. LiveViewInv => LiveViewIsRight
  BY CaptionsAreGood, AisIsGood, RenditionIsGood DEF LiveViewInv, LiveViewIsRight
<1> QED
  BY <1>1, <1>2, <1>3, PTL DEF HostSpec
=============================================================================
