------------------------------ MODULE LiveRetune ------------------------------
(***************************************************************************)
(* Retuning the live receiver: POST /api/channel of live_radio_proxy.py    *)
(* runs, in a thread, ssh with a script that rewrites the Pi's environment *)
(* file and restarts the stream, and then restarts the transcriber.  The   *)
(* request waits for the thread under a lock that later requests refuse to *)
(* wait for.  ssh is given up after 45 seconds, and the script on the Pi   *)
(* then goes on without anybody waiting for it.                            *)
(***************************************************************************)
EXTENDS Naturals

CONSTANTS Requests, Channels,
          First,          \* the channel the receiver starts with
          NoOne,          \* holder of a free lock
          NoChannel,      \* what an environment file without the line says
          RestartsTranscriber,
          MaxTimeouts     \* bound: ssh commands that are given up

VARIABLES lock,      \* retune_lock
          request,   \* the channel asked for, and what was answered
          thread,    \* where the request's retuner thread is
          script,    \* where its script on the Pi is
          lines,     \* what the script has read
          env,       \* the environment file: its channel, whether the rest is there
          stream,    \* channel of the stream service
          last,      \* the request whose retuning began last
          timeouts

vars == <<lock, request, thread, script, lines, env, stream, last, timeouts>>

Empty == [channel |-> NoChannel, rest |-> FALSE]

Init ==
    /\ lock = NoOne
    /\ request \in [Requests -> [channel : Channels, answer : {"none"}]]
    /\ thread = [r \in Requests |-> "none"]
    /\ script = [r \in Requests |-> "none"]
    /\ lines = [r \in Requests |-> Empty]
    /\ env = [channel |-> First, rest |-> TRUE]
    /\ stream = First
    /\ last = NoOne /\ timeouts = 0

Answer(r, status) == request' = [request EXCEPT ![r].answer = status]

-----------------------------------------------------------------------------
\* retune_channel: the test and the acquisition are one step of the event loop.
Refuse(r) ==
    /\ request[r].answer = "none" /\ thread[r] = "none"
    /\ lock # NoOne
    /\ Answer(r, "conflict")
    /\ UNCHANGED <<lock, thread, script, lines, env, stream, last, timeouts>>

\* Mutant: a request does not look whether another one holds the lock.
BeginAnyway(r) ==
    /\ request[r].answer = "none" /\ thread[r] = "none"
    /\ lock' = r /\ last' = r
    /\ thread' = [thread EXCEPT ![r] = "ssh"]
    /\ UNCHANGED <<request, script, lines, env, stream, timeouts>>

Begin(r) ==
    /\ request[r].answer = "none" /\ thread[r] = "none"
    /\ lock = NoOne
    /\ lock' = r /\ last' = r
    /\ thread' = [thread EXCEPT ![r] = "ssh"]
    /\ UNCHANGED <<request, script, lines, env, stream, timeouts>>

\* _run_retuner polls until the thread is done.
Status == [returned |-> "ok", raised |-> "bad gateway", expired |-> "timeout"]

\* Mutant: an exception of the thread leaves the request waiting.
NoticeResult(r) ==
    /\ lock = r /\ thread[r] = "returned"
    /\ Answer(r, "ok")
    /\ lock' = NoOne
    /\ UNCHANGED <<thread, script, lines, env, stream, last, timeouts>>

Notice(r) ==
    /\ lock = r /\ thread[r] \in DOMAIN Status
    /\ Answer(r, Status[thread[r]])
    /\ lock' = NoOne
    /\ UNCHANGED <<thread, script, lines, env, stream, last, timeouts>>

-----------------------------------------------------------------------------
\* retune_pi, in the thread.
Thread(r, from, to) ==
    /\ thread[r] = from
    /\ thread' = [thread EXCEPT ![r] = to]
    /\ UNCHANGED <<lock, request, lines, env, stream, last>>

Connect(r) ==
    /\ thread[r] = "ssh" /\ script[r] = "none"
    /\ script' = [script EXCEPT ![r] = "begun"]
    /\ UNCHANGED <<lock, request, thread, lines, env, stream, last, timeouts>>

ConnectFails(r) ==
    /\ script[r] = "none" /\ Thread(r, "ssh", "raised")
    /\ UNCHANGED <<script, timeouts>>

SshReturns(r) ==
    /\ \/ script[r] = "done" /\ Thread(r, "ssh", IF RestartsTranscriber THEN "transcriber"
                                                ELSE "returned")
       \/ script[r] = "failed" /\ Thread(r, "ssh", "raised")
    /\ UNCHANGED <<script, timeouts>>

\* subprocess.run's timeout kills ssh, not what runs on the Pi.
SshExpires(r) ==
    /\ timeouts < MaxTimeouts /\ timeouts' = timeouts + 1
    /\ Thread(r, "ssh", "expired")
    /\ UNCHANGED script

RestartTranscriber(r) ==
    /\ \E outcome \in {"returned", "raised", "expired"} : Thread(r, "transcriber", outcome)
    /\ UNCHANGED <<script, timeouts>>

-----------------------------------------------------------------------------
\* The script of _build_pi_retune_script.
Script(r, from, to) ==
    /\ script[r] = from
    /\ script' = [script EXCEPT ![r] = to]
    /\ UNCHANGED <<lock, request, thread, last, timeouts>>

ReadEnv(r) ==
    /\ Script(r, "begun", "read")
    /\ lines' = [lines EXCEPT ![r] = env]
    /\ UNCHANGED <<env, stream>>

\* Path.write_text truncates the file and then writes it.
Truncate(r) ==
    /\ Script(r, "read", "truncated")
    /\ env' = Empty
    /\ UNCHANGED <<lines, stream>>

Write(r) ==
    /\ Script(r, "truncated", "written")
    /\ env' = [lines[r] EXCEPT !.channel = request[r].channel]
    /\ UNCHANGED <<lines, stream>>

\* systemctl restart: the unit reads the file when it starts.
Restart(r) ==
    \/ /\ Script(r, "written", "done")
       /\ stream' = env.channel
       /\ UNCHANGED <<lines, env>>
    \/ /\ Script(r, "written", "failed")
       /\ UNCHANGED <<lines, env, stream>>

-----------------------------------------------------------------------------
\* ssh connects or fails, the script ends, and the event loop polls.
Progress(r) ==
    \/ Notice(r) \/ Connect(r) \/ SshReturns(r) \/ RestartTranscriber(r)
    \/ ReadEnv(r) \/ Truncate(r) \/ Write(r) \/ Restart(r)

-----------------------------------------------------------------------------
Quiet == \A r \in Requests : script[r] \in {"none", "done", "failed"}

\* Once no script is at work and none has failed, the stream plays the channel
\* the environment file names, whichever scripts overlapped because ssh was
\* given up (_build_pi_retune_script).
StreamMatchesSettings ==
    Quiet /\ (\A r \in Requests : script[r] # "failed") => stream = env.channel

\* While no retune was given up, the lock keeps the scripts apart: the other
\* settings of the file survive, and once a request was answered with success
\* the receiver plays its channel until the next retune begins.
RetunesDoNotMix ==
    timeouts = 0 =>
        /\ Quiet => env.rest
        /\ \A r \in Requests :
              lock = NoOne /\ last = r /\ request[r].answer = "ok" =>
                  stream = request[r].channel

\* Whatever happens to ssh, the lock is given back: no retune blocks the later
\* ones for good.
LockIsReleased == \A r \in Requests : lock = r ~> lock = NoOne
=============================================================================
