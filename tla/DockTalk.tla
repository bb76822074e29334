------------------------------- MODULE DockTalk -------------------------------
(***************************************************************************)
(* docktalk.py: the node that forwards the live channels to DockTalk.  The *)
(* installer provisions it: the enrolment code is claimed once, for an     *)
(* identity that is kept in /etc/docktalk with the channel plan.  The      *)
(* service docktalk-push runs one relay for each channel the plan covers,  *)
(* asks for the plan again and again, and stops for systemd to start it    *)
(* with another one; a watchdog restarts it when DockTalk hears nothing.   *)
(***************************************************************************)
EXTENDS FiniteSets, Naturals

CONSTANTS Channels,    \* the approved channels
          Plans,       \* plans of the server: sets of <<channel, mount>>
          MaxChanges,  \* bound: new plans at the server, installations anew
          MaxFaults    \* bound: crashes, lost answers, broken connections

VARIABLES served,    \* the server's plan for the node
          spent,     \* whether the server has given the code's identity away
          response,  \* whether claim-response.txt is there
          identity,  \* whether node.json is there
          plan,      \* /etc/docktalk/plan.txt, or NoPlan
          sealed,    \* whether only root can read streams.json, and plan.txt
          enabled,   \* whether the service is installed
          runtime,   \* /run/docktalk/plan.txt, or NoPlan
          installer, \* where the installer is
          using,     \* the mappings of the running service, {} when it is down
          fetched,   \* an answer the service has not used yet, or NoPlan
          link,      \* each relay: "closed", "local", "open", "deaf"
          lost,      \* whether the answer to the claim was lost
          changes, faults

disk == <<response, identity, plan, sealed, enabled>>
service == <<runtime, using, fetched, link>>
vars == <<served, spent, disk, installer, service, lost, changes, faults>>

\* A plan without a row is refused, so that {} can stand for no file.
NoPlan == {}
AllClosed == [c \in Channels |-> "closed"]

Init ==
    /\ served \in Plans /\ spent = FALSE
    /\ response = FALSE /\ identity = FALSE /\ plan = NoPlan
    /\ sealed = FALSE /\ enabled = FALSE
    /\ installer = "idle"
    /\ runtime = NoPlan /\ using = {} /\ fetched = NoPlan /\ link = AllClosed
    /\ lost = FALSE /\ changes = 0 /\ faults = 0

-----------------------------------------------------------------------------
\* parse_plan: some rows, and no mount twice.
Parses(p) == p # {} /\ \A r, s \in p : r[2] = s[2] => r = s

\* match_streams: the rows of approved channels, none of them ambiguous.
Match(p) == {r \in p : r[1] \in Channels}
Usable(p) ==
    /\ Parses(p) /\ Match(p) # {}
    /\ \A r, s \in Match(p) : r[1] = s[1] => r = s

\* The service reads streams.json with every plan it takes.
Loads(p) == ~sealed /\ Usable(p)

\* run, main: the runtime plan comes before the installed one.
Loaded == IF runtime # NoPlan THEN runtime ELSE plan

Fault == faults < MaxFaults /\ faults' = faults + 1

-----------------------------------------------------------------------------
\* preflight; install_docktalk_alongside.sh, which maps the streams and provisions.
\* What it writes is for root only, until it has written everything.
Installs(place, then) ==
    /\ installer = place /\ installer' = then
    /\ UNCHANGED <<served, faults>>

\* An installation that was cut short is to be repeated.
Unfinished == ~enabled \/ sealed

Begin ==
    /\ Usable(served)
    /\ Installs("idle", IF identity THEN "plan" ELSE IF response THEN "identity" ELSE "claim")
    /\ \/ Unfinished /\ UNCHANGED changes
       \/ ~Unfinished /\ changes < MaxChanges /\ changes' = changes + 1
    /\ sealed' = TRUE
    /\ UNCHANGED <<spent, response, identity, plan, enabled, service, lost>>

\* POST /v1/nodes/claim: a code that is spent is refused.
Claim ==
    /\ Installs("claim", IF spent THEN "idle" ELSE "save")
    /\ spent' = TRUE
    /\ UNCHANGED <<disk, service, lost, changes>>

\* Mutant: the answer is only kept in memory.
RememberResponse ==
    /\ Installs("save", "identity")
    /\ UNCHANGED <<spent, disk, service, lost, changes>>

SaveResponse ==
    /\ Installs("save", "identity")
    /\ response' = TRUE
    /\ UNCHANGED <<spent, identity, plan, sealed, enabled, service, lost, changes>>

SaveIdentity ==
    /\ Installs("identity", "plan")
    /\ identity' = TRUE
    /\ UNCHANGED <<spent, response, plan, sealed, enabled, service, lost, changes>>

\* GET /v1/nodes/conf; the plan is only written when it can be used.
SavePlan ==
    /\ Installs("plan", IF Usable(served) THEN "own" ELSE "idle")
    /\ plan' = IF Usable(served) THEN served ELSE plan
    /\ UNCHANGED <<spent, response, identity, sealed, enabled, service, lost, changes>>

\* chown, chmod: the service may read the files.
OpenFiles ==
    /\ Installs("own", "start")
    /\ sealed' = FALSE
    /\ UNCHANGED <<spent, response, identity, plan, enabled, service, lost, changes>>

\* systemctl enable, restart
StartService ==
    /\ Installs("start", "idle")
    /\ enabled' = TRUE
    /\ using' = {} /\ fetched' = NoPlan /\ link' = AllClosed
    /\ UNCHANGED <<spent, response, identity, plan, sealed, runtime, lost, changes>>

InstallerStep ==
    Claim \/ SaveResponse \/ SaveIdentity \/ SavePlan \/ OpenFiles \/ StartService

\* The installer is stopped, or a request of it fails.
InstallerStops ==
    /\ installer # "idle" /\ installer' = "idle" /\ Fault
    /\ lost' = (lost \/ installer = "save")
    /\ UNCHANGED <<served, spent, disk, service, changes>>

-----------------------------------------------------------------------------
\* docktalk-push
Serves == UNCHANGED <<served, spent, disk, installer, lost, changes>>

\* main, run: systemd starts it after five seconds, for ever.
Start ==
    /\ enabled /\ identity /\ using = {} /\ Loads(Loaded)
    /\ using' = Match(Loaded)
    /\ Serves /\ UNCHANGED <<runtime, fetched, link, faults>>

\* Every ten minutes the plan is asked for,
Fetch ==
    /\ using # {} /\ fetched = NoPlan
    /\ fetched' = served
    /\ Serves /\ UNCHANGED <<runtime, using, link, faults>>

\* Mutant: the new plan is noted, and the relays go on.
NotePlan ==
    /\ fetched # NoPlan /\ fetched' = NoPlan
    /\ runtime' = IF Loads(fetched) THEN fetched ELSE runtime
    /\ Serves /\ UNCHANGED <<using, link, faults>>

\* checked, saved, and the service stops when the mappings are others.
Refresh ==
    /\ fetched # NoPlan /\ fetched' = NoPlan
    /\ runtime' = IF Loads(fetched) THEN fetched ELSE runtime
    /\ IF Loads(fetched) /\ Match(fetched) # using
       THEN using' = {} /\ link' = AllClosed
       ELSE UNCHANGED <<using, link>>
    /\ Serves /\ UNCHANGED faults

\* The service dies, or the Pi restarts and /run is empty.
Stops(left) ==
    /\ using' = {} /\ fetched' = NoPlan /\ link' = AllClosed
    /\ runtime' = left
    /\ Serves

Dies == using # {} /\ Stops(runtime) /\ Fault
Reboot == installer = "idle" /\ Stops(NoPlan) /\ Fault

\* watchdog: what is not deaf connects within the three minutes it waits.
Watchdog ==
    /\ using # {} /\ \A r \in using : link[r[1]] = "deaf"
    /\ Stops(runtime) /\ UNCHANGED faults

-----------------------------------------------------------------------------
\* relay: one thread for each mapping
Relays(c, from, to) ==
    /\ \E r \in using : r[1] = c
    /\ link[c] = from /\ link' = [link EXCEPT ![c] = to]
    /\ Serves /\ UNCHANGED <<runtime, using, fetched>>

OpenLocal(c) == Relays(c, "closed", "local") /\ UNCHANGED faults
OpenRemote(c) == Relays(c, "local", "open") /\ UNCHANGED faults

\* Either connection fails; the thread closes both and tries again.
Break(c) == (\E from \in {"local", "open"} : Relays(c, from, "closed")) /\ Fault

\* What is sent no longer arrives; send times out in the end.
GoesDeaf(c) == Relays(c, "open", "deaf") /\ Fault
TimesOut(c) == Relays(c, "deaf", "closed") /\ UNCHANGED faults

RelayStep(c) == OpenLocal(c) \/ OpenRemote(c) \/ TimesOut(c)

NewPlan ==
    /\ changes < MaxChanges /\ changes' = changes + 1
    /\ served' \in Plans \ {served}
    /\ UNCHANGED <<spent, disk, installer, service, lost, faults>>

Next ==
    \/ Begin \/ InstallerStep \/ InstallerStops
    \/ Start \/ Fetch \/ Refresh \/ Dies \/ Reboot \/ Watchdog
    \/ \E c \in Channels : RelayStep(c) \/ Break(c) \/ GoesDeaf(c)
    \/ NewPlan

Spec == Init /\ [][Next]_vars

\* The operator repeats an installation that failed; the threads are scheduled.
Progress == (Begin /\ Unfinished) \/ InstallerStep \/ Start

FairSpec ==
    /\ Spec /\ WF_vars(Progress) /\ WF_vars(Fetch) /\ WF_vars(Refresh)
    /\ \A c \in Channels : WF_vars(RelayStep(c))

-----------------------------------------------------------------------------
\* The code is only wasted when the answer itself was lost, never by what happens
\* to the installer afterwards; and whatever the server has answered, the next
\* start of the service finds a plan it can use (docktalk.py 174-201, 314-369).
NodeIsRight ==
    /\ spent /\ installer # "save" => response \/ identity \/ lost
    /\ enabled => identity /\ Usable(Loaded)

\* In the end DockTalk hears exactly the channels of its plan, if that can be used.
HearsThePlan ==
    Usable(served) /\ ~lost => {r \in using : link[r[1]] = "open"} = Match(served)
=============================================================================
