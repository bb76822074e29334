---------------------------- MODULE NetworkRecovery ----------------------------
(***************************************************************************)
(* deploy/pi/network_recovery.py: when the Pi reconnects its Wi-Fi.  A     *)
(* timer runs the program again and again; each run probes the gateway and *)
(* the API, decides with what state.json says of the runs before, saves    *)
(* the new state, and only then reconnects.  Time counts in the shortest   *)
(* backoff, 300 s; two clocks are told apart: the wall clock the program   *)
(* reads, which may be set back, and the time that really passes.          *)
(***************************************************************************)
EXTENDS Integers, Sequences, FiniteSets, FiniteSetsExt

CONSTANTS Window,       \* 3600 s
          Budget,       \* attempts in a window, 3 in the code
          Patience,     \* failed checks before the first attempt, 3 in the code
          Pause,        \* backoff after n attempts in a window, 300 s * 2 ** (n - 1)
          RunsPerUnit,  \* bound: runs between two ticks
          MaxSetback, MaxTime   \* bounds of the clocks

VARIABLES now,       \* the wall clock
          real,      \* the time that has passed
          state,     \* state.json: [failures, attempts]; a set, no two attempts meet
          pc,        \* "idle", or "reconnect" when the state is saved
          made,      \* [at, noted]: when nmcli really ran, and what state.json says
          runs,      \* runs since the last tick
          outage     \* since when every run has found both probes failing; none if not

vars == <<now, real, state, pc, made, runs, outage>>

NoOutage == -1

Init ==
    /\ now = MaxSetback /\ real = 0
    /\ state = [failures |-> 0, attempts |-> {}]
    /\ pc = "idle" /\ made = <<>> /\ runs = 0 /\ outage = NoOutage

-----------------------------------------------------------------------------
\* Mutant: the attempts of the last hour are not remembered.
KeptNone(attempts) == {t \in attempts : now - t < 1}

\* decide
Kept(attempts) == {t \in attempts : now - t < Window}

Failures(answers) == IF answers THEN 0 ELSE Min({state.failures + 1, Patience})

Backoff(attempts) == \E t \in attempts : now - t < Pause[Cardinality(attempts)]

Reconnects(answers) ==
    LET attempts == Kept(state.attempts) IN
    /\ ~answers
    /\ \A t \in attempts : t <= now
    /\ Failures(answers) >= Patience
    /\ Cardinality(attempts) < Budget
    /\ ~Backoff(attempts)

\* A run up to the saved state.  answers: the gateway or the API answers.  A run
\* that finds the lock taken changes nothing.
Run(answers) ==
    /\ pc = "idle" /\ runs < RunsPerUnit
    /\ state' = [failures |-> Failures(answers),
                 attempts |-> Kept(state.attempts) \cup
                                 (IF Reconnects(answers) THEN {now} ELSE {})]
    /\ pc' = IF Reconnects(answers) THEN "reconnect" ELSE "idle"
    /\ runs' = runs + 1
    /\ outage' = IF answers THEN NoOutage ELSE IF outage = NoOutage THEN real ELSE outage
    /\ UNCHANGED <<now, real, made>>

\* nmcli, whatever comes of it
Reconnect ==
    /\ pc = "reconnect" /\ pc' = "idle"
    /\ made' = Append(made, [at |-> real, noted |-> Max(state.attempts)])
    /\ UNCHANGED <<now, real, state, runs, outage>>

\* The program or the Pi stops before nmcli runs.
Crash ==
    /\ pc = "reconnect" /\ pc' = "idle"
    /\ outage' = NoOutage
    /\ UNCHANGED <<now, real, state, made, runs>>

-----------------------------------------------------------------------------
\* The timer makes at least one run in a unit, and a run lasts 40 s at most.
Tick ==
    /\ real < MaxTime /\ runs > 0 /\ pc = "idle"
    /\ now' = now + 1 /\ real' = real + 1 /\ runs' = 0
    /\ UNCHANGED <<state, pc, made, outage>>

SetBack ==
    /\ now = MaxSetback + real
    /\ \E d \in 1 .. MaxSetback : now' = now - d
    /\ UNCHANGED <<real, state, pc, made, runs, outage>>

Next ==
    \/ \E answers \in BOOLEAN : Run(answers)
    \/ Reconnect \/ Crash \/ Tick \/ SetBack

Spec == Init /\ [][Next]_vars

-----------------------------------------------------------------------------
\* However often the program is stopped and the clock set back: in any hour that
\* really passes there are no more attempts than the budget, and the attempts of
\* an hour move apart (network_recovery.py 20-45, 86-93).
AttemptsAreBounded ==
    \A n \in DOMAIN made :
        LET before == {m \in 1 .. n - 1 : made[n].at - made[m].at < Window} IN
        /\ Cardinality(before) < Budget
        /\ before # {} => made[n].at - made[n - 1].at >= Pause[Cardinality(before)]

\* An outage is not given up: as long as the clock is right, there has been an
\* attempt within the last hour of one that lasts longer.
OutageIsTended ==
    now = MaxSetback + real /\ outage # NoOutage /\ real - outage > Window + Patience =>
        pc = "reconnect" \/ \E n \in DOMAIN made : real - made[n].at <= Window
=============================================================================
