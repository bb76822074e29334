--------------------------------- MODULE MCAsr ---------------------------------
(***************************************************************************)
(* The operator's feedback on the recognition of speech, on small          *)
(* instances: two clips, two handlers for edits and two for searches; or   *)
(* two experiments that two threads of the API start, cancel and list.     *)
(***************************************************************************)
EXTENDS CorrectionSearch, AsrExperiments, TLC

VARIABLE part       \* which of the two this behaviour is of

AsrInit == SearchInit /\ RunsInit /\ part \in {"labels", "experiments"}

OnlyLabels == part = "labels" /\ UNCHANGED <<part, runVars>>
OnlyExperiments == part = "experiments" /\ UNCHANGED <<part, vars, search>>

AsrNext ==
    \/ OnlyLabels /\ Work /\ UNCHANGED search
    \/ OnlyLabels /\ \E s \in Searchers : SearchStep(s)
    \/ OnlyLabels /\ RestartSearch
    \/ OnlyExperiments /\ \E a \in Callers : List(a)
    \/ OnlyExperiments /\ \E a \in Callers : Serve(a)
    \/ OnlyExperiments /\ \E a \in Callers, r \in Runs : RequestStart(a, r)
    \/ OnlyExperiments /\ \E a \in Callers, r \in Runs : RequestCancel(a, r)
    \/ OnlyExperiments /\ \E p \in Callers \cup Runs : AtomicJson(p)
    \/ OnlyExperiments /\ \E r \in Runs : Execute(r)
    \/ OnlyExperiments /\ \E r \in Runs : Fault(r)
    \/ OnlyExperiments /\ \E r \in Runs : Interrupt(r)
    \/ OnlyExperiments /\ RestartApi

AsrSpec == AsrInit /\ [][AsrNext]_<<part, vars, search, runVars>>

\* Clips and runs are named alike, and so are editors and callers: fewer permutations.
Symmetry == Permutations(Clips) \cup Permutations(Editors)
              \cup Permutations(Requests) \cup Permutations(Searchers)
              \cup Permutations(Runs) \cup Permutations(Callers)
=============================================================================
