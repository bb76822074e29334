-------------------------------- MODULE LiveCdn --------------------------------
(***************************************************************************)
(* scripts/deploy_live_cdn.py: a release adds the public live routes to    *)
(* the CloudFront distribution through the shared OpenTofu state, notes    *)
(* which routes it introduces, and can take them back.  An application     *)
(* that fails is rolled back at once; either may be stopped anywhere and   *)
(* run again, also while another release is applied.                       *)
(***************************************************************************)
EXTENDS Naturals

CONSTANTS Releases,
          Configs,     \* of each release: what its main.tf describes
          Live,        \* PATHS, the live routes
          First,       \* the distribution at first
          MaxStops     \* bound: operations that are stopped

\* A distribution is [rules, before, rest]: the rule of each path that has a route, the
\* pairs of paths of which the first takes precedence, and everything else of it.
VARIABLES cdn,      \* the distribution
          record,   \* introduced-paths.json of each release, or None
          op,       \* what each release does: "none", "apply", "rollback", "retreat"
          plan,     \* its plan: the distribution before and after, or None
          last,     \* the operation that was completed last
          stops,
          found,    \* history: the routes there when each release noted what it brings,
          own,      \* those there now that it has put there itself,
          crossed   \* the releases that others have changed the routes behind since

vars == <<cdn, record, op, plan, last, stops, found, own, crossed>>
history == <<found, own, crossed>>

None == [none |-> TRUE]

Init ==
    /\ cdn = First
    /\ record = [r \in Releases |-> None] /\ op = [r \in Releases |-> "none"]
    /\ plan = [r \in Releases |-> None] /\ last = None /\ stops = 0
    /\ found = [r \in Releases |-> None]
    /\ own = [r \in Releases |-> {}] /\ crossed = {}

-----------------------------------------------------------------------------
Paths(d) == DOMAIN d.rules

\* What a distribution says of some of its paths, with the rest of it
Restricted(d, paths) ==
    [rules |-> [p \in paths |-> d.rules[p]], before |-> d.before \cap (paths \X paths),
     rest |-> d.rest]

\* rollback_source: main.tf without the routes that were introduced
Without(r) == Restricted(Configs[r], Paths(Configs[r]) \ record[r].paths)

Target(r) == IF op[r] = "apply" THEN Configs[r] ELSE Without(r)

\* validate_plan: rules and precedence of the routes that are in both, and the rest
SameOtherwise(before, after) ==
    LET both == Paths(before) \cap Paths(after) IN
    Restricted(before, both) = Restricted(after, both)

\* The rule of a route that is added is the reviewed one.
Valid(r, before, after) ==
    /\ SameOtherwise(before, after)
    /\ IF op[r] = "apply"
       THEN /\ Paths(before) \subseteq Paths(after)
            /\ Paths(after) \ Paths(before) \subseteq Live
            /\ \A p \in Paths(after) \ Paths(before) : after.rules[p] = "reviewed"
       ELSE /\ Paths(after) \subseteq Paths(before)
            /\ Paths(before) \ Paths(after) \subseteq record[r].paths

-----------------------------------------------------------------------------
\* main, execute
Goes(r, what) == op' = [op EXCEPT ![r] = what]
Forgets(r) == plan' = [plan EXCEPT ![r] = None]

Apply(r) ==
    /\ op[r] = "none" /\ Goes(r, "apply")
    /\ UNCHANGED <<cdn, record, plan, last, stops, history>>

Rollback(r) ==
    /\ op[r] = "none" /\ record[r] # None /\ record[r].paths # {}
    /\ Goes(r, "rollback")
    /\ UNCHANGED <<cdn, record, plan, last, stops, history>>

\* An application that fails is rolled back, when it has introduced anything.
\* A rollback that fails is left to the operator.
Fails(r) ==
    /\ Goes(r, IF op[r] = "apply" /\ record[r] # None /\ record[r].paths # {}
               THEN "retreat" ELSE "none")
    /\ Forgets(r)

\* Mutant: every application notes what it introduces.
NoteAgain(r) ==
    IF op[r] = "apply"
    THEN /\ record' = [record EXCEPT ![r] =
                          [paths |-> Paths(Target(r)) \ Paths(cdn)]]
         /\ found' = IF found[r] = None
                     THEN [found EXCEPT ![r] = [paths |-> Paths(cdn)]] ELSE found
    ELSE UNCHANGED <<record, found>>

\* tofu plan and validate_plan; an application notes what it introduces, once.
Note(r) ==
    IF op[r] = "apply" /\ record[r] = None
    THEN /\ record' = [record EXCEPT ![r] =
                          [paths |-> Paths(Target(r)) \ Paths(cdn)]]
         /\ found' = [found EXCEPT ![r] = [paths |-> Paths(cdn)]]
    ELSE UNCHANGED <<record, found>>

Plan(r) ==
    /\ op[r] # "none" /\ plan[r] = None
    /\ IF Valid(r, cdn, Target(r))
       THEN /\ plan' = [plan EXCEPT ![r] = [before |-> cdn, after |-> Target(r)]]
            /\ Note(r) /\ UNCHANGED op
       ELSE Fails(r) /\ UNCHANGED <<record, found>>
    /\ UNCHANGED <<cdn, last, stops, own, crossed>>

\* The distribution becomes the planned one.
Changes(r) ==
    /\ cdn' = plan[r].after
    /\ own' = [s \in Releases |-> (own[s] \cap Paths(cdn')) \cup
                                 {p \in Paths(cdn') \ Paths(cdn) : s = r}]
    /\ crossed' = crossed \cup {s \in Releases \ {r} : record[s] # None /\ cdn' # cdn}

\* A plan is refused when the state is another by now.
UpToDate(r) == plan[r] # None /\ cdn = plan[r].before

\* tofu apply
Execute(r) ==
    /\ plan[r] # None
    /\ IF UpToDate(r)
       THEN /\ Changes(r)
            /\ last' = [release |-> r, op |-> op[r], from |-> Paths(cdn), own |-> own[r]]
            /\ Goes(r, "none") /\ Forgets(r)
       ELSE Fails(r) /\ UNCHANGED <<cdn, own, crossed, last>>
    /\ UNCHANGED <<record, found, stops>>

\* What is cut short has changed the distribution by then, or has not.
CutShort(r) ==
    /\ op[r] # "none" /\ stops < MaxStops /\ stops' = stops + 1
    /\ UNCHANGED <<cdn, own, crossed>> \/ (UpToDate(r) /\ Changes(r))
    /\ last' = None
    /\ UNCHANGED <<record, found>>

\* A command fails or is given up.
StepFails(r) == CutShort(r) /\ Fails(r)

\* The script itself is killed.
Killed(r) == CutShort(r) /\ Goes(r, "none") /\ Forgets(r)

Next == \E r \in Releases :
    Apply(r) \/ Rollback(r) \/ Plan(r) \/ Execute(r) \/ StepFails(r) \/ Killed(r)

Spec == Init /\ [][Next]_vars

-----------------------------------------------------------------------------
\* What the release brings, as it found the distribution when first applied.
Introduced(r) == Paths(Configs[r]) \ found[r].paths

\* Whatever is applied and taken back by whom: the routes that are not live ones,
\* their order and the rest of the distribution stay as they are, and every live route
\* is the reviewed one.  A release that is rolled back takes with it what was not
\* there when it was first noted; those are exactly the routes it has introduced itself,
\* over all its failures and repetitions, unless another release has changed the
\* distribution in between (deploy_live_cdn.py 53-122, 151-235).
RoutesAreRight ==
    /\ Restricted(cdn, Paths(cdn) \ Live) = Restricted(First, Paths(First) \ Live)
    /\ \A p \in Paths(cdn) \cap Live : cdn.rules[p] = "reviewed"
    /\ last # None =>
          IF last.op = "apply" THEN Introduced(last.release) \subseteq Paths(cdn)
          ELSE /\ Paths(cdn) = last.from \ Introduced(last.release)
               /\ last.release \notin crossed => Paths(cdn) = last.from \ last.own

\* Even then only routes that the release itself introduced are removed
\* (docs/docktalk-node.md 146-147).
RollbackRemovesItsOwn ==
    (last # None /\ last.op # "apply") => last.from \ last.own \subseteq Paths(cdn)
=============================================================================
