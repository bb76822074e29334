------------------------------ MODULE BudgetScope ------------------------------
(***************************************************************************)
(* scripts/scope_monthly_cost_budget.py: the monthly budget is limited to  *)
(* what the project spends, and the DNS zone and the bucket of the shared  *)
(* state get the tags that count as such.  Each step is a request of its   *)
(* own; others use the console meanwhile, requests fail, and the release   *)
(* may be stopped anywhere and run again.                                  *)
(***************************************************************************)
EXTENDS Naturals

CONSTANTS Project,      \* the keys of TAGS
          Other,        \* keys that are not the project's
          Limit, Notifications,          \* of the budget, the described one first
          MaxRuns, MaxEdits, MaxFaults   \* bounds: releases, edits by others, failures

\* A tag is the project's, somebody else's or not there.  The budget is
\* [scope, limit, notifications].
VARIABLES dns, bucket,   \* the tags of the zone and of the bucket
          budget,
          run,           \* the release: [pc, apply, dns, bucket, notifications, plan]
          outcome,       \* how the last one has ended
          fresh,         \* ghost: the tags others have changed since the run began
          lost,          \* ghost: the tags of others the run has overwritten
          quiet,         \* ghost: no failure and no edit has met the run
          runs, edits, faults

vars == <<dns, bucket, budget, run, outcome, fresh, lost, quiet, runs, edits, faults>>

Keys == Project \cup Other
None == [none |-> TRUE]
Idle == [pc |-> "idle", apply |-> FALSE, dns |-> None, bucket |-> None,
         notifications |-> None, plan |-> "none"]

\* The budget as infra/opentofu describes it.
Described == [scope |-> "project", limit |-> Limit, notifications |-> Notifications]

Init ==
    /\ dns \in [Keys -> {"none", "project", "other"}]
    /\ bucket \in [Keys -> {"none", "project", "other"}]
    /\ \A key \in Other : dns[key] # "project" /\ bucket[key] # "project"
    /\ \E scope \in {"none", "project", "other"} :
          budget = [Described EXCEPT !.scope = scope]
    /\ run = Idle /\ outcome = "none"
    /\ fresh = {} /\ lost = {} /\ quiet = TRUE
    /\ runs = 0 /\ edits = 0 /\ faults = 0

-----------------------------------------------------------------------------
\* project_tags
Conflicts(tags) == \E key \in Project : tags[key] = "other"
Tagged(tags) == [key \in Keys |-> IF key \in Project THEN "project" ELSE tags[key]]

\* validate_plan
Valid(before) ==
    /\ before.scope # "other"
    /\ [before EXCEPT !.scope = "project"] = Described

At(pc) == run.pc = pc
GoTo(pc) == run' = [run EXCEPT !.pc = pc] /\ UNCHANGED outcome
Ends(how) == run' = Idle /\ outcome' = how

Begin(apply) ==
    /\ At("idle") /\ runs < MaxRuns /\ runs' = runs + 1
    /\ run' = [Idle EXCEPT !.pc = "read dns", !.apply = apply]
    /\ outcome' = "none" /\ quiet' = TRUE /\ fresh' = {} /\ lost' = {}
    /\ UNCHANGED <<dns, bucket, budget, edits, faults>>

ReadDns ==
    /\ At("read dns")
    /\ IF Conflicts(dns) THEN Ends("conflict")
       ELSE /\ run' = [run EXCEPT !.pc = "read bucket", !.dns = dns]
            /\ UNCHANGED outcome

ReadBucket ==
    /\ At("read bucket")
    /\ IF Conflicts(bucket) THEN Ends("conflict")
       ELSE /\ run' = [run EXCEPT !.pc = "read budget", !.bucket = bucket]
            /\ UNCHANGED outcome

ReadNotifications ==
    /\ At("read budget")
    /\ run' = [run EXCEPT !.pc = "plan", !.notifications = budget.notifications]
    /\ UNCHANGED outcome

\* tofu plan, validate_plan; without --apply that is all.
Plan ==
    /\ At("plan")
    /\ IF ~Valid(budget) THEN Ends("refused")
       ELSE IF ~run.apply THEN Ends("planned")
       ELSE /\ run' = [run EXCEPT !.pc = "tag dns",
                           !.plan = IF budget = Described THEN "no-op" ELSE "update"]
            /\ UNCHANGED outcome

\* The zone's tags are added to the ones it has.
TagDns ==
    /\ At("tag dns") /\ GoTo("tag bucket")
    /\ dns' = IF Tagged(run.dns) # run.dns THEN Tagged(dns) ELSE dns

\* The bucket's tags are replaced, by what was read and the project's.
TagsToPut == Tagged(run.bucket)

TagBucket ==
    /\ At("tag bucket") /\ GoTo("apply")
    /\ bucket' = IF TagsToPut # run.bucket THEN TagsToPut ELSE bucket

\* tofu apply writes the whole budget, but for the notifications.
Apply ==
    /\ At("apply") /\ GoTo("verify budget")
    /\ budget' = IF run.plan = "no-op" THEN budget
                 ELSE [Described EXCEPT !.notifications = budget.notifications]

VerifyBudget ==
    /\ At("verify budget")
    /\ IF budget.scope = "project" THEN GoTo("verify notifications") ELSE Ends("failed")

VerifyNotifications ==
    /\ At("verify notifications")
    /\ IF budget.notifications = run.notifications THEN GoTo("verify dns")
       ELSE Ends("failed")

\* Both are read before either is judged.
VerifyDns ==
    /\ At("verify dns")
    /\ IF dns = Tagged(run.dns) THEN GoTo("verify bucket") ELSE Ends("failed")

VerifyBucket ==
    /\ At("verify bucket")
    /\ Ends(IF bucket = Tagged(run.bucket) THEN "verified" ELSE "failed")

\* What others have set and a step of the release overwrites.
Overwritten ==
    {<<"dns", key>> : key \in {k \in Keys : dns[k] = "other" /\ dns'[k] # "other"}} \cup
    {<<"bucket", key>> : key \in {k \in Keys : bucket[k] = "other" /\ bucket'[k] # "other"}}

Step ==
    /\ \/ /\ ReadDns \/ ReadBucket \/ ReadNotifications \/ Plan
             \/ VerifyBudget \/ VerifyNotifications \/ VerifyDns \/ VerifyBucket
          /\ UNCHANGED <<dns, bucket, budget>>
       \/ TagDns /\ UNCHANGED <<bucket, budget>>
       \/ TagBucket /\ UNCHANGED <<dns, budget>>
       \/ Apply /\ UNCHANGED <<dns, bucket>>
    /\ lost' = lost \cup Overwritten
    /\ UNCHANGED <<fresh, quiet, runs, edits, faults>>

\* A request or a command fails, after it has done its work or not, or the release
\* is stopped.
Fails ==
    /\ ~At("idle") /\ faults < MaxFaults /\ faults' = faults + 1
    /\ Ends("failed") /\ quiet' = FALSE
    /\ UNCHANGED <<dns, bucket, budget, fresh, lost, runs, edits>>

-----------------------------------------------------------------------------
\* Others use the console.
Edits == ~At("idle") /\ edits < MaxEdits /\ edits' = edits + 1 /\ quiet' = FALSE

EditTag(key) ==
    /\ Edits
    /\ \/ /\ dns[key] # "other" /\ dns' = [dns EXCEPT ![key] = "other"]
          /\ fresh' = fresh \cup {<<"dns", key>>} /\ UNCHANGED bucket
       \/ /\ bucket[key] # "other" /\ bucket' = [bucket EXCEPT ![key] = "other"]
          /\ fresh' = fresh \cup {<<"bucket", key>>} /\ UNCHANGED dns
    /\ UNCHANGED <<budget, run, outcome, lost, runs, faults>>

EditBudget ==
    /\ Edits
    /\ \/ budget' = [budget EXCEPT !.limit = @ + 1]
       \/ budget' = [budget EXCEPT !.notifications = @ + 1]
    /\ UNCHANGED <<dns, bucket, run, outcome, fresh, lost, runs, faults>>

Next ==
    \/ \E apply \in BOOLEAN : Begin(apply)
    \/ Step \/ Fails
    \/ \E key \in Keys : EditTag(key)
    \/ EditBudget

Spec == Init /\ [][Next]_vars

-----------------------------------------------------------------------------
\* The tags others had set when the release began survive it: it overwrites only what
\* is set under its hands, and in the zone only its own keys.  A release that meets
\* no failure and nobody else ends verified, with everything as described, however
\* many were cut short before, unless what it finds belongs to others; and then it
\* has changed nothing of the budget (scope_monthly_cost_budget.py 28-69, 87-218).
BudgetIsScoped ==
    /\ lost \subseteq fresh
    /\ \A key \in Other : <<"dns", key>> \notin lost
    /\ At("idle") /\ quiet =>
          /\ outcome # "failed"
          /\ outcome = "verified" =>
                budget = Described /\ dns = Tagged(dns) /\ bucket = Tagged(bucket)
          /\ outcome = "conflict" => Conflicts(dns) \/ Conflicts(bucket)
          /\ outcome = "refused" => ~Valid(budget)
=============================================================================
