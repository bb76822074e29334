--------------------------- MODULE Operations_proofs ---------------------------
(***************************************************************************)
(* What the parts of MCOperations keep true, as theorems about its         *)
(* specification for every value of its constants: the releases, the jobs  *)
(* of the public site, the DockTalk node, the announcement of the API, the *)
(* network recovery, the freshness monitor, the mirror of a stream and the *)
(* retention of the raw recordings.                                        *)
(*                                                                         *)
(* A behaviour is of one part, so each part has its own invariant.  Of the *)
(* two jobs of the site: everything they do to the output directory and to *)
(* production they do under the export lock, so their invariant is told by *)
(* the place of the job that holds it.                                     *)
(***************************************************************************)
EXTENDS MCOperations, FiniteSetTheorems, SequenceTheorems, WellFoundedInduction, TLAPS

-----------------------------------------------------------------------------
(* The releases: the routes of the live CDN, the releases of the receivers' *)
(* channels, and the scope of the budget.                                  *)

\* A finite set of numbers that has a member has a greatest one.
LEMMA GreatestExists ==
    ASSUME NEW S, S \subseteq Nat, IsFiniteSet(S), S # {}
    PROVE  \E c \in S : \A d \in S : d <= c
  <1> DEFINE Above(c) == {d \in S : c < d}
             T == {Above(c) : c \in S}
  <1>1. IsWellFoundedOn(StrictSubsetOrdering(S), FiniteSubsetsOf(S))
    BY FS_StrictSubsetOrderingWellFounded
  <1>2. T \subseteq FiniteSubsetsOf(S) /\ T # {}
    <2>1. \A c \in S : Above(c) \in SUBSET S /\ IsFiniteSet(Above(c))
      BY FS_Subset
    <2> QED
      BY <2>1 DEF FiniteSubsetsOf
  <1> HIDE DEF T
  <1>3. PICK x \in T : \A y \in T : ~ (<<y, x>> \in StrictSubsetOrdering(S))
    BY <1>1, <1>2, WFMin
  <1>4. PICK c \in S : x = Above(c)
    BY <1>3 DEF T
  <1>5. \A d \in S : d <= c
    <2> SUFFICES ASSUME NEW d \in S, c < d PROVE FALSE
      OBVIOUS
    <2>1. Above(d) \in T
      BY Zenon DEF T
    <2>2. Above(d) \subseteq Above(c)
      <3>1. \A e \in S : d < e => c < e
        OBVIOUS
      <3> QED
        BY <3>1
    <2>3. d \in Above(c) /\ d \notin Above(d)
      OBVIOUS
    <2> HIDE DEF Above
    <2>4. Above(d) \subseteq S /\ Above(c) \subseteq S
      BY DEF Above
    <2>5. <<Above(d), Above(c)>> \in StrictSubsetOrdering(S)
      BY <2>2, <2>3, <2>4 DEF StrictSubsetOrdering
    <2> QED
      BY <2>1, <2>5, <1>3, <1>4
  <1> QED
    BY <1>5

-----------------------------------------------------------------------------
(* The release of the live routes.                                         *)

CdnNext == \E r \in CdnReleases :
    Cdn!Apply(r) \/ Cdn!Rollback(r) \/ Cdn!Plan(r) \/ Cdn!Execute(r)
    \/ Cdn!StepFails(r) \/ Cdn!Killed(r)

\* A distribution with the routes of the first one that are not live, and live ones
\* that are reviewed.
Fixed(d) == Cdn!Restricted(d, Cdn!Paths(d) \ CdnLive)

Good(d) ==
    /\ Fixed(d) = Fixed(CdnFirst)
    /\ \A p \in Cdn!Paths(d) \cap CdnLive : d.rules[p] = "reviewed"

CdnTypes ==
    /\ cdnOp \in [CdnReleases -> {"none", "apply", "rollback", "retreat"}]
    /\ DOMAIN cdnRecord = CdnReleases /\ DOMAIN cdnPlan = CdnReleases
    /\ DOMAIN cdnFound = CdnReleases

\* A plan is of the operation it was made for, and was valid; what the distribution
\* was before it was as it should be.
Planned(r) ==
    cdnPlan[r] # Cdn!None =>
        /\ cdnOp[r] # "none" /\ cdnRecord[r] # Cdn!None
        /\ cdnPlan[r].after = Cdn!Target(r)
        /\ Cdn!Valid(r, cdnPlan[r].before, cdnPlan[r].after)
        /\ Good(cdnPlan[r].before)

\* What is noted of a release are the live routes it has introduced.
Noted(r) ==
    /\ cdnRecord[r] # Cdn!None =>
          cdnRecord[r].paths = Cdn!Introduced(r) /\ cdnRecord[r].paths \subseteq CdnLive
    /\ cdnOp[r] \in {"rollback", "retreat"} => cdnRecord[r] # Cdn!None

LastIsRight ==
    cdnLast # Cdn!None =>
        /\ cdnLast.release \in CdnReleases /\ cdnRecord[cdnLast.release] # Cdn!None
        /\ IF cdnLast.op = "apply"
           THEN Cdn!Introduced(cdnLast.release) \subseteq Cdn!Paths(cdnCdn)
           ELSE /\ Cdn!Paths(cdnCdn) = cdnLast.from \ Cdn!Introduced(cdnLast.release)
                /\ cdnLast.release \notin cdnCrossed =>
                      Cdn!Paths(cdnCdn) = cdnLast.from \ cdnLast.own

\* As long as no other release changes the distribution, what a release has noted and
\* what is there of it are the routes that it has introduced, and what it found stays.
OwnIsNoted(r) ==
    /\ cdnRecord[r] = Cdn!None => cdnOwn[r] = {}
    /\ (cdnRecord[r] # Cdn!None /\ r \notin cdnCrossed) =>
          /\ cdnOwn[r] = cdnRecord[r].paths \cap Cdn!Paths(cdnCdn)
          /\ cdnFound[r].paths \subseteq Cdn!Paths(cdnCdn)

CdnInv ==
    /\ CdnTypes /\ Good(cdnCdn) /\ LastIsRight
    /\ \A r \in CdnReleases : Planned(r) /\ Noted(r) /\ OwnIsNoted(r)

\* What is restricted to some paths says the same of fewer of them.
LEMMA FewerPaths ==
    ASSUME NEW d, NEW e, NEW both, NEW N, N \subseteq both,
           Cdn!Restricted(d, both) = Cdn!Restricted(e, both)
    PROVE  Cdn!Restricted(d, N) = Cdn!Restricted(e, N)
<1>1. /\ [p \in both |-> d.rules[p]] = [p \in both |-> e.rules[p]]
      /\ d.before \cap (both \X both) = e.before \cap (both \X both)
      /\ d.rest = e.rest
  BY DEF Cdn!Restricted
<1>2. ASSUME NEW p \in both PROVE d.rules[p] = e.rules[p]
  <2>1. [q \in both |-> d.rules[q]][p] = [q \in both |-> e.rules[q]][p]
    BY <1>1
  <2> QED
    BY <2>1
<1>3. [p \in N |-> d.rules[p]] = [p \in N |-> e.rules[p]]
  BY <1>2
<1>4. d.before \cap (N \X N) = e.before \cap (N \X N)
  <2>1. N \X N \subseteq both \X both
    OBVIOUS
  <2>2. d.before \cap (both \X both) = e.before \cap (both \X both)
    BY <1>1
  <2> DEFINE all  == both \X both
             some == N \X N
  <2> HIDE DEF all, some
  <2>3. some \subseteq all /\ d.before \cap all = e.before \cap all
    BY <2>1, <2>2 DEF all, some
  <2>4. d.before \cap some = e.before \cap some
    BY <2>3
  <2> QED
    BY <2>4 DEF some
<1> QED
  BY <1>1, <1>3, <1>4 DEF Cdn!Restricted

\* What is restricted to the same has the same paths.
LEMMA SamePaths ==
    ASSUME NEW d, NEW e, NEW M, NEW N, Cdn!Restricted(d, M) = Cdn!Restricted(e, N)
    PROVE  M = N
<1>1. [p \in M |-> d.rules[p]] = [p \in N |-> e.rules[p]]
  BY DEF Cdn!Restricted
<1>2. DOMAIN [p \in M |-> d.rules[p]] = DOMAIN [p \in N |-> e.rules[p]]
  BY <1>1
<1> QED
  BY <1>2

\* A valid plan leaves the distribution as it should be.
LEMMA ValidIsGood ==
    ASSUME NEW r, NEW before, NEW after, Good(before), Cdn!Valid(r, before, after),
           cdnOp[r] # "apply" => cdnRecord[r].paths \subseteq CdnLive
    PROVE  Good(after)
<1> DEFINE both == Cdn!Paths(before) \cap Cdn!Paths(after)
           N    == Cdn!Paths(CdnFirst) \ CdnLive
<1>1. Cdn!Paths(before) \ CdnLive = N
  BY SamePaths DEF Good, Fixed
<1>2. /\ Cdn!Paths(before) \ Cdn!Paths(after) \subseteq CdnLive
      /\ Cdn!Paths(after) \ Cdn!Paths(before) \subseteq CdnLive
      /\ \A p \in Cdn!Paths(after) \ Cdn!Paths(before) : after.rules[p] = "reviewed"
  BY DEF Cdn!Valid
<1>3. Cdn!Paths(after) \ CdnLive = N /\ N \subseteq both
  BY <1>1, <1>2
<1>4. Cdn!Restricted(before, both) = Cdn!Restricted(after, both)
  BY DEF Cdn!Valid, Cdn!SameOtherwise
<1>5. Cdn!Restricted(before, N) = Cdn!Restricted(after, N)
  BY <1>3, <1>4, FewerPaths
<1>6. Fixed(after) = Fixed(CdnFirst)
  BY <1>1, <1>3, <1>5 DEF Good, Fixed
<1>7. ASSUME NEW p \in Cdn!Paths(after) \cap CdnLive PROVE after.rules[p] = "reviewed"
  <2>1. CASE p \in Cdn!Paths(before)
    <3>1. Cdn!Restricted(before, {p}) = Cdn!Restricted(after, {p})
      BY <1>4, <1>7, <2>1, FewerPaths
    <3>2. [q \in {p} |-> before.rules[q]] = [q \in {p} |-> after.rules[q]]
      BY <3>1 DEF Cdn!Restricted
    <3>3. [q \in {p} |-> before.rules[q]][p] = [q \in {p} |-> after.rules[q]][p]
      BY <3>2
    <3> QED
      BY <1>7, <2>1, <3>3 DEF Good
  <2> QED
    BY <1>2, <1>7, <2>1
<1> QED
  BY <1>6, <1>7 DEF Good

\* A release begins with the first distribution.
LEMMA CdnInit == ASSUME Cdn!Init PROVE CdnInv
<1>1. Good(CdnFirst)
  BY CdnAssumption DEF Good, Cdn!Paths
<1>2. \A r \in CdnReleases : Planned(r) /\ Noted(r) /\ OwnIsNoted(r)
  BY DEF Cdn!Init, Planned, Noted, OwnIsNoted
<1> QED
  BY <1>1, <1>2 DEF Cdn!Init, CdnInv, CdnTypes, LastIsRight

\* The others are not touched by what one release does.
LEMMA OthersStay ==
    ASSUME CdnInv, NEW r \in CdnReleases, NEW s \in CdnReleases \ {r},
           cdnOp'[s] = cdnOp[s], cdnPlan'[s] = cdnPlan[s],
           cdnRecord'[s] = cdnRecord[s], cdnFound'[s] = cdnFound[s]
    PROVE  Planned(s)' /\ Noted(s)'
<1>1. Planned(s) /\ Noted(s)
  BY DEF CdnInv
<1>2. Cdn!Target(s)' = Cdn!Target(s) /\ Cdn!Introduced(s)' = Cdn!Introduced(s)
  BY DEF Cdn!Target, Cdn!Without, Cdn!Introduced
<1>3. \A b, a : Cdn!Valid(s, b, a)' <=> Cdn!Valid(s, b, a)
  BY DEF Cdn!Valid
<1> QED
  BY <1>1, <1>2, <1>3 DEF Planned, Noted, Good

\* Nothing is changed of what is there.
LEMMA RoutesStay ==
    ASSUME CdnInv, UNCHANGED <<cdnCdn, cdnOwn, cdnCrossed>>, NEW r \in CdnReleases,
           cdnRecord'[r] = cdnRecord[r], cdnFound'[r] = cdnFound[r]
    PROVE  OwnIsNoted(r)'
BY DEF CdnInv, OwnIsNoted

\* A release begins, or is taken back.
LEMMA CdnBegins ==
    ASSUME CdnInv, NEW r \in CdnReleases, Cdn!Apply(r) \/ Cdn!Rollback(r)
    PROVE  CdnInv'
<1>1. /\ UNCHANGED <<cdnCdn, cdnRecord, cdnPlan, cdnFound, cdnLast, cdnOwn, cdnCrossed>>
      /\ cdnOp[r] = "none"
      /\ \/ cdnOp' = [cdnOp EXCEPT ![r] = "apply"]
         \/ cdnOp' = [cdnOp EXCEPT ![r] = "rollback"] /\ cdnRecord[r] # Cdn!None
  BY DEF Cdn!Apply, Cdn!Rollback, Cdn!Goes, Cdn!history
<1>2. CdnTypes' /\ Good(cdnCdn)' /\ LastIsRight'
  BY <1>1 DEF CdnInv, CdnTypes, Good, LastIsRight, Cdn!Introduced
<1>3. Planned(r)' /\ Noted(r)'
  BY <1>1 DEF CdnInv, CdnTypes, Planned, Noted, Cdn!Introduced
<1>4. ASSUME NEW s \in CdnReleases \ {r} PROVE Planned(s)' /\ Noted(s)'
  <2>1. cdnOp'[s] = cdnOp[s]
    BY <1>1 DEF CdnInv, CdnTypes
  <2> QED
    BY <1>1, <2>1, OthersStay
<1>5. \A s \in CdnReleases : OwnIsNoted(s)'
  BY <1>1, RoutesStay
<1> QED
  BY <1>2, <1>3, <1>4, <1>5 DEF CdnInv

\* One that fails or ends forgets its plan.
LEMMA CdnForgets ==
    ASSUME CdnInv, NEW r \in CdnReleases, UNCHANGED <<cdnRecord, cdnFound>>,
           Cdn!Forgets(r),
           NEW what \in {"none", "retreat"}, Cdn!Goes(r, what),
           what = "retreat" => cdnRecord[r] # Cdn!None
    PROVE  /\ CdnTypes'
           /\ \A s \in CdnReleases : Planned(s)' /\ Noted(s)'
<1>1. /\ cdnOp' = [cdnOp EXCEPT ![r] = what]
      /\ cdnPlan' = [cdnPlan EXCEPT ![r] = Cdn!None]
  BY DEF Cdn!Goes, Cdn!Forgets
<1>2. CdnTypes'
  BY <1>1 DEF CdnInv, CdnTypes
<1>3. Planned(r)' /\ Noted(r)'
  BY <1>1 DEF CdnInv, CdnTypes, Planned, Noted, Cdn!Introduced
<1>4. ASSUME NEW s \in CdnReleases \ {r} PROVE Planned(s)' /\ Noted(s)'
  <2>1. cdnOp'[s] = cdnOp[s] /\ cdnPlan'[s] = cdnPlan[s]
    BY <1>1 DEF CdnInv, CdnTypes
  <2> QED
    BY <2>1, OthersStay
<1> QED
  BY <1>2, <1>3, <1>4

\* What fails is taken back or left alone.
LEMMA CdnFails ==
    ASSUME CdnInv, NEW r \in CdnReleases, UNCHANGED <<cdnRecord, cdnFound>>,
           Cdn!Fails(r)
    PROVE  /\ CdnTypes'
           /\ \A s \in CdnReleases : Planned(s)' /\ Noted(s)'
<1> DEFINE what == IF /\ cdnOp[r] = "apply" /\ cdnRecord[r] # Cdn!None
                      /\ cdnRecord[r].paths # {}
                   THEN "retreat" ELSE "none"
<1>1. Cdn!Forgets(r) /\ Cdn!Goes(r, what)
  BY DEF Cdn!Fails
<1>2. what \in {"none", "retreat"} /\ (what = "retreat" => cdnRecord[r] # Cdn!None)
  OBVIOUS
<1> HIDE DEF what
<1> QED
  BY <1>1, <1>2, CdnForgets

\* A plan is noted with what it introduces, the first time.
LEMMA CdnPlans ==
    ASSUME CdnInv, NEW r \in CdnReleases, Cdn!Plan(r)
    PROVE  CdnInv'
<1>1. /\ UNCHANGED <<cdnCdn, cdnLast, cdnOwn, cdnCrossed>>
      /\ cdnOp[r] # "none" /\ cdnPlan[r] = Cdn!None
      /\ CdnTypes /\ Good(cdnCdn) /\ LastIsRight /\ Noted(r) /\ OwnIsNoted(r)
  BY DEF Cdn!Plan, CdnInv
<1>2. CASE Cdn!Valid(r, cdnCdn, Cdn!Target(r))
  <2>1. /\ cdnPlan' = [cdnPlan EXCEPT ![r] = [before |-> cdnCdn, after |-> Cdn!Target(r)]]
        /\ Cdn!Note(r) /\ UNCHANGED cdnOp
    BY <1>2 DEF Cdn!Plan
  <2>2. \/ /\ cdnOp[r] = "apply" /\ cdnRecord[r] = Cdn!None
           /\ cdnRecord' = [cdnRecord EXCEPT ![r] =
                  [paths |-> Cdn!Paths(Cdn!Target(r)) \ Cdn!Paths(cdnCdn)]]
           /\ cdnFound' = [cdnFound EXCEPT ![r] = [paths |-> Cdn!Paths(cdnCdn)]]
        \/ cdnRecord[r] # Cdn!None /\ UNCHANGED <<cdnRecord, cdnFound>>
    BY <1>1, <2>1 DEF Cdn!Note, CdnTypes, Noted
  <2>3. CdnTypes'
    BY <1>1, <2>1, <2>2 DEF CdnTypes
  <2>4. Noted(r)'
    <3>1. CASE cdnRecord[r] # Cdn!None /\ UNCHANGED <<cdnRecord, cdnFound>>
      BY <1>1, <2>1, <3>1 DEF Noted, Cdn!Introduced
    <3>2. CASE cdnOp[r] = "apply" /\ cdnRecord[r] = Cdn!None
      <4>1. /\ cdnRecord'[r] = [paths |-> Cdn!Paths(Cdn!Target(r)) \ Cdn!Paths(cdnCdn)]
            /\ cdnFound'[r] = [paths |-> Cdn!Paths(cdnCdn)]
        BY <1>1, <2>2, <3>2 DEF CdnTypes
      <4>2. Cdn!Target(r) = CdnConfigs[r]
        BY <3>2 DEF Cdn!Target
      <4>3. Cdn!Paths(Cdn!Target(r)) \ Cdn!Paths(cdnCdn) \subseteq CdnLive
        BY <1>2, <3>2 DEF Cdn!Valid
      <4> QED
        BY <2>1, <3>2, <4>1, <4>2, <4>3 DEF Noted, Cdn!Introduced
    <3> QED
      BY <2>2, <3>1, <3>2
  <2>5. cdnRecord'[r] # Cdn!None
    BY <1>1, <2>2 DEF CdnTypes, Cdn!None
  <2>6. Planned(r)'
    <3>1. cdnPlan'[r] = [before |-> cdnCdn, after |-> Cdn!Target(r)]
      BY <1>1, <2>1 DEF CdnTypes
    <3>2. Cdn!Target(r)' = Cdn!Target(r)
      BY <2>1, <2>2 DEF Cdn!Target, Cdn!Without
    <3>3. Cdn!Valid(r, cdnCdn, Cdn!Target(r))'
      BY <1>1, <1>2, <2>1, <2>2, <3>2 DEF Cdn!Valid
    <3>4. Good(cdnCdn)'
      BY <1>1 DEF Good
    <3> QED
      BY <1>1, <2>1, <2>5, <3>1, <3>2, <3>3, <3>4 DEF Planned, Good
  <2>7. ASSUME NEW s \in CdnReleases \ {r}
        PROVE  /\ Planned(s)' /\ Noted(s)'
               /\ cdnRecord'[s] = cdnRecord[s] /\ cdnFound'[s] = cdnFound[s]
    <3>1. /\ cdnOp'[s] = cdnOp[s] /\ cdnPlan'[s] = cdnPlan[s]
          /\ cdnRecord'[s] = cdnRecord[s] /\ cdnFound'[s] = cdnFound[s]
      BY <1>1, <2>1, <2>2 DEF CdnTypes
    <3> QED
      BY <3>1, OthersStay
  <2>8. LastIsRight'
    <3>1. SUFFICES ASSUME cdnLast # Cdn!None PROVE LastIsRight'
      BY <1>1 DEF LastIsRight
    <3>2. /\ cdnRecord'[cdnLast.release] = cdnRecord[cdnLast.release]
          /\ cdnFound'[cdnLast.release] = cdnFound[cdnLast.release]
      BY <1>1, <2>2, <2>7, <3>1 DEF LastIsRight
    <3> QED
      BY <1>1, <3>1, <3>2 DEF LastIsRight, Cdn!Introduced
  <2>9. OwnIsNoted(r)'
    <3>1. CASE cdnRecord[r] # Cdn!None /\ UNCHANGED <<cdnRecord, cdnFound>>
      BY <1>1, <3>1, RoutesStay
    <3>2. CASE cdnOp[r] = "apply" /\ cdnRecord[r] = Cdn!None
      <4>1. /\ cdnRecord'[r] = [paths |-> Cdn!Paths(Cdn!Target(r)) \ Cdn!Paths(cdnCdn)]
            /\ cdnFound'[r] = [paths |-> Cdn!Paths(cdnCdn)]
        BY <1>1, <2>2, <3>2 DEF CdnTypes
      <4>2. cdnOwn'[r] = {} /\ Cdn!Paths(cdnCdn)' = Cdn!Paths(cdnCdn)
        BY <1>1, <3>2 DEF OwnIsNoted
      <4> QED
        BY <2>5, <4>1, <4>2 DEF OwnIsNoted
    <3> QED
      BY <2>2, <3>1, <3>2
  <2>10. ASSUME NEW s \in CdnReleases \ {r} PROVE OwnIsNoted(s)'
    BY <1>1, <2>7, RoutesStay
  <2> QED
    BY <1>1, <2>3, <2>4, <2>6, <2>7, <2>8, <2>9, <2>10 DEF CdnInv, Good
<1>3. CASE ~Cdn!Valid(r, cdnCdn, Cdn!Target(r))
  <2>1. Cdn!Fails(r) /\ UNCHANGED <<cdnRecord, cdnFound>>
    BY <1>3 DEF Cdn!Plan
  <2>2. CdnTypes' /\ \A s \in CdnReleases : Planned(s)' /\ Noted(s)'
    BY <2>1, CdnFails
  <2>3. \A s \in CdnReleases : OwnIsNoted(s)'
    BY <1>1, <2>1, RoutesStay
  <2> QED
    BY <1>1, <2>1, <2>2, <2>3 DEF CdnInv, Good, LastIsRight, Cdn!Introduced
<1> QED
  BY <1>2, <1>3

\* The distribution a plan leads to is as it should be.
LEMMA PlanIsGood ==
    ASSUME CdnInv, NEW r \in CdnReleases, cdnPlan[r] # Cdn!None
    PROVE  Good(cdnPlan[r].after)
<1>1. Planned(r) /\ Noted(r)
  BY DEF CdnInv
<1>2. cdnRecord[r].paths \subseteq CdnLive
  BY <1>1 DEF Planned, Noted
<1> QED
  BY <1>1, <1>2, ValidIsGood DEF Planned

\* What is taken back are the routes that were introduced.
LEMMA TakesBack ==
    ASSUME CdnInv, NEW r \in CdnReleases, cdnPlan[r] # Cdn!None
    PROVE  IF cdnOp[r] = "apply"
           THEN Cdn!Introduced(r) \subseteq Cdn!Paths(cdnPlan[r].after)
           ELSE Cdn!Paths(cdnPlan[r].after)
                    = Cdn!Paths(cdnPlan[r].before) \ Cdn!Introduced(r)
<1> DEFINE before == cdnPlan[r].before
           after  == cdnPlan[r].after
<1>1. /\ cdnRecord[r] # Cdn!None /\ after = Cdn!Target(r) /\ Cdn!Valid(r, before, after)
      /\ cdnRecord[r].paths = Cdn!Introduced(r)
  BY DEF CdnInv, Planned, Noted
<1>2. CASE cdnOp[r] = "apply"
  <2>1. after = CdnConfigs[r]
    BY <1>1, <1>2 DEF Cdn!Target
  <2>2. Cdn!Introduced(r) \subseteq Cdn!Paths(CdnConfigs[r])
    BY DEF Cdn!Introduced
  <2> QED
    BY <1>2, <2>1, <2>2
<1>3. CASE cdnOp[r] # "apply"
  <2>1. after = Cdn!Without(r)
    BY <1>1, <1>3 DEF Cdn!Target
  <2>2. Cdn!Paths(after) = Cdn!Paths(CdnConfigs[r]) \ Cdn!Introduced(r)
    BY <1>1, <2>1 DEF Cdn!Without, Cdn!Restricted, Cdn!Paths
  <2>3. /\ Cdn!Paths(after) \subseteq Cdn!Paths(before)
        /\ Cdn!Paths(before) \ Cdn!Paths(after) \subseteq Cdn!Introduced(r)
    BY <1>1, <1>3 DEF Cdn!Valid
  <2> HIDE DEF before, after
  <2>4. Cdn!Paths(after) = Cdn!Paths(before) \ Cdn!Introduced(r)
    BY <2>2, <2>3
  <2> QED
    BY <1>3, <2>4 DEF before, after
<1> QED
  BY <1>2, <1>3

\* What a release adds it has noted, unless another one has been there meanwhile; and
\* what it takes back is all of that.
LEMMA OwnRoutesChange ==
    ASSUME CdnInv, NEW r \in CdnReleases, Cdn!UpToDate(r), Cdn!Changes(r),
           UNCHANGED <<cdnRecord, cdnFound>>, NEW s \in CdnReleases
    PROVE  OwnIsNoted(s)'
<1> DEFINE before == Cdn!Paths(cdnCdn)
           after  == Cdn!Paths(cdnCdn')
<1>1. /\ cdnPlan[r] # Cdn!None /\ cdnCdn = cdnPlan[r].before /\ cdnCdn' = cdnPlan[r].after
      /\ cdnOwn'[s] = (cdnOwn[s] \cap after) \cup {p \in after \ before : s = r}
      /\ cdnCrossed \subseteq cdnCrossed'
      /\ (s # r /\ cdnRecord[s] # Cdn!None /\ cdnCdn' # cdnCdn) => s \in cdnCrossed'
  BY DEF Cdn!UpToDate, Cdn!Changes
<1>2. /\ OwnIsNoted(s) /\ Planned(r) /\ Noted(r)
  BY DEF CdnInv
<1>3. CASE s # r
  <2>1. cdnOwn'[s] = cdnOwn[s] \cap after
    BY <1>1, <1>3
  <2>2. CASE cdnRecord[s] = Cdn!None
    BY <1>2, <2>1, <2>2 DEF OwnIsNoted
  <2>3. CASE cdnRecord[s] # Cdn!None /\ s \notin cdnCrossed'
    <3>1. cdnCdn' = cdnCdn /\ s \notin cdnCrossed
      BY <1>1, <1>3, <2>3
    <3>2. after = before
      BY <3>1
    <3> HIDE DEF before, after
    <3>3. /\ cdnOwn[s] = cdnRecord[s].paths \cap before /\ cdnFound[s].paths \subseteq before
      BY <1>2, <2>3, <3>1 DEF OwnIsNoted, before
    <3> QED
      BY <2>1, <2>3, <3>2, <3>3 DEF OwnIsNoted, after
  <2> QED
    BY <2>2, <2>3 DEF OwnIsNoted
<1>4. CASE s = r
  <2>1. cdnRecord[r] # Cdn!None /\ cdnOwn'[r] = (cdnOwn[r] \cap after) \cup (after \ before)
    BY <1>1, <1>2, <1>4 DEF Planned
  <2> SUFFICES ASSUME r \notin cdnCrossed'
               PROVE  /\ cdnOwn'[r] = cdnRecord[r].paths \cap after
                      /\ cdnFound[r].paths \subseteq after
    BY <1>4, <2>1 DEF OwnIsNoted
  <2>2. cdnOwn[r] = cdnRecord[r].paths \cap before /\ cdnFound[r].paths \subseteq before
    BY <1>1, <1>2, <1>4, <2>1 DEF OwnIsNoted
  <2>3. cdnRecord[r].paths = Cdn!Paths(CdnConfigs[r]) \ cdnFound[r].paths
    BY <1>2, <2>1 DEF Noted, Cdn!Introduced
  <2>4. CASE cdnOp[r] = "apply"
    <3>1. after = Cdn!Paths(CdnConfigs[r]) /\ before \subseteq after
      BY <1>1, <1>2, <2>4 DEF Planned, Cdn!Target, Cdn!Valid
    <3> HIDE DEF before, after
    <3> QED
      BY <2>1, <2>2, <2>3, <3>1
  <2>5. CASE cdnOp[r] # "apply"
    <3>1. after = before \ cdnRecord[r].paths
      BY <1>1, <1>2, <2>1, <2>5, TakesBack DEF Noted
    <3> HIDE DEF before, after
    <3> QED
      BY <2>1, <2>2, <2>3, <3>1
  <2> QED
    BY <2>4, <2>5
<1> QED
  BY <1>3, <1>4

\* A plan is applied, or refused.
LEMMA CdnExecutes ==
    ASSUME CdnInv, NEW r \in CdnReleases, Cdn!Execute(r)
    PROVE  CdnInv'
<1>1. /\ UNCHANGED <<cdnRecord, cdnFound>> /\ cdnPlan[r] # Cdn!None
      /\ CdnTypes /\ Good(cdnCdn) /\ LastIsRight /\ Planned(r) /\ Noted(r) /\ OwnIsNoted(r)
  BY DEF Cdn!Execute, CdnInv
<1>2. CASE Cdn!UpToDate(r)
  <2>1. /\ cdnCdn = cdnPlan[r].before /\ cdnCdn' = cdnPlan[r].after /\ Cdn!Changes(r)
        /\ cdnLast' = [release |-> r, op |-> cdnOp[r], from |-> Cdn!Paths(cdnCdn),
                       own |-> cdnOwn[r]]
        /\ Cdn!Goes(r, "none") /\ Cdn!Forgets(r)
    BY <1>2 DEF Cdn!Execute, Cdn!UpToDate, Cdn!Changes
  <2>2. CdnTypes' /\ \A s \in CdnReleases : Planned(s)' /\ Noted(s)'
    BY <1>1, <2>1, CdnForgets
  <2>3. Good(cdnCdn)'
    <3>1. Good(cdnPlan[r].after)
      BY <1>1, PlanIsGood
    <3> QED
      BY <2>1, <3>1 DEF Good
  <2>4. LastIsRight'
    <3>1. /\ cdnLast'.release = r /\ cdnLast'.op = cdnOp[r]
          /\ cdnLast'.from = Cdn!Paths(cdnPlan[r].before) /\ cdnLast'.own = cdnOwn[r]
      BY <2>1
    <3>2. Cdn!Introduced(r)' = Cdn!Introduced(r) /\ cdnRecord'[r] # Cdn!None
      BY <1>1 DEF Cdn!Introduced, Planned
    <3>3. IF cdnOp[r] = "apply"
          THEN Cdn!Introduced(r) \subseteq Cdn!Paths(cdnCdn')
          ELSE Cdn!Paths(cdnCdn') = Cdn!Paths(cdnPlan[r].before) \ Cdn!Introduced(r)
      BY <1>1, <2>1, TakesBack
    <3>4. (cdnOp[r] # "apply" /\ r \notin cdnCrossed') =>
             Cdn!Paths(cdnCdn') = Cdn!Paths(cdnPlan[r].before) \ cdnOwn[r]
      <4>1. r \notin cdnCrossed' => r \notin cdnCrossed
        BY <2>1 DEF Cdn!Changes
      <4>2. /\ cdnRecord[r] # Cdn!None /\ cdnRecord[r].paths = Cdn!Introduced(r)
            /\ r \notin cdnCrossed =>
                  cdnOwn[r] = cdnRecord[r].paths \cap Cdn!Paths(cdnPlan[r].before)
        BY <1>1, <2>1 DEF Planned, Noted, OwnIsNoted
      <4> QED
        BY <3>3, <4>1, <4>2
    <3> QED
      BY <3>1, <3>2, <3>3, <3>4 DEF LastIsRight
  <2>5. \A s \in CdnReleases : OwnIsNoted(s)'
    BY <1>1, <1>2, <2>1, OwnRoutesChange
  <2> QED
    BY <2>2, <2>3, <2>4, <2>5 DEF CdnInv
<1>3. CASE ~Cdn!UpToDate(r)
  <2>1. Cdn!Fails(r) /\ UNCHANGED <<cdnCdn, cdnOwn, cdnCrossed, cdnLast>>
    BY <1>3 DEF Cdn!Execute
  <2>2. CdnTypes' /\ \A s \in CdnReleases : Planned(s)' /\ Noted(s)'
    BY <1>1, <2>1, CdnFails
  <2>3. \A s \in CdnReleases : OwnIsNoted(s)'
    BY <1>1, <2>1, RoutesStay
  <2> QED
    BY <1>1, <2>1, <2>2, <2>3 DEF CdnInv, Good, LastIsRight, Cdn!Introduced
<1> QED
  BY <1>2, <1>3

\* A command or the script is stopped, before or after the plan was applied.
LEMMA CdnStops ==
    ASSUME CdnInv, NEW r \in CdnReleases, Cdn!StepFails(r) \/ Cdn!Killed(r)
    PROVE  CdnInv'
<1>1. /\ UNCHANGED <<cdnRecord, cdnFound>> /\ cdnLast' = Cdn!None
      /\ UNCHANGED <<cdnCdn, cdnOwn, cdnCrossed>> \/ (Cdn!UpToDate(r) /\ Cdn!Changes(r))
      /\ Cdn!Fails(r) \/ (Cdn!Goes(r, "none") /\ Cdn!Forgets(r))
  BY DEF Cdn!StepFails, Cdn!Killed, Cdn!CutShort
<1>2. CdnTypes' /\ \A s \in CdnReleases : Planned(s)' /\ Noted(s)'
  BY <1>1, CdnFails, CdnForgets
<1>3. Good(cdnCdn)'
  <2>1. CASE UNCHANGED cdnCdn
    BY <2>1 DEF CdnInv, Good
  <2>2. CASE Cdn!UpToDate(r) /\ Cdn!Changes(r)
    <3>1. cdnPlan[r] # Cdn!None /\ cdnCdn' = cdnPlan[r].after
      BY <2>2 DEF Cdn!UpToDate, Cdn!Changes
    <3>2. Good(cdnPlan[r].after)
      BY <3>1, PlanIsGood
    <3> QED
      BY <3>1, <3>2 DEF Good
  <2> QED
    BY <1>1, <2>1, <2>2
<1>4. \A s \in CdnReleases : OwnIsNoted(s)'
  BY <1>1, RoutesStay, OwnRoutesChange
<1> QED
  BY <1>1, <1>2, <1>3, <1>4 DEF CdnInv, LastIsRight

\* Every step, and what follows.
LEMMA CdnStep == ASSUME CdnInv, CdnNext PROVE CdnInv'
BY CdnBegins, CdnPlans, CdnExecutes, CdnStops DEF CdnNext

LEMMA CdnIsRight == CdnInv => Cdn!RoutesAreRight
BY DEF CdnInv, Good, Fixed, LastIsRight, Cdn!RoutesAreRight

-----------------------------------------------------------------------------
(* The release of the receivers.                                           *)

ReceiversNext ==
    \/ \E r \in ReceiverReleases : Receivers!Apply(r) \/ Receivers!Rollback(r)
    \/ Receivers!Step \/ Receivers!StepFails \/ Receivers!Killed

ReceiverPlaces ==
    {"idle", "config", "modules", "sign", "stop", "configure", "install", "restart",
     "finish"}

\* A configuration with the first one's text around its blocks.
Shaped(c) ==
    /\ c # Receivers!None
    /\ \E n \in Nat : DOMAIN c.blocks = 1 .. n
    /\ c.rest = ReceiverFirst.rest

\* A configuration and the modules of the same release.
Belongs(c, a) ==
    \E x \in ReceiverReleases \cup {FirstRelease} :
        a = Receivers!Named(x) /\ Receivers!Follows(c, x)

ReceiverTypes ==
    /\ Shaped(recConfig) /\ recKills \in Nat
    /\ DOMAIN recRecord = ReceiverReleases /\ DOMAIN recFoundAt = ReceiverReleases
    /\ \A s \in ReceiverReleases :
          /\ recRecord[s] = [config |-> recRecord[s].config, app |-> recRecord[s].app,
                             signed |-> recRecord[s].signed,
                             deployed |-> recRecord[s].deployed]
          /\ recRecord[s].config # Receivers!None => Shaped(recRecord[s].config)
    /\ recRun = [release |-> recRun.release, pc |-> recRun.pc]
    /\ recRun.pc \in ReceiverPlaces
    /\ recRun.pc # "idle" => recRun.release \in ReceiverReleases /\ recLast = Receivers!None

\* A snapshot holds what the release found when it was first begun.
SnapshotIsFound(s) ==
    /\ recRecord[s].config = Receivers!None => recRecord[s].app = Receivers!None
    /\ recRecord[s].config # Receivers!None =>
          recFoundAt[s] = [config |-> recRecord[s].config, app |-> recFoundAt[s].app]
    /\ recRecord[s].app \notin {Receivers!None, Receivers!Mixed} =>
          recRecord[s].app = recFoundAt[s].app

\* The release at work, by the place of its script.
WorkIsRight ==
    /\ recRun.pc = "config" =>
          /\ recRecord[recRun.release].config = Receivers!None
          /\ recFoundAt[recRun.release] = [config |-> recConfig, app |-> recApp]
    /\ recRun.pc = "modules" =>
          /\ recRecord[recRun.release].config = recConfig
          /\ recRecord[recRun.release].app = Receivers!None
          /\ recFoundAt[recRun.release].app = recApp
    /\ recRun.pc \notin {"idle", "config"} =>
          recRecord[recRun.release].config # Receivers!None
    /\ recRun.pc \in {"install", "restart", "finish"} =>
          Receivers!Follows(recConfig, recRun.release)
    /\ recRun.pc \in {"restart", "finish"} => recApp = Receivers!Named(recRun.release)
    /\ recRun.pc = "finish" => recUp

\* As long as no script is killed: what is installed belongs together until the new
\* configuration is written, and so does every snapshot that is complete.
Untouched == {"idle", "config", "modules", "sign", "stop"}
TogetherInv ==
    recKills = 0 =>
        /\ recRun.pc \in Untouched \cup {"configure"} => Belongs(recConfig, recApp)
        /\ recRun.pc \in Untouched => recUp
        /\ \A s \in ReceiverReleases :
              recRecord[s].config # Receivers!None =>
                  \/ recRun.pc = "modules" /\ recRun.release = s
                  \/ Belongs(recRecord[s].config, recRecord[s].app)

LastReceiver ==
    recLast # Receivers!None =>
        IF "applied" \in DOMAIN recLast
        THEN /\ recUp /\ recApp = Receivers!Named(recLast.applied)
             /\ Receivers!Follows(recConfig, recLast.applied)
        ELSE recUp /\ [config |-> recConfig, app |-> recApp] = recFoundAt[recLast.back]

ReceiverInv ==
    /\ ReceiverTypes /\ WorkIsRight /\ TogetherInv /\ LastReceiver
    /\ \A s \in ReceiverReleases : SnapshotIsFound(s)

\* The block of a channel has its label.
LEMMA BlockIsLabelled ==
    ASSUME NEW c, NEW n \in Nat, DOMAIN c.blocks = 1 .. n,
           NEW ch, Receivers!Labelled(c, ch) # {}
    PROVE  Receivers!LastBlock(c, ch).label = ch
<1> DEFINE S == Receivers!Labelled(c, ch)
<1>1. S \subseteq 1 .. n
  BY DEF Receivers!Labelled
<1>2. IsFiniteSet(S) /\ S \subseteq Nat
  <2>1. IsFiniteSet(1 .. n) /\ 1 .. n \subseteq Nat
    BY FS_Interval
  <2> HIDE DEF S
  <2> QED
    BY <1>1, <2>1, FS_Subset
<1>3. \E m \in S : \A k \in S : k <= m
  BY <1>2, GreatestExists
<1>4. \E m \in S : \A k \in S : m >= k
  BY <1>2, <1>3
<1>5. Receivers!Max(S) \in S
  <2> HIDE DEF S
  <2> QED
    BY <1>4 DEF Receivers!Max
<1> QED
  BY <1>5 DEF Receivers!LastBlock, Receivers!Labelled

\* What configure_channels makes of a configuration follows the policy of a release.
LEMMA ConfiguredFollows ==
    ASSUME NEW r \in ReceiverReleases, NEW c, NEW t, Shaped(c), Shaped(t),
           Receivers!CanConfigure(c, t, LiveChannels[r], RecordedChannels[r])
    PROVE  LET new == Receivers!Configured(c, t, LiveChannels[r], RecordedChannels[r]) IN
           Shaped(new) /\ Receivers!Follows(new, r)
<1> DEFINE live     == LiveChannels[r]
           recorded == RecordedChannels[r]
           new      == Receivers!Configured(c, t, live, recorded)
           Own(n)   == Receivers!Body(c, t, live[n])
<1>1. live \in Seq(DOMAIN Tuned)
  BY ReceiverAssumption
<1>2. Len(live) \in Nat /\ DOMAIN live = 1 .. Len(live)
      /\ live = [n \in DOMAIN live |-> live[n]]
  BY <1>1
<1>3. /\ new.blocks = [n \in DOMAIN live |-> Receivers!Selected(Own(n), recorded)]
      /\ new.rest = c.rest /\ new # Receivers!None
  BY DEF Receivers!Configured, Receivers!None
<1>4. ASSUME NEW n \in DOMAIN live
      PROVE  /\ Receivers!CanSelect(c, t, live[n], recorded)
             /\ Own(n).label = live[n]
  <2>1. live[n] \in Receivers!ToSet(live)
    BY DEF Receivers!ToSet
  <2>2. Receivers!CanSelect(c, t, live[n], recorded)
    BY <2>1 DEF Receivers!CanConfigure
  <2>3. PICK k \in Nat, l \in Nat : DOMAIN c.blocks = 1 .. k /\ DOMAIN t.blocks = 1 .. l
    BY DEF Shaped
  <2>4. Receivers!Labelled(c, live[n]) # {} \/ Receivers!Labelled(t, live[n]) # {}
    BY <2>2 DEF Receivers!CanSelect
  <2>5. CASE Receivers!Labelled(c, live[n]) # {}
    <3>1. Own(n) = Receivers!LastBlock(c, live[n])
      BY <2>5 DEF Receivers!Body
    <3>2. Receivers!Labelled(c, live[n]) # {}
      BY <2>4, <2>5
    <3>3. Receivers!LastBlock(c, live[n]).label = live[n]
      BY <2>3, <3>2, BlockIsLabelled
    <3> QED
      BY <2>2, <3>1, <3>3
  <2>6. CASE Receivers!Labelled(c, live[n]) = {}
    <3>1. Own(n) = Receivers!LastBlock(t, live[n])
      BY <2>6 DEF Receivers!Body
    <3>2. Receivers!Labelled(t, live[n]) # {}
      BY <2>4, <2>6
    <3>3. Receivers!LastBlock(t, live[n]).label = live[n]
      BY <2>3, <3>2, BlockIsLabelled
    <3> QED
      BY <2>2, <3>1, <3>3
  <2> QED
    BY <2>5, <2>6
<1>5. ASSUME NEW n \in DOMAIN live
      PROVE  /\ new.blocks[n].label = live[n]
             /\ new.blocks[n].freq = Tuned[live[n]]
             /\ new.blocks[n].outputs.icecast = 1
             /\ new.blocks[n].outputs.file = IF live[n] \in recorded THEN 1 ELSE 0
  <2>1. new.blocks[n] = Receivers!Selected(Own(n), recorded)
    BY <1>3
  <2>2. /\ Own(n).label = live[n] /\ Own(n).freq = Tuned[live[n]]
        /\ Own(n).outputs.icecast = 1
        /\ Own(n).label \in recorded /\ ~Receivers!AddsFile(Own(n), recorded)
              => Own(n).outputs.file = 1
    BY <1>4 DEF Receivers!CanSelect
  <2> DEFINE b == Own(n)
  <2>3. b.label = live[n] /\ b.freq = Tuned[live[n]] /\ b.outputs.icecast = 1
    BY <2>2
  <2>4. CASE b.label \in recorded /\ ~Receivers!AddsFile(b, recorded)
    <3>1. new.blocks[n] = b /\ b.outputs.file = 1
      BY <2>1, <2>2, <2>4 DEF Receivers!Selected
    <3> QED
      BY <2>3, <2>4, <3>1
  <2>5. CASE ~(b.label \in recorded /\ ~Receivers!AddsFile(b, recorded))
    <3>1. new.blocks[n] = [label |-> b.label, freq |-> b.freq,
              outputs |-> [file |-> IF b.label \in recorded THEN 1 ELSE 0, icecast |-> 1]]
      BY <2>1, <2>5 DEF Receivers!Selected
    <3> HIDE DEF b, new
    <3> QED
      BY <2>3, <3>1
  <2> QED
    BY <2>4, <2>5
<1> HIDE DEF new, Own
<1>6. DOMAIN new.blocks = DOMAIN live
  BY <1>3
<1>7. Receivers!Labels(new) = live
  BY <1>2, <1>5, <1>6 DEF Receivers!Labels
<1>8. ASSUME NEW b \in Receivers!ToSet(new.blocks)
      PROVE  /\ b.freq = Tuned[b.label] /\ b.outputs.icecast = 1
             /\ b.outputs.file = IF b.label \in recorded THEN 1 ELSE 0
  <2>1. PICK n \in DOMAIN live : b = new.blocks[n]
    BY <1>6 DEF Receivers!ToSet
  <2> QED
    BY <1>5, <2>1
<1>9. Shaped(new)
  BY <1>2, <1>3, <1>6 DEF Shaped
<1>10. Receivers!Follows(new, r)
  BY <1>7, <1>8, <1>9 DEF Receivers!Follows, Shaped
<1> QED
  BY <1>9, <1>10 DEF new

LEMMA ReceiverInit == ASSUME Receivers!Init PROVE ReceiverInv
<1>1. /\ recConfig = ReceiverFirst /\ recApp = Receivers!Named(FirstRelease)
      /\ recRecord = [r \in ReceiverReleases |->
             [config |-> Receivers!None, app |-> Receivers!None,
              signed |-> FALSE, deployed |-> FALSE]]
      /\ recRun = [release |-> Receivers!None, pc |-> "idle"] /\ recUp = TRUE
      /\ recFoundAt = [r \in ReceiverReleases |-> Receivers!None]
      /\ recLast = Receivers!None /\ recKills = 0
  BY DEF Receivers!Init, Receivers!Idle
<1>2. Shaped(recConfig)
  <2>1. ReceiverFirst # Receivers!None
    <3>1. DOMAIN Receivers!None = {"none"}
      BY DEF Receivers!None
    <3> QED
      BY <3>1, ReceiverAssumption
  <2> QED
    BY <1>1, <2>1, ReceiverAssumption DEF Shaped
<1>3. Belongs(recConfig, recApp)
  BY <1>1, ReceiverAssumption DEF Belongs
<1>4. ReceiverTypes
  BY <1>1, <1>2 DEF ReceiverTypes, ReceiverPlaces
<1> QED
  BY <1>1, <1>3, <1>4
  DEF ReceiverInv, WorkIsRight, TogetherInv, LastReceiver, SnapshotIsFound

\* A release is not one of the marks.
LEMMA NamedIs ==
    ASSUME NEW x
    PROVE  /\ Receivers!Named(x) # Receivers!None /\ Receivers!Named(x) # Receivers!Mixed
           /\ Receivers!Mixed # Receivers!None /\ Receivers!Named(x).release = x
BY DEF Receivers!Named, Receivers!None, Receivers!Mixed

\* What is restored is what was found.
LEMMA RestoredKeeps ==
    ASSUME ReceiverInv, NEW r \in ReceiverReleases, Receivers!Restored(r),
           recRecord[r].config # Receivers!None, recRun.pc # "modules",
           UNCHANGED <<recFoundAt, recKills>>,
           DOMAIN recRecord' = ReceiverReleases,
           \A s \in ReceiverReleases :
              /\ recRecord'[s].config = recRecord[s].config
              /\ recRecord'[s].app = recRecord[s].app
              /\ recRecord'[s] = [config |-> recRecord'[s].config,
                                  app |-> recRecord'[s].app,
                                  signed |-> recRecord'[s].signed,
                                  deployed |-> recRecord'[s].deployed]
    PROVE  ReceiverInv'
<1>1. /\ recConfig' = recRecord[r].config
      /\ recRun' = [release |-> Receivers!None, pc |-> "idle"]
      /\ IF recRecord[r].app = Receivers!None
         THEN recLast' = Receivers!None
         ELSE /\ recApp' = recRecord[r].app /\ recUp' = TRUE
              /\ recLast' = IF recRecord[r].app = Receivers!Mixed THEN Receivers!None
                            ELSE [back |-> r]
  BY DEF Receivers!Restored, Receivers!Idle
<1>2. ReceiverTypes'
  <2>1. Shaped(recRecord[r].config)
    BY DEF ReceiverInv, ReceiverTypes
  <2>2. Shaped(recConfig)'
    BY <1>1, <2>1 DEF Shaped
  <2>3. ASSUME NEW s \in ReceiverReleases, recRecord'[s].config # Receivers!None
        PROVE  Shaped(recRecord[s].config)'
    BY <2>3 DEF ReceiverInv, ReceiverTypes, Shaped
  <2> QED
    BY <1>1, <2>2, <2>3 DEF ReceiverInv, ReceiverTypes, ReceiverPlaces
<1>3. WorkIsRight'
  BY <1>1 DEF WorkIsRight
<1>4. ASSUME NEW s \in ReceiverReleases PROVE SnapshotIsFound(s)'
  BY DEF ReceiverInv, SnapshotIsFound
<1>5. TogetherInv'
  <2>1. SUFFICES ASSUME recKills = 0 PROVE TogetherInv'
    BY DEF TogetherInv
  <2>2. \A s \in ReceiverReleases :
            recRecord[s].config # Receivers!None
            => Belongs(recRecord[s].config, recRecord[s].app)
    BY <2>1 DEF ReceiverInv, TogetherInv
  <2>3. Belongs(recRecord[r].config, recRecord[r].app)
    BY <2>2
  <2>4. recRecord[r].app # Receivers!None
    BY <2>3, NamedIs DEF Belongs
  <2>5. recApp' = recRecord[r].app /\ recUp'
    BY <1>1, <2>4
  <2>6. Belongs(recConfig', recApp')
    BY <1>1, <2>3, <2>5
  <2>7. \A s \in ReceiverReleases :
            recRecord'[s].config # Receivers!None =>
                Belongs(recRecord'[s].config, recRecord'[s].app)
    BY <2>2
  <2> QED
    BY <1>1, <2>5, <2>6, <2>7 DEF TogetherInv, Belongs
<1>6. LastReceiver'
  <2>1. CASE recLast' = Receivers!None
    BY <2>1 DEF LastReceiver
  <2>2. CASE recLast' # Receivers!None
    <3>1. /\ recRecord[r].app \notin {Receivers!None, Receivers!Mixed}
          /\ recLast' = [back |-> r] /\ recApp' = recRecord[r].app /\ recUp'
      BY <1>1, <2>2
    <3>2. recFoundAt[r] = [config |-> recRecord[r].config, app |-> recRecord[r].app]
      BY <3>1 DEF ReceiverInv, SnapshotIsFound
    <3>3. "applied" \notin DOMAIN recLast' /\ recLast'.back = r
      BY <3>1
    <3> QED
      BY <1>1, <3>1, <3>2, <3>3 DEF LastReceiver
  <2> QED
    BY <2>1, <2>2
<1> QED
  BY <1>2, <1>3, <1>4, <1>5, <1>6 DEF ReceiverInv

\* A release begins.
LEMMA ReceiverBegins ==
    ASSUME ReceiverInv, NEW r \in ReceiverReleases, Receivers!Apply(r)
    PROVE  ReceiverInv'
<1>1. /\ recRun.pc = "idle" /\ recLast' = Receivers!None
      /\ UNCHANGED <<recConfig, recApp, recRecord, recUp, recKills>>
      /\ recRun' = [release |-> r,
             pc |-> IF recRecord[r].config = Receivers!None THEN "config" ELSE "sign"]
      /\ recFoundAt' = IF recRecord[r].config = Receivers!None
             THEN [recFoundAt EXCEPT ![r] = [config |-> recConfig, app |-> recApp]]
             ELSE recFoundAt
  BY DEF Receivers!Apply, Receivers!At, Receivers!FirstStep
<1>2. ReceiverTypes'
  <2>1. DOMAIN recFoundAt' = ReceiverReleases
    BY <1>1 DEF ReceiverInv, ReceiverTypes
  <2>2. /\ recRun' = [release |-> recRun'.release, pc |-> recRun'.pc]
        /\ recRun'.release = r /\ recRun'.pc \in {"config", "sign"}
    BY <1>1
  <2> QED
    BY <1>1, <2>1, <2>2 DEF ReceiverInv, ReceiverTypes, ReceiverPlaces, Shaped
<1>3. WorkIsRight'
  <2>1. recRecord[r].config = Receivers!None =>
            recFoundAt'[r] = [config |-> recConfig, app |-> recApp]
    BY <1>1 DEF ReceiverInv, ReceiverTypes
  <2> QED
    BY <1>1, <2>1 DEF WorkIsRight
<1>4. ASSUME NEW s \in ReceiverReleases PROVE SnapshotIsFound(s)'
  <2>1. s # r \/ recRecord[r].config # Receivers!None => recFoundAt'[s] = recFoundAt[s]
    BY <1>1 DEF ReceiverInv, ReceiverTypes
  <2> QED
    BY <1>1, <2>1 DEF ReceiverInv, SnapshotIsFound
<1>5. TogetherInv'
  <2>1. recRun'.pc \in {"config", "sign"}
    BY <1>1
  <2> QED
    BY <1>1, <2>1 DEF ReceiverInv, TogetherInv, Untouched, Belongs
<1>6. LastReceiver'
  BY <1>1 DEF LastReceiver
<1> QED
  BY <1>2, <1>3, <1>4, <1>5, <1>6 DEF ReceiverInv

LEMMA ReceiverRollsBack ==
    ASSUME ReceiverInv, NEW r \in ReceiverReleases, Receivers!Rollback(r)
    PROVE  ReceiverInv'
<1>1. /\ recRun.pc = "idle" /\ recRecord[r].config # Receivers!None
      /\ Receivers!Restored(r) /\ UNCHANGED <<recFoundAt, recKills>>
      /\ \E d : recRecord' = [recRecord EXCEPT ![r].deployed = d]
  <2>1. recRecord' = [recRecord EXCEPT ![r].deployed =
                          recRecord[r].deployed /\ recRecord[r].app = Receivers!None]
    BY DEF Receivers!Rollback
  <2> QED
    BY <2>1 DEF Receivers!Rollback, Receivers!At
<1>2. PICK d : recRecord' = [recRecord EXCEPT ![r].deployed = d]
  BY <1>1
<1>3. DOMAIN recRecord' = ReceiverReleases
  BY <1>2 DEF ReceiverInv, ReceiverTypes
<1>4. ASSUME NEW s \in ReceiverReleases
      PROVE  /\ recRecord'[s].config = recRecord[s].config
             /\ recRecord'[s].app = recRecord[s].app
             /\ recRecord'[s] = [config |-> recRecord'[s].config,
                                 app |-> recRecord'[s].app,
                                 signed |-> recRecord'[s].signed,
                                 deployed |-> recRecord'[s].deployed]
  <2>1. recRecord[s] = [config |-> recRecord[s].config, app |-> recRecord[s].app,
                        signed |-> recRecord[s].signed, deployed |-> recRecord[s].deployed]
    BY DEF ReceiverInv, ReceiverTypes
  <2>2. CASE s = r
    <3>1. recRecord'[s] = [recRecord[s] EXCEPT !.deployed = d]
      BY <1>2, <2>2 DEF ReceiverInv, ReceiverTypes
    <3> QED
      BY <2>1, <3>1
  <2>3. CASE s # r
    <3>1. recRecord'[s] = recRecord[s]
      BY <1>2, <2>3 DEF ReceiverInv, ReceiverTypes
    <3> QED
      BY <2>1, <3>1
  <2> QED
    BY <2>2, <2>3
<1> QED
  BY <1>1, <1>3, <1>4, RestoredKeeps

\* The script goes on to another place.
LEMMA GoesOn ==
    ASSUME ReceiverTypes, NEW place, Receivers!GoTo(place)
    PROVE  /\ recRun'.pc = place /\ recRun'.release = recRun.release
           /\ recRun' = [release |-> recRun'.release, pc |-> recRun'.pc]
<1>1. /\ recRun = [release |-> recRun.release, pc |-> recRun.pc]
      /\ recRun' = [recRun EXCEPT !.pc = place]
  BY DEF ReceiverTypes, Receivers!GoTo
<1> QED
  BY <1>1

\* What is noted of one release leaves what is noted of the others.
LEMMA NotedOfOne ==
    ASSUME ReceiverTypes, NEW r \in ReceiverReleases, NEW c, NEW a, NEW g, NEW d,
           recRecord' = [recRecord EXCEPT ![r] =
               [config |-> c, app |-> a, signed |-> g, deployed |-> d]],
           c # Receivers!None => Shaped(c)
    PROVE  /\ DOMAIN recRecord' = ReceiverReleases
           /\ recRecord'[r].config = c /\ recRecord'[r].app = a
           /\ \A s \in ReceiverReleases \ {r} : recRecord'[s] = recRecord[s]
           /\ \A s \in ReceiverReleases :
                 /\ recRecord'[s] = [config |-> recRecord'[s].config,
                                     app |-> recRecord'[s].app,
                                     signed |-> recRecord'[s].signed,
                                     deployed |-> recRecord'[s].deployed]
                 /\ recRecord'[s].config # Receivers!None => Shaped(recRecord'[s].config)
<1>1. /\ DOMAIN recRecord' = ReceiverReleases
      /\ recRecord'[r] = [config |-> c, app |-> a, signed |-> g, deployed |-> d]
      /\ \A s \in ReceiverReleases \ {r} : recRecord'[s] = recRecord[s]
  BY DEF ReceiverTypes
<1>2. /\ recRecord'[r].config = c /\ recRecord'[r].app = a
      /\ recRecord'[r].signed = g /\ recRecord'[r].deployed = d
  BY <1>1
<1>3. ASSUME NEW s \in ReceiverReleases
      PROVE  /\ recRecord'[s] = [config |-> recRecord'[s].config,
                                 app |-> recRecord'[s].app,
                                 signed |-> recRecord'[s].signed,
                                 deployed |-> recRecord'[s].deployed]
             /\ recRecord'[s].config # Receivers!None => Shaped(recRecord'[s].config)
  <2>1. CASE s = r
    BY <1>1, <1>2, <2>1
  <2>2. CASE s # r
    <3>1. recRecord'[s] = recRecord[s]
      BY <1>1, <2>2
    <3> QED
      BY <3>1 DEF ReceiverTypes
  <2> QED
    BY <2>1, <2>2
<1> QED
  BY <1>1, <1>2, <1>3

\* The snapshot is taken, and signed.
LEMMA Snapshots ==
    ASSUME ReceiverInv,
           Receivers!SnapshotConfig \/ Receivers!SnapshotModules \/ Receivers!Sign,
           UNCHANGED <<recConfig, recApp, recUp, recLast, recFoundAt, recKills>>
    PROVE  ReceiverInv'
<1> DEFINE r == recRun.release
<1>0. /\ ReceiverTypes /\ WorkIsRight /\ TogetherInv
      /\ recRun.pc \in {"config", "modules", "sign"}
  BY DEF ReceiverInv, Receivers!SnapshotConfig, Receivers!SnapshotModules, Receivers!Sign,
     Receivers!At
<1>1. /\ r \in ReceiverReleases /\ recLast = Receivers!None
      /\ recRecord[r] = [config |-> recRecord[r].config, app |-> recRecord[r].app,
                         signed |-> recRecord[r].signed,
                         deployed |-> recRecord[r].deployed]
  BY <1>0 DEF ReceiverTypes
<1>2. CASE Receivers!SnapshotConfig
  <2>1. /\ recRun.pc = "config" /\ Receivers!GoTo("modules")
        /\ recRecord' = [recRecord EXCEPT ![r].config = recConfig]
    BY <1>2 DEF Receivers!SnapshotConfig, Receivers!At
  <2>2. recRecord' = [recRecord EXCEPT ![r] =
            [config |-> recConfig, app |-> recRecord[r].app,
             signed |-> recRecord[r].signed, deployed |-> recRecord[r].deployed]]
    <3>1. [recRecord[r] EXCEPT !.config = recConfig] =
              [config |-> recConfig, app |-> recRecord[r].app,
               signed |-> recRecord[r].signed, deployed |-> recRecord[r].deployed]
      BY <1>1
    <3>2. recRecord' = [recRecord EXCEPT ![r] = [recRecord[r] EXCEPT !.config = recConfig]]
      BY <2>1
    <3> QED
      BY <3>1, <3>2
  <2>3. Shaped(recConfig)
    BY <1>0 DEF ReceiverTypes
  <2>4. /\ recRun'.pc = "modules" /\ recRun'.release = r
        /\ recRun' = [release |-> recRun'.release, pc |-> recRun'.pc]
    BY <1>0, <2>1, GoesOn
  <2>5. /\ DOMAIN recRecord' = ReceiverReleases
        /\ recRecord'[r].config = recConfig /\ recRecord'[r].app = recRecord[r].app
        /\ \A s \in ReceiverReleases \ {r} : recRecord'[s] = recRecord[s]
        /\ \A s \in ReceiverReleases :
              /\ recRecord'[s] = [config |-> recRecord'[s].config,
                                  app |-> recRecord'[s].app,
                                  signed |-> recRecord'[s].signed,
                                  deployed |-> recRecord'[s].deployed]
              /\ recRecord'[s].config # Receivers!None => Shaped(recRecord'[s].config)
    BY <1>0, <1>1, <2>2, <2>3, NotedOfOne
  <2> HIDE DEF r
  <2>6. ReceiverTypes'
    BY <1>0, <1>1, <2>4, <2>5 DEF ReceiverTypes, ReceiverPlaces, Shaped
  <2>7. /\ recRecord[r].app = Receivers!None
        /\ recFoundAt[r] = [config |-> recConfig, app |-> recApp]
    <3>1. SnapshotIsFound(r)
      BY <1>1 DEF ReceiverInv
    <3> QED
      BY <1>0, <2>1, <3>1 DEF WorkIsRight, SnapshotIsFound, r
  <2>8. WorkIsRight'
    BY <2>3, <2>4, <2>5, <2>7 DEF WorkIsRight, Shaped
  <2>9. ASSUME NEW s \in ReceiverReleases PROVE SnapshotIsFound(s)'
    BY <2>3, <2>5, <2>7 DEF ReceiverInv, SnapshotIsFound, Shaped
  <2>10. TogetherInv'
    BY <1>0, <2>1, <2>4, <2>5 DEF TogetherInv, Untouched, Belongs, r
  <2> QED
    BY <1>1, <2>6, <2>8, <2>9, <2>10 DEF ReceiverInv, LastReceiver
<1>3. CASE Receivers!SnapshotModules
  <2>1. /\ recRun.pc = "modules" /\ Receivers!GoTo("sign")
        /\ recRecord' = [recRecord EXCEPT ![r].app = recApp]
    BY <1>3 DEF Receivers!SnapshotModules, Receivers!At
  <2>2. recRecord' = [recRecord EXCEPT ![r] =
            [config |-> recRecord[r].config, app |-> recApp,
             signed |-> recRecord[r].signed, deployed |-> recRecord[r].deployed]]
    <3>1. [recRecord[r] EXCEPT !.app = recApp] =
              [config |-> recRecord[r].config, app |-> recApp,
               signed |-> recRecord[r].signed, deployed |-> recRecord[r].deployed]
      BY <1>1
    <3>2. recRecord' = [recRecord EXCEPT ![r] = [recRecord[r] EXCEPT !.app = recApp]]
      BY <2>1
    <3> QED
      BY <3>1, <3>2
  <2>3. recRecord[r].config = recConfig /\ Shaped(recConfig) /\ recFoundAt[r].app = recApp
    BY <1>0, <2>1 DEF ReceiverTypes, WorkIsRight
  <2>4. /\ recRun'.pc = "sign" /\ recRun'.release = r
        /\ recRun' = [release |-> recRun'.release, pc |-> recRun'.pc]
    BY <1>0, <2>1, GoesOn
  <2>5. /\ DOMAIN recRecord' = ReceiverReleases
        /\ recRecord'[r].config = recRecord[r].config /\ recRecord'[r].app = recApp
        /\ \A s \in ReceiverReleases \ {r} : recRecord'[s] = recRecord[s]
        /\ \A s \in ReceiverReleases :
              /\ recRecord'[s] = [config |-> recRecord'[s].config,
                                  app |-> recRecord'[s].app,
                                  signed |-> recRecord'[s].signed,
                                  deployed |-> recRecord'[s].deployed]
              /\ recRecord'[s].config # Receivers!None => Shaped(recRecord'[s].config)
    BY <1>0, <1>1, <2>2, <2>3, NotedOfOne
  <2> HIDE DEF r
  <2>6. ReceiverTypes'
    BY <1>0, <1>1, <2>4, <2>5 DEF ReceiverTypes, ReceiverPlaces, Shaped
  <2>7. recRecord'[r].config # Receivers!None
    BY <2>3, <2>5 DEF Shaped
  <2>8. WorkIsRight'
    BY <2>4, <2>7 DEF WorkIsRight
  <2>9. ASSUME NEW s \in ReceiverReleases PROVE SnapshotIsFound(s)'
    BY <1>1, <2>3, <2>5, <2>7 DEF ReceiverInv, SnapshotIsFound
  <2>10. TogetherInv'
    BY <1>0, <2>1, <2>3, <2>4, <2>5 DEF TogetherInv, Untouched, Belongs, r
  <2> QED
    BY <1>1, <2>6, <2>8, <2>9, <2>10 DEF ReceiverInv, LastReceiver
<1>4. CASE Receivers!Sign
  <2>0. /\ recRun.pc = "sign" /\ Receivers!GoTo("stop")
        /\ \E g : recRecord' = [recRecord EXCEPT ![r].signed = g]
    BY <1>4 DEF Receivers!Sign, Receivers!At
  <2>1. PICK g : /\ recRun.pc = "sign" /\ Receivers!GoTo("stop")
                 /\ recRecord' = [recRecord EXCEPT ![r].signed = g]
    BY <2>0
  <2>2. recRecord' = [recRecord EXCEPT ![r] =
            [config |-> recRecord[r].config, app |-> recRecord[r].app,
             signed |-> g, deployed |-> recRecord[r].deployed]]
    <3>1. [recRecord[r] EXCEPT !.signed = g] =
              [config |-> recRecord[r].config, app |-> recRecord[r].app,
               signed |-> g, deployed |-> recRecord[r].deployed]
      BY <1>1
    <3>2. recRecord' = [recRecord EXCEPT ![r] = [recRecord[r] EXCEPT !.signed = g]]
      BY <2>1
    <3> QED
      BY <3>1, <3>2
  <2>3. /\ recRecord[r].config # Receivers!None => Shaped(recRecord[r].config)
        /\ recRecord[r].config # Receivers!None
    BY <1>0, <1>1, <2>1 DEF ReceiverTypes, WorkIsRight
  <2>4. /\ recRun'.pc = "stop" /\ recRun'.release = r
        /\ recRun' = [release |-> recRun'.release, pc |-> recRun'.pc]
    BY <1>0, <2>1, GoesOn
  <2>5. /\ DOMAIN recRecord' = ReceiverReleases
        /\ recRecord'[r].config = recRecord[r].config
        /\ recRecord'[r].app = recRecord[r].app
        /\ \A s \in ReceiverReleases \ {r} : recRecord'[s] = recRecord[s]
        /\ \A s \in ReceiverReleases :
              /\ recRecord'[s] = [config |-> recRecord'[s].config,
                                  app |-> recRecord'[s].app,
                                  signed |-> recRecord'[s].signed,
                                  deployed |-> recRecord'[s].deployed]
              /\ recRecord'[s].config # Receivers!None => Shaped(recRecord'[s].config)
    BY <1>0, <1>1, <2>2, <2>3, NotedOfOne
  <2> HIDE DEF r
  <2>6. ReceiverTypes'
    BY <1>0, <1>1, <2>4, <2>5 DEF ReceiverTypes, ReceiverPlaces, Shaped
  <2>7. \A s \in ReceiverReleases : /\ recRecord'[s].config = recRecord[s].config
                                    /\ recRecord'[s].app = recRecord[s].app
    BY <1>1, <2>5
  <2>8. WorkIsRight'
    BY <1>1, <2>3, <2>4, <2>7 DEF WorkIsRight
  <2>9. ASSUME NEW s \in ReceiverReleases PROVE SnapshotIsFound(s)'
    BY <2>7 DEF ReceiverInv, SnapshotIsFound
  <2>10. TogetherInv'
    BY <1>0, <2>1, <2>4, <2>7 DEF TogetherInv, Untouched, Belongs
  <2> QED
    BY <1>1, <2>6, <2>8, <2>9, <2>10 DEF ReceiverInv, LastReceiver
<1> QED
  BY <1>2, <1>3, <1>4

\* A new configuration is written, or everything is put back.
LEMMA ReceiverConfigures ==
    ASSUME ReceiverInv, Receivers!Configure, UNCHANGED <<recFoundAt, recKills>>
    PROVE  ReceiverInv'
<1> DEFINE r == recRun.release
           new(t) == Receivers!Configured(recConfig, t, LiveChannels[r],
                                          RecordedChannels[r])
<1>1. /\ recRun.pc = "configure" /\ UNCHANGED recRecord
      /\ \/ Receivers!Restored(r)
         \/ \E t \in Receivers!Templates(r) :
               /\ Receivers!CanConfigure(recConfig, t, LiveChannels[r], RecordedChannels[r])
               /\ recConfig' = new(t) /\ Receivers!GoTo("install")
               /\ UNCHANGED <<recApp, recUp, recLast>>
  BY DEF Receivers!Configure, Receivers!At
<1>2. /\ ReceiverTypes /\ r \in ReceiverReleases /\ recLast = Receivers!None
      /\ recRecord[r].config # Receivers!None
  BY <1>1 DEF ReceiverInv, ReceiverTypes, WorkIsRight
<1>3. CASE Receivers!Restored(r)
  <2>1. DOMAIN recRecord' = ReceiverReleases
    BY <1>1, <1>2 DEF ReceiverTypes
  <2>2. \A s \in ReceiverReleases :
            recRecord'[s] = [config |-> recRecord'[s].config, app |-> recRecord'[s].app,
                             signed |-> recRecord'[s].signed,
                             deployed |-> recRecord'[s].deployed]
    BY <1>1, <1>2 DEF ReceiverTypes
  <2> QED
    BY <1>1, <1>2, <1>3, <2>1, <2>2, RestoredKeeps
<1>4. ASSUME NEW t \in Receivers!Templates(r),
             Receivers!CanConfigure(recConfig, t, LiveChannels[r], RecordedChannels[r]),
             recConfig' = new(t), Receivers!GoTo("install"),
             UNCHANGED <<recApp, recUp, recLast>>
      PROVE  ReceiverInv'
  <2>1. Shaped(t) /\ Shaped(recConfig)
    BY <1>2, <1>4 DEF Receivers!Templates, ReceiverTypes
  <2>2. Shaped(new(t)) /\ Receivers!Follows(new(t), r)
    BY <1>2, <1>4, <2>1, ConfiguredFollows
  <2>3. /\ recRun'.pc = "install" /\ recRun'.release = r
        /\ recRun' = [release |-> recRun'.release, pc |-> recRun'.pc]
    BY <1>2, <1>4, GoesOn
  <2> HIDE DEF r, new
  <2>4. ReceiverTypes'
    BY <1>1, <1>2, <1>4, <2>2, <2>3 DEF ReceiverTypes, ReceiverPlaces, Shaped
  <2>5. WorkIsRight'
    BY <1>1, <1>2, <1>4, <2>2, <2>3 DEF WorkIsRight, Receivers!Follows
  <2>6. TogetherInv'
    BY <1>1, <2>3 DEF ReceiverInv, TogetherInv, Untouched, Belongs
  <2>7. ASSUME NEW s \in ReceiverReleases PROVE SnapshotIsFound(s)'
    BY <1>1 DEF ReceiverInv, SnapshotIsFound
  <2> QED
    BY <1>2, <1>4, <2>4, <2>5, <2>6, <2>7 DEF ReceiverInv, LastReceiver
<1> QED
  BY <1>1, <1>3, <1>4

\* The services are stopped, the modules installed, the services started again, and the
\* release is marked.
LEMMA ReceiverGoesOn ==
    ASSUME ReceiverInv, UNCHANGED <<recFoundAt, recKills, recConfig>>,
           \/ Receivers!StopServices /\ UNCHANGED <<recApp, recRecord, recLast>>
           \/ Receivers!Install /\ UNCHANGED <<recRecord, recUp, recLast>>
           \/ Receivers!RestartServices /\ UNCHANGED <<recApp, recRecord, recLast>>
    PROVE  ReceiverInv'
<1> DEFINE r == recRun.release
<1>1. UNCHANGED <<recRecord, recLast>>
  OBVIOUS
<1>2. /\ recRun.pc \in {"stop", "install", "restart"}
      /\ recRun.pc = "stop" => Receivers!GoTo("configure") /\ UNCHANGED recApp
      /\ recRun.pc = "install" =>
            Receivers!GoTo("restart") /\ recApp' = Receivers!Named(r)
      /\ recRun.pc = "restart" =>
            Receivers!GoTo("finish") /\ recUp' = TRUE /\ UNCHANGED recApp
  BY DEF Receivers!StopServices, Receivers!Install, Receivers!RestartServices, Receivers!At
<1>3. ReceiverTypes /\ r \in ReceiverReleases /\ recLast = Receivers!None
  BY <1>2 DEF ReceiverInv, ReceiverTypes
<1>4. /\ recRun' = [release |-> recRun'.release, pc |-> recRun'.pc]
      /\ recRun'.release = r
      /\ recRun'.pc \in {"configure", "restart", "finish"}
      /\ recRun'.pc = "configure" <=> recRun.pc = "stop"
      /\ recRun'.pc = "restart" <=> recRun.pc = "install"
      /\ recRun'.pc = "finish" <=> recRun.pc = "restart"
  BY <1>2, <1>3, GoesOn
<1>5. ReceiverTypes'
  BY <1>1, <1>3, <1>4 DEF ReceiverTypes, ReceiverPlaces, Shaped
<1>6. WorkIsRight'
  <2>1. recRecord[r].config # Receivers!None
    BY <1>2 DEF ReceiverInv, WorkIsRight
  <2>2. recRun'.pc \in {"restart", "finish"} => /\ Receivers!Follows(recConfig, r)
                                                /\ recApp' = Receivers!Named(r)
    BY <1>2, <1>4 DEF ReceiverInv, WorkIsRight
  <2>3. recRun'.pc = "finish" => recUp'
    BY <1>2, <1>4
  <2> HIDE DEF r
  <2> QED
    BY <1>1, <1>4, <2>1, <2>2, <2>3 DEF WorkIsRight, Receivers!Follows
<1>7. TogetherInv'
  BY <1>1, <1>2, <1>4 DEF ReceiverInv, TogetherInv, Untouched, Belongs
<1>8. ASSUME NEW s \in ReceiverReleases PROVE SnapshotIsFound(s)'
  BY <1>1 DEF ReceiverInv, SnapshotIsFound
<1> QED
  BY <1>1, <1>3, <1>5, <1>6, <1>7, <1>8 DEF ReceiverInv, LastReceiver

LEMMA ReceiverFinishes ==
    ASSUME ReceiverInv, Receivers!Finish,
           UNCHANGED <<recConfig, recApp, recUp, recFoundAt, recKills>>
    PROVE  ReceiverInv'
<1> DEFINE r == recRun.release
<1>1. /\ recRun.pc = "finish" /\ recLast' = [applied |-> r]
      /\ recRun' = [release |-> Receivers!None, pc |-> "idle"]
      /\ \E d : recRecord' = [recRecord EXCEPT ![r].deployed = d]
  BY DEF Receivers!Finish, Receivers!At, Receivers!Idle
<1>2. PICK d : recRecord' = [recRecord EXCEPT ![r].deployed = d]
  BY <1>1
<1>3. /\ ReceiverTypes /\ r \in ReceiverReleases
      /\ recRecord[r] = [config |-> recRecord[r].config, app |-> recRecord[r].app,
                         signed |-> recRecord[r].signed,
                         deployed |-> recRecord[r].deployed]
      /\ recRecord[r].config # Receivers!None => Shaped(recRecord[r].config)
      /\ Receivers!Follows(recConfig, r) /\ recApp = Receivers!Named(r) /\ recUp
  BY <1>1 DEF ReceiverInv, ReceiverTypes, WorkIsRight
<1>4. recRecord' = [recRecord EXCEPT ![r] =
          [config |-> recRecord[r].config, app |-> recRecord[r].app,
           signed |-> recRecord[r].signed, deployed |-> d]]
  <2>1. [recRecord[r] EXCEPT !.deployed = d] =
            [config |-> recRecord[r].config, app |-> recRecord[r].app,
             signed |-> recRecord[r].signed, deployed |-> d]
    BY <1>3
  <2>2. recRecord' = [recRecord EXCEPT ![r] = [recRecord[r] EXCEPT !.deployed = d]]
    BY <1>2
  <2> QED
    BY <2>1, <2>2
<1>5. /\ DOMAIN recRecord' = ReceiverReleases
      /\ recRecord'[r].config = recRecord[r].config /\ recRecord'[r].app = recRecord[r].app
      /\ \A s \in ReceiverReleases \ {r} : recRecord'[s] = recRecord[s]
      /\ \A s \in ReceiverReleases :
            /\ recRecord'[s] = [config |-> recRecord'[s].config,
                                app |-> recRecord'[s].app,
                                signed |-> recRecord'[s].signed,
                                deployed |-> recRecord'[s].deployed]
            /\ recRecord'[s].config # Receivers!None => Shaped(recRecord'[s].config)
  BY <1>3, <1>4, NotedOfOne
<1> HIDE DEF r
<1>6. \A s \in ReceiverReleases : /\ recRecord'[s].config = recRecord[s].config
                                  /\ recRecord'[s].app = recRecord[s].app
  BY <1>5
<1>7. ReceiverTypes'
  BY <1>1, <1>3, <1>5 DEF ReceiverTypes, ReceiverPlaces, Shaped
<1>8. WorkIsRight'
  BY <1>1 DEF WorkIsRight
<1>9. ASSUME NEW s \in ReceiverReleases PROVE SnapshotIsFound(s)'
  BY <1>6 DEF ReceiverInv, SnapshotIsFound
<1>10. TogetherInv'
  <2>1. Belongs(recConfig, recApp)
    BY <1>3 DEF Belongs
  <2>2. recKills = 0 => \A s \in ReceiverReleases :
            recRecord[s].config # Receivers!None
            => Belongs(recRecord[s].config, recRecord[s].app)
    BY <1>1 DEF ReceiverInv, TogetherInv
  <2> QED
    BY <1>1, <1>3, <1>6, <2>1, <2>2 DEF TogetherInv, Belongs
<1>11. LastReceiver'
  <2>1. "applied" \in DOMAIN recLast' /\ recLast'.applied = r
    BY <1>1
  <2> QED
    BY <1>3, <2>1 DEF LastReceiver, Receivers!Follows
<1> QED
  BY <1>7, <1>8, <1>9, <1>10, <1>11 DEF ReceiverInv

LEMMA ReceiverSteps == ASSUME ReceiverInv, Receivers!Step PROVE ReceiverInv'
<1>1. UNCHANGED <<recFoundAt, recKills>>
  BY DEF Receivers!Step
<1>2. CASE /\ Receivers!SnapshotConfig \/ Receivers!SnapshotModules \/ Receivers!Sign
           /\ UNCHANGED <<recConfig, recApp, recUp, recLast>>
  BY <1>1, <1>2, Snapshots
<1>3. CASE Receivers!Configure
  BY <1>1, <1>3, ReceiverConfigures
<1>4. CASE Receivers!Finish /\ UNCHANGED <<recConfig, recApp, recUp>>
  BY <1>1, <1>4, ReceiverFinishes
<1> QED
  BY <1>1, <1>2, <1>3, <1>4, ReceiverGoesOn DEF Receivers!Step

\* A step that fails puts everything back.
LEMMA ReceiverStepFails == ASSUME ReceiverInv, Receivers!StepFails PROVE ReceiverInv'
<1>1. /\ recRun.pc \in {"stop", "configure", "install", "restart", "finish"}
      /\ Receivers!Restored(recRun.release)
      /\ UNCHANGED <<recRecord, recFoundAt, recKills>>
  BY DEF Receivers!StepFails
<1>2. /\ ReceiverTypes /\ recRun.release \in ReceiverReleases
      /\ recRecord[recRun.release].config # Receivers!None
  BY <1>1 DEF ReceiverInv, ReceiverTypes, WorkIsRight
<1>3. DOMAIN recRecord' = ReceiverReleases
  BY <1>1, <1>2 DEF ReceiverTypes
<1>4. \A s \in ReceiverReleases :
          recRecord'[s] = [config |-> recRecord'[s].config, app |-> recRecord'[s].app,
                           signed |-> recRecord'[s].signed,
                           deployed |-> recRecord'[s].deployed]
  BY <1>1, <1>2 DEF ReceiverTypes
<1> QED
  BY <1>1, <1>2, <1>3, <1>4, RestoredKeeps

\* A script that is killed leaves a snapshot that may be cut short.
LEMMA ReceiverKilled == ASSUME ReceiverInv, Receivers!Killed PROVE ReceiverInv'
<1> DEFINE r == recRun.release
<1>1. /\ recRun.pc # "idle" /\ recKills' = recKills + 1
      /\ recRun' = [release |-> Receivers!None, pc |-> "idle"]
      /\ UNCHANGED <<recConfig, recFoundAt, recLast>>
      /\ \E copied \in (IF recRun.pc = "modules" THEN {Receivers!None, Receivers!Mixed}
                        ELSE {recRecord[r].app}) :
            recRecord' = [recRecord EXCEPT ![r].app = copied]
  BY DEF Receivers!Killed, Receivers!At, Receivers!Idle
<1>2. PICK copied \in (IF recRun.pc = "modules" THEN {Receivers!None, Receivers!Mixed}
                       ELSE {recRecord[r].app}) :
          recRecord' = [recRecord EXCEPT ![r].app = copied]
  BY <1>1
<1>3. /\ ReceiverTypes /\ r \in ReceiverReleases /\ recLast = Receivers!None
      /\ recRecord[r] = [config |-> recRecord[r].config, app |-> recRecord[r].app,
                         signed |-> recRecord[r].signed,
                         deployed |-> recRecord[r].deployed]
      /\ recRecord[r].config # Receivers!None => Shaped(recRecord[r].config)
  BY <1>1 DEF ReceiverInv, ReceiverTypes
<1>4. recRecord' = [recRecord EXCEPT ![r] =
          [config |-> recRecord[r].config, app |-> copied,
           signed |-> recRecord[r].signed, deployed |-> recRecord[r].deployed]]
  <2>1. [recRecord[r] EXCEPT !.app = copied] =
            [config |-> recRecord[r].config, app |-> copied,
             signed |-> recRecord[r].signed, deployed |-> recRecord[r].deployed]
    BY <1>3
  <2>2. recRecord' = [recRecord EXCEPT ![r] = [recRecord[r] EXCEPT !.app = copied]]
    BY <1>2
  <2> QED
    BY <2>1, <2>2
<1>5. /\ DOMAIN recRecord' = ReceiverReleases
      /\ recRecord'[r].config = recRecord[r].config /\ recRecord'[r].app = copied
      /\ \A s \in ReceiverReleases \ {r} : recRecord'[s] = recRecord[s]
      /\ \A s \in ReceiverReleases :
            /\ recRecord'[s] = [config |-> recRecord'[s].config,
                                app |-> recRecord'[s].app,
                                signed |-> recRecord'[s].signed,
                                deployed |-> recRecord'[s].deployed]
            /\ recRecord'[s].config # Receivers!None => Shaped(recRecord'[s].config)
  BY <1>3, <1>4, NotedOfOne
<1>6. recKills \in Nat /\ recKills' \in Nat /\ recKills' # 0
  BY <1>1, <1>3 DEF ReceiverTypes
<1>7. recRun.pc = "modules" => recRecord[r].config # Receivers!None
  BY DEF ReceiverInv, WorkIsRight
<1>8. \/ copied = recRecord[r].app
      \/ recRun.pc = "modules" /\ copied \in {Receivers!None, Receivers!Mixed}
  <2>1. CASE recRun.pc = "modules"
    BY <2>1
  <2>2. CASE recRun.pc # "modules"
    BY <2>2
  <2> QED
    BY <2>1, <2>2
<1> HIDE DEF r
<1>9. ReceiverTypes'
  BY <1>1, <1>3, <1>5, <1>6 DEF ReceiverTypes, ReceiverPlaces, Shaped
<1>10. WorkIsRight'
  BY <1>1 DEF WorkIsRight
<1>11. ASSUME NEW s \in ReceiverReleases PROVE SnapshotIsFound(s)'
  <2>1. SnapshotIsFound(s)
    BY DEF ReceiverInv
  <2>2. recRecord'[s].config = recRecord[s].config
    BY <1>5
  <2>3. \/ recRecord'[s].app = recRecord[s].app
        \/ /\ recRecord'[s].app \in {Receivers!None, Receivers!Mixed}
           /\ recRecord[s].config # Receivers!None
    BY <1>5, <1>7, <1>8
  <2> QED
    BY <1>1, <2>1, <2>2, <2>3 DEF SnapshotIsFound
<1>12. TogetherInv'
  BY <1>6 DEF TogetherInv
<1>13. LastReceiver'
  BY <1>1, <1>3 DEF LastReceiver
<1> QED
  BY <1>9, <1>10, <1>11, <1>12, <1>13 DEF ReceiverInv

\* Every step, and what follows.
LEMMA ReceiversStep == ASSUME ReceiverInv, ReceiversNext PROVE ReceiverInv'
BY ReceiverBegins, ReceiverRollsBack, ReceiverSteps, ReceiverStepFails, ReceiverKilled
   DEF ReceiversNext

LEMMA ReceiversAreRight == ReceiverInv => Receivers!ReceiverMatchesModules
<1> SUFFICES ASSUME ReceiverInv PROVE Receivers!ReceiverMatchesModules
  OBVIOUS
<1>1. ASSUME recKills = 0, recRun.pc = "idle"
      PROVE  recUp /\ Receivers!Follows(recConfig, recApp.release)
  <2>1. recUp /\ Belongs(recConfig, recApp)
    BY <1>1 DEF ReceiverInv, TogetherInv, Untouched
  <2> QED
    BY <2>1, NamedIs DEF Belongs
<1> QED
  BY <1>1 DEF ReceiverInv, LastReceiver, Receivers!ReceiverMatchesModules, Receivers!At

-----------------------------------------------------------------------------
(* The scope of the budget.                                                *)

ScopeNext ==
    \/ \E apply \in BOOLEAN : Scope!Begin(apply)
    \/ Scope!Step \/ Scope!Fails
    \/ \E key \in ProjectKeys \cup OtherKeys : Scope!EditTag(key)
    \/ Scope!EditBudget

TagsOfKeys == [ProjectKeys \cup OtherKeys -> {"none", "project", "other"}]

\* The places at which the tags that were read still are to be written,
DnsIsRead == {"read bucket", "read budget", "plan", "tag dns"}
BucketIsRead == {"read budget", "plan", "tag dns", "tag bucket"}

\* and those at which they were.
Verifies == {"verify budget", "verify notifications", "verify dns", "verify bucket"}
DnsIsTagged == {"tag bucket", "apply"} \cup Verifies
BucketIsTagged == {"apply"} \cup Verifies

ScopePlaces == {"idle", "read dns"} \cup DnsIsRead \cup DnsIsTagged

ScopeTypes ==
    /\ costDns \in TagsOfKeys /\ costBucket \in TagsOfKeys
    /\ costBudget = [scope |-> costBudget.scope, limit |-> costBudget.limit,
                     notifications |-> costBudget.notifications]
    /\ costRun = [pc |-> costRun.pc, apply |-> costRun.apply, dns |-> costRun.dns,
                  bucket |-> costRun.bucket, notifications |-> costRun.notifications,
                  plan |-> costRun.plan]
    /\ costRun.pc \in ScopePlaces
    /\ costRun.pc \in DnsIsRead \cup DnsIsTagged => costRun.dns \in TagsOfKeys
    /\ costRun.pc \in BucketIsRead \cup BucketIsTagged => costRun.bucket \in TagsOfKeys

\* What was set by others since it was read is noted as such.
SetSince(where, now, read) ==
    \A key \in ProjectKeys \cup OtherKeys :
        now[key] = "other" /\ read[key] # "other" => <<where, key>> \in costFresh

LostInv ==
    /\ costLost \subseteq costFresh
    /\ \A key \in OtherKeys : <<"dns", key>> \notin costLost
    /\ costRun.pc \in DnsIsRead =>
          ~Scope!Conflicts(costRun.dns) /\ SetSince("dns", costDns, costRun.dns)
    /\ costRun.pc \in BucketIsRead =>
          ~Scope!Conflicts(costRun.bucket) /\ SetSince("bucket", costBucket, costRun.bucket)

\* What a release that meets nobody finds, plans and leaves.
QuietInv ==
    costQuiet =>
        /\ costRun.pc \in DnsIsRead => costDns = costRun.dns
        /\ costRun.pc \in BucketIsRead => costBucket = costRun.bucket
        /\ costRun.pc \in DnsIsTagged => costDns = Scope!Tagged(costRun.dns)
        /\ costRun.pc \in BucketIsTagged => costBucket = Scope!Tagged(costRun.bucket)
        /\ costRun.pc \in {"plan", "tag dns"} \cup DnsIsTagged =>
              costRun.notifications = costBudget.notifications
        /\ costRun.pc \in {"tag dns", "tag bucket", "apply"} =>
              /\ Scope!Valid(costBudget)
              /\ costRun.plan = "no-op" => costBudget = Scope!Described
        /\ costRun.pc \in Verifies => costBudget = Scope!Described
        /\ costRun.pc = "idle" =>
              /\ costOutcome # "failed"
              /\ costOutcome = "verified" =>
                    /\ costBudget = Scope!Described
                    /\ costDns = Scope!Tagged(costDns)
                    /\ costBucket = Scope!Tagged(costBucket)
              /\ costOutcome = "conflict" =>
                    Scope!Conflicts(costDns) \/ Scope!Conflicts(costBucket)
              /\ costOutcome = "refused" => ~Scope!Valid(costBudget)

ScopeInv == ScopeTypes /\ LostInv /\ QuietInv

LEMMA ScopeInit == ASSUME Scope!Init PROVE ScopeInv
<1>1. /\ costDns \in TagsOfKeys /\ costBucket \in TagsOfKeys
      /\ costRun = Scope!Idle /\ costOutcome = "none"
      /\ costFresh = {} /\ costLost = {}
      /\ \E scope \in {"none", "project", "other"} :
            costBudget = [scope |-> scope, limit |-> CostLimit,
                          notifications |-> Notifications]
  BY DEF Scope!Init, Scope!Keys, TagsOfKeys, Scope!Described
<1>2. ScopeTypes
  BY <1>1 DEF ScopeTypes, Scope!Idle, ScopePlaces, DnsIsRead, DnsIsTagged, BucketIsRead,
     BucketIsTagged, Verifies
<1>3. costRun.pc = "idle"
  BY <1>1 DEF Scope!Idle
<1> QED
  BY <1>1, <1>2, <1>3 DEF ScopeInv, LostInv, QuietInv, DnsIsRead, DnsIsTagged,
     BucketIsRead, BucketIsTagged, Verifies

\* Tagging is idempotent, and takes nothing from the keys of others.
LEMMA TaggedIs ==
    ASSUME NEW tags \in TagsOfKeys
    PROVE  /\ Scope!Tagged(tags) \in TagsOfKeys
           /\ Scope!Tagged(Scope!Tagged(tags)) = Scope!Tagged(tags)
           /\ \A key \in ProjectKeys : Scope!Tagged(tags)[key] = "project"
           /\ \A key \in OtherKeys : Scope!Tagged(tags)[key] = tags[key]
BY ScopeAssumption DEF Scope!Tagged, Scope!Keys, TagsOfKeys

\* Steps that write nothing overwrite nothing.
LEMMA NothingLost ==
    ASSUME ScopeTypes, UNCHANGED <<costDns, costBucket>>
    PROVE  Scope!Overwritten = {}
BY DEF Scope!Overwritten

\* A release begins, fails, and others edit.
LEMMA ScopeBegins == ASSUME ScopeInv, NEW a \in BOOLEAN, Scope!Begin(a) PROVE ScopeInv'
<1>1. /\ costRun' = [pc |-> "read dns", apply |-> a, dns |-> Scope!None,
                     bucket |-> Scope!None, notifications |-> Scope!None, plan |-> "none"]
      /\ costFresh' = {} /\ costLost' = {}
      /\ UNCHANGED <<costDns, costBucket, costBudget>>
  BY DEF Scope!Begin, Scope!Idle
<1> QED
  BY <1>1 DEF ScopeInv, ScopeTypes, LostInv, QuietInv, DnsIsRead, DnsIsTagged,
     BucketIsRead, BucketIsTagged, Verifies, ScopePlaces

LEMMA ScopeFails == ASSUME ScopeInv, Scope!Fails PROVE ScopeInv'
<1>1. /\ costRun' = Scope!Idle /\ costQuiet' = FALSE
      /\ UNCHANGED <<costDns, costBucket, costBudget, costFresh, costLost>>
  BY DEF Scope!Fails, Scope!Ends
<1> QED
  BY <1>1 DEF ScopeInv, ScopeTypes, LostInv, QuietInv, DnsIsRead, DnsIsTagged,
     BucketIsRead, BucketIsTagged, Verifies, ScopePlaces, Scope!Idle

LEMMA OthersEdit ==
    ASSUME ScopeInv,
           Scope!EditBudget \/ \E key \in ProjectKeys \cup OtherKeys : Scope!EditTag(key)
    PROVE  ScopeInv'
<1>1. costQuiet' = FALSE /\ UNCHANGED <<costRun, costLost>>
  BY DEF Scope!EditBudget, Scope!EditTag, Scope!Edits
<1>2. CASE Scope!EditBudget
  <2>1. /\ UNCHANGED <<costDns, costBucket, costFresh>>
        /\ \/ costBudget' = [costBudget EXCEPT !.limit = @ + 1]
           \/ costBudget' = [costBudget EXCEPT !.notifications = @ + 1]
    BY <1>2 DEF Scope!EditBudget
  <2>2. ScopeTypes'
    BY <1>1, <2>1 DEF ScopeInv, ScopeTypes
  <2> QED
    BY <1>1, <2>1, <2>2 DEF ScopeInv, LostInv, QuietInv, SetSince
<1>3. ASSUME NEW key \in ProjectKeys \cup OtherKeys, Scope!EditTag(key)
      PROVE  ScopeInv'
  <2>1. /\ UNCHANGED costBudget
        /\ \/ /\ costDns' = [costDns EXCEPT ![key] = "other"]
              /\ costFresh' = costFresh \cup {<<"dns", key>>} /\ UNCHANGED costBucket
           \/ /\ costBucket' = [costBucket EXCEPT ![key] = "other"]
              /\ costFresh' = costFresh \cup {<<"bucket", key>>} /\ UNCHANGED costDns
    BY <1>3 DEF Scope!EditTag
  <2>2. ScopeTypes'
    BY <1>1, <2>1 DEF ScopeInv, ScopeTypes, TagsOfKeys
  <2>3. ASSUME NEW read, SetSince("dns", costDns, read)
        PROVE  SetSince("dns", costDns, read)'
    BY <2>1, <2>3 DEF SetSince, ScopeInv, ScopeTypes, TagsOfKeys
  <2>4. ASSUME NEW read, SetSince("bucket", costBucket, read)
        PROVE  SetSince("bucket", costBucket, read)'
    BY <2>1, <2>4 DEF SetSince, ScopeInv, ScopeTypes, TagsOfKeys
  <2>5. LostInv'
    BY <1>1, <2>1, <2>3, <2>4 DEF ScopeInv, LostInv
  <2> QED
    BY <1>1, <2>2, <2>5 DEF ScopeInv, QuietInv
<1> QED
  BY <1>2, <1>3

\* The steps that read and judge.
LEMMA ScopeReads ==
    ASSUME ScopeInv, UNCHANGED <<costDns, costBucket, costBudget, costFresh, costLost,
                                 costQuiet>>,
           \/ Scope!ReadDns \/ Scope!ReadBucket \/ Scope!ReadNotifications \/ Scope!Plan
           \/ Scope!VerifyBudget \/ Scope!VerifyNotifications \/ Scope!VerifyDns
           \/ Scope!VerifyBucket
    PROVE  ScopeInv'
<1> USE DEF DnsIsRead, DnsIsTagged, BucketIsRead, BucketIsTagged, Verifies, ScopePlaces,
        Scope!At
<1>0. /\ costDns \in TagsOfKeys /\ costBucket \in TagsOfKeys
      /\ costRun = [pc |-> costRun.pc, apply |-> costRun.apply, dns |-> costRun.dns,
                    bucket |-> costRun.bucket, notifications |-> costRun.notifications,
                    plan |-> costRun.plan]
      /\ ScopeTypes
  BY DEF ScopeInv, ScopeTypes
<1>1. ASSUME NEW how, Scope!Ends(how),
             costQuiet =>
                /\ how # "failed"
                /\ how = "verified" =>
                      /\ costBudget = Scope!Described
                      /\ costDns = Scope!Tagged(costDns)
                      /\ costBucket = Scope!Tagged(costBucket)
                /\ how = "conflict" =>
                      Scope!Conflicts(costDns) \/ Scope!Conflicts(costBucket)
                /\ how = "refused" => ~Scope!Valid(costBudget)
      PROVE  ScopeInv'
  <2>1. /\ costOutcome' = how
        /\ costRun' = [pc |-> "idle", apply |-> FALSE, dns |-> Scope!None,
                       bucket |-> Scope!None, notifications |-> Scope!None,
                       plan |-> "none"]
    BY <1>1 DEF Scope!Ends, Scope!Idle
  <2>2. ScopeTypes'
    BY <2>1 DEF ScopeInv, ScopeTypes
  <2>3. LostInv'
    BY <2>1 DEF ScopeInv, LostInv
  <2>4. QuietInv'
    BY <1>1, <2>1 DEF QuietInv, Scope!Conflicts, Scope!Valid
  <2> QED
    BY <2>2, <2>3, <2>4 DEF ScopeInv
<1>2. CASE Scope!ReadDns
  <2>1. CASE Scope!Conflicts(costDns)
    BY <1>1, <1>2, <2>1 DEF Scope!ReadDns
  <2>2. CASE ~Scope!Conflicts(costDns)
    <3>1. /\ costRun.pc = "read dns"
          /\ costRun' = [costRun EXCEPT !.pc = "read bucket", !.dns = costDns]
      BY <1>2, <2>2 DEF Scope!ReadDns
    <3>2. ScopeTypes'
      BY <1>0, <3>1 DEF ScopeTypes
    <3>3. costRun'.pc = "read bucket" /\ costRun'.dns = costDns
      BY <1>0, <3>1
    <3> QED
      BY <2>2, <3>1, <3>2, <3>3 DEF ScopeInv, LostInv, QuietInv, SetSince, Scope!Conflicts
  <2> QED
    BY <2>1, <2>2
<1>3. CASE Scope!ReadBucket
  <2>1. CASE Scope!Conflicts(costBucket)
    BY <1>1, <1>3, <2>1 DEF Scope!ReadBucket
  <2>2. CASE ~Scope!Conflicts(costBucket)
    <3>1. /\ costRun.pc = "read bucket"
          /\ costRun' = [costRun EXCEPT !.pc = "read budget", !.bucket = costBucket]
      BY <1>3, <2>2 DEF Scope!ReadBucket
    <3>2. ScopeTypes'
      BY <1>0, <3>1 DEF ScopeTypes
    <3>3. /\ costRun'.pc = "read budget" /\ costRun'.bucket = costBucket
          /\ costRun'.dns = costRun.dns
      BY <1>0, <3>1
    <3> QED
      BY <2>2, <3>1, <3>2, <3>3 DEF ScopeInv, LostInv, QuietInv, SetSince, Scope!Conflicts
  <2> QED
    BY <2>1, <2>2
<1>4. CASE Scope!ReadNotifications
  <2>1. /\ costRun.pc = "read budget"
        /\ costRun' = [costRun EXCEPT !.pc = "plan",
                                      !.notifications = costBudget.notifications]
    BY <1>4 DEF Scope!ReadNotifications
  <2>2. ScopeTypes'
    BY <1>0, <2>1 DEF ScopeTypes
  <2>3. /\ costRun'.pc = "plan" /\ costRun'.bucket = costRun.bucket
        /\ costRun'.dns = costRun.dns
        /\ costRun'.notifications = costBudget.notifications
    BY <1>0, <2>1
  <2> QED
    BY <2>1, <2>2, <2>3 DEF ScopeInv, LostInv, QuietInv, SetSince, Scope!Conflicts
<1>5. CASE Scope!Plan
  <2>1. CASE ~Scope!Valid(costBudget)
    BY <1>1, <1>5, <2>1 DEF Scope!Plan
  <2>2. CASE Scope!Valid(costBudget) /\ ~costRun.apply
    BY <1>1, <1>5, <2>2 DEF Scope!Plan
  <2>3. CASE Scope!Valid(costBudget) /\ costRun.apply
    <3>1. /\ costRun.pc = "plan"
          /\ costRun' = [costRun EXCEPT !.pc = "tag dns",
                 !.plan = IF costBudget = Scope!Described THEN "no-op" ELSE "update"]
      BY <1>5, <2>3 DEF Scope!Plan
    <3>2. ScopeTypes'
      BY <1>0, <3>1 DEF ScopeTypes
    <3>3. /\ costRun'.pc = "tag dns" /\ costRun'.bucket = costRun.bucket
          /\ costRun'.dns = costRun.dns /\ costRun'.notifications = costRun.notifications
          /\ costRun'.plan = "no-op" => costBudget = Scope!Described
      BY <1>0, <3>1
    <3> QED
      BY <2>3, <3>1, <3>2, <3>3
         DEF ScopeInv, LostInv, QuietInv, SetSince, Scope!Conflicts, Scope!Valid
  <2> QED
    BY <2>1, <2>2, <2>3
<1>6. ASSUME NEW place \in {"verify notifications", "verify dns", "verify bucket"},
             Scope!GoTo(place), costRun.pc \in Verifies
      PROVE  ScopeInv'
  <2>1. /\ costRun'.pc = place /\ costRun'.bucket = costRun.bucket
        /\ costRun'.dns = costRun.dns /\ costRun'.notifications = costRun.notifications
        /\ costRun' = [costRun EXCEPT !.pc = place]
    BY <1>0, <1>6 DEF Scope!GoTo
  <2>2. ScopeTypes'
    BY <1>0, <1>6, <2>1 DEF ScopeTypes
  <2> QED
    BY <1>6, <2>1, <2>2 DEF ScopeInv, LostInv, QuietInv
<1>7. CASE Scope!VerifyBudget
  <2>1. costRun.pc = "verify budget"
    BY <1>7 DEF Scope!VerifyBudget
  <2>2. costQuiet => costBudget.scope = "project"
    <3>1. costQuiet => costBudget = Scope!Described
      BY <2>1 DEF ScopeInv, QuietInv
    <3>2. Scope!Described.scope = "project"
      BY DEF Scope!Described
    <3> QED
      BY <3>1, <3>2
  <2> QED
    BY <1>1, <1>6, <1>7, <2>1, <2>2 DEF Scope!VerifyBudget
<1>8. CASE Scope!VerifyNotifications
  <2>1. costRun.pc = "verify notifications"
    BY <1>8 DEF Scope!VerifyNotifications
  <2>2. costQuiet => costBudget.notifications = costRun.notifications
    BY <2>1 DEF ScopeInv, QuietInv
  <2> QED
    BY <1>1, <1>6, <1>8, <2>1, <2>2 DEF Scope!VerifyNotifications
<1>9. CASE Scope!VerifyDns
  <2>1. costRun.pc = "verify dns"
    BY <1>9 DEF Scope!VerifyDns
  <2>2. costQuiet => costDns = Scope!Tagged(costRun.dns)
    BY <2>1 DEF ScopeInv, QuietInv
  <2> QED
    BY <1>1, <1>6, <1>9, <2>1, <2>2 DEF Scope!VerifyDns
<1>10. CASE Scope!VerifyBucket
  <2>1. costRun.pc = "verify bucket"
    BY <1>10 DEF Scope!VerifyBucket
  <2>2. costRun.dns \in TagsOfKeys /\ costRun.bucket \in TagsOfKeys
    BY <1>0, <2>1 DEF ScopeTypes
  <2>3. costQuiet => /\ costDns = Scope!Tagged(costRun.dns)
                     /\ costBucket = Scope!Tagged(costRun.bucket)
                     /\ costBudget = Scope!Described
    BY <2>1 DEF ScopeInv, QuietInv
  <2>4. costQuiet => /\ costDns = Scope!Tagged(costDns)
                     /\ costBucket = Scope!Tagged(costBucket)
    BY <2>2, <2>3, TaggedIs
  <2> QED
    BY <1>1, <1>10, <2>3, <2>4 DEF Scope!VerifyBucket
<1> QED
  BY <1>2, <1>3, <1>4, <1>5, <1>7, <1>8, <1>9, <1>10

\* The zone's tags are added to those it has.
LEMMA ScopeTagsDns ==
    ASSUME ScopeInv, Scope!TagDns, costLost' = costLost \cup Scope!Overwritten,
           UNCHANGED <<costBucket, costBudget, costFresh, costQuiet>>
    PROVE  ScopeInv'
<1> USE DEF DnsIsRead, DnsIsTagged, BucketIsRead, BucketIsTagged, Verifies, ScopePlaces
<1>1. /\ costRun.pc = "tag dns" /\ costRun' = [costRun EXCEPT !.pc = "tag bucket"]
      /\ costDns' = IF Scope!Tagged(costRun.dns) # costRun.dns
                    THEN Scope!Tagged(costDns) ELSE costDns
  BY DEF Scope!TagDns, Scope!At, Scope!GoTo
<1>2. /\ costDns \in TagsOfKeys /\ costRun.dns \in TagsOfKeys /\ ScopeTypes
      /\ costRun = [pc |-> costRun.pc, apply |-> costRun.apply, dns |-> costRun.dns,
                    bucket |-> costRun.bucket, notifications |-> costRun.notifications,
                    plan |-> costRun.plan]
  BY <1>1 DEF ScopeInv, ScopeTypes
<1>3. /\ costRun'.pc = "tag bucket" /\ costRun'.bucket = costRun.bucket
      /\ costRun'.dns = costRun.dns /\ costRun'.notifications = costRun.notifications
      /\ costRun'.plan = costRun.plan
  BY <1>1, <1>2
<1>4. costDns' \in TagsOfKeys
  BY <1>1, <1>2, TaggedIs
<1>5. ScopeTypes'
  BY <1>1, <1>2, <1>4 DEF ScopeTypes
<1>6. ASSUME NEW x \in Scope!Overwritten
      PROVE  x \in costFresh /\ \A key \in OtherKeys : x # <<"dns", key>>
  <2>1. PICK key \in ProjectKeys \cup OtherKeys :
            x = <<"dns", key>> /\ costDns[key] = "other" /\ costDns'[key] # "other"
    BY <1>6 DEF Scope!Overwritten, Scope!Keys
  <2>2. costDns'[key] = Scope!Tagged(costDns)[key]
    BY <1>1, <2>1
  <2>3. key \in ProjectKeys /\ key \notin OtherKeys
    BY <1>2, <2>1, <2>2, TaggedIs, ScopeAssumption
  <2>4. costRun.dns[key] # "other"
    BY <1>1, <2>3 DEF ScopeInv, LostInv, Scope!Conflicts
  <2>5. x \in costFresh
    BY <1>1, <2>1, <2>4 DEF ScopeInv, LostInv, SetSince
  <2> QED
    BY <2>1, <2>3, <2>5
<1>7. LostInv'
  BY <1>1, <1>3, <1>6 DEF ScopeInv, LostInv, SetSince, Scope!Conflicts
<1>8. costQuiet => costDns' = Scope!Tagged(costRun.dns)
  BY <1>1 DEF ScopeInv, QuietInv
<1>9. QuietInv'
  BY <1>1, <1>3, <1>8 DEF ScopeInv, QuietInv, Scope!Valid
<1> QED
  BY <1>5, <1>7, <1>9 DEF ScopeInv

\* The bucket's are replaced.
LEMMA ScopeTagsBucket ==
    ASSUME ScopeInv, Scope!TagBucket, costLost' = costLost \cup Scope!Overwritten,
           UNCHANGED <<costDns, costBudget, costFresh, costQuiet>>
    PROVE  ScopeInv'
<1> USE DEF DnsIsRead, DnsIsTagged, BucketIsRead, BucketIsTagged, Verifies, ScopePlaces
<1>1. /\ costRun.pc = "tag bucket" /\ costRun' = [costRun EXCEPT !.pc = "apply"]
      /\ costBucket' = IF Scope!Tagged(costRun.bucket) # costRun.bucket
                       THEN Scope!Tagged(costRun.bucket) ELSE costBucket
  BY DEF Scope!TagBucket, Scope!TagsToPut, Scope!At, Scope!GoTo
<1>2. /\ costBucket \in TagsOfKeys /\ costRun.bucket \in TagsOfKeys /\ ScopeTypes
      /\ costRun = [pc |-> costRun.pc, apply |-> costRun.apply, dns |-> costRun.dns,
                    bucket |-> costRun.bucket, notifications |-> costRun.notifications,
                    plan |-> costRun.plan]
  BY <1>1 DEF ScopeInv, ScopeTypes
<1>3. /\ costRun'.pc = "apply" /\ costRun'.bucket = costRun.bucket
      /\ costRun'.dns = costRun.dns /\ costRun'.notifications = costRun.notifications
      /\ costRun'.plan = costRun.plan
  BY <1>1, <1>2
<1>4. costBucket' \in TagsOfKeys
  BY <1>1, <1>2, TaggedIs
<1>5. ScopeTypes'
  BY <1>1, <1>2, <1>4 DEF ScopeTypes
<1>6. ASSUME NEW x \in Scope!Overwritten
      PROVE  x \in costFresh /\ \A key \in OtherKeys : x # <<"dns", key>>
  <2>1. PICK key \in ProjectKeys \cup OtherKeys :
            x = <<"bucket", key>> /\ costBucket[key] = "other" /\ costBucket'[key] # "other"
    BY <1>6 DEF Scope!Overwritten, Scope!Keys
  <2>2. costBucket'[key] = Scope!Tagged(costRun.bucket)[key]
    BY <1>1, <2>1
  <2>3. ASSUME key \in OtherKeys PROVE costRun.bucket[key] # "other"
    BY <1>2, <2>1, <2>2, <2>3, TaggedIs
  <2>4. ASSUME key \in ProjectKeys PROVE costRun.bucket[key] # "other"
    BY <1>1, <2>4 DEF ScopeInv, LostInv, Scope!Conflicts
  <2>5. x \in costFresh
    BY <1>1, <2>1, <2>3, <2>4 DEF ScopeInv, LostInv, SetSince
  <2> QED
    BY <2>1, <2>5
<1>7. LostInv'
  BY <1>1, <1>3, <1>6 DEF ScopeInv, LostInv
<1>8. costQuiet => costBucket' = Scope!Tagged(costRun.bucket)
  BY <1>1 DEF ScopeInv, QuietInv
<1>9. QuietInv'
  BY <1>1, <1>3, <1>8 DEF ScopeInv, QuietInv, Scope!Valid
<1> QED
  BY <1>5, <1>7, <1>9 DEF ScopeInv

\* The budget is written, but for its notifications.
LEMMA ScopeApplies ==
    ASSUME ScopeInv, Scope!Apply, UNCHANGED <<costDns, costBucket, costFresh, costLost,
                                              costQuiet>>
    PROVE  ScopeInv'
<1> USE DEF DnsIsRead, DnsIsTagged, BucketIsRead, BucketIsTagged, Verifies, ScopePlaces
<1>1. /\ costRun.pc = "apply" /\ costRun' = [costRun EXCEPT !.pc = "verify budget"]
      /\ costBudget' = IF costRun.plan = "no-op" THEN costBudget
                       ELSE [Scope!Described
                                EXCEPT !.notifications = costBudget.notifications]
  BY DEF Scope!Apply, Scope!At, Scope!GoTo
<1>2. /\ ScopeTypes
      /\ costRun = [pc |-> costRun.pc, apply |-> costRun.apply, dns |-> costRun.dns,
                    bucket |-> costRun.bucket, notifications |-> costRun.notifications,
                    plan |-> costRun.plan]
      /\ costBudget = [scope |-> costBudget.scope, limit |-> costBudget.limit,
                       notifications |-> costBudget.notifications]
  BY DEF ScopeInv, ScopeTypes
<1>3. /\ costRun'.pc = "verify budget" /\ costRun'.bucket = costRun.bucket
      /\ costRun'.dns = costRun.dns /\ costRun'.notifications = costRun.notifications
  BY <1>1, <1>2
<1>4. /\ costBudget'.notifications = costBudget.notifications
      /\ costBudget' = [scope |-> costBudget'.scope, limit |-> costBudget'.limit,
                        notifications |-> costBudget'.notifications]
  BY <1>1, <1>2 DEF Scope!Described
<1>5. ScopeTypes'
  BY <1>1, <1>2, <1>4 DEF ScopeTypes
<1>6. LostInv'
  BY <1>1, <1>3 DEF ScopeInv, LostInv
<1>7. costQuiet => costBudget' = Scope!Described
  <2>1. costQuiet => /\ [costBudget EXCEPT !.scope = "project"] = Scope!Described
                     /\ costRun.plan = "no-op" => costBudget = Scope!Described
    BY <1>1 DEF ScopeInv, QuietInv, Scope!Valid
  <2>2. costQuiet => costBudget.notifications = Notifications
    BY <1>2, <2>1 DEF Scope!Described
  <2> QED
    BY <1>1, <2>1, <2>2 DEF Scope!Described
<1>8. QuietInv'
  BY <1>1, <1>3, <1>4, <1>7 DEF ScopeInv, QuietInv
<1> QED
  BY <1>5, <1>6, <1>8 DEF ScopeInv

\* Every step, and what follows.
LEMMA ScopeStep == ASSUME ScopeInv, ScopeNext PROVE ScopeInv'
<1>1. CASE Scope!Step
  <2>1. costLost' = costLost \cup Scope!Overwritten /\ UNCHANGED <<costFresh, costQuiet>>
    BY <1>1 DEF Scope!Step
  <2>2. ASSUME UNCHANGED <<costDns, costBucket>> PROVE costLost' = costLost
    BY <2>1, <2>2, NothingLost DEF ScopeInv
  <2> QED
    BY <1>1, <2>1, <2>2, ScopeReads, ScopeTagsDns, ScopeTagsBucket, ScopeApplies
       DEF Scope!Step
<1> QED
  BY <1>1, ScopeBegins, ScopeFails, OthersEdit DEF ScopeNext

LEMMA ScopeIsRight == ScopeInv => Scope!BudgetIsScoped
BY DEF ScopeInv, LostInv, QuietInv, Scope!BudgetIsScoped, Scope!At

-----------------------------------------------------------------------------
\* Nothing changes while another component is at work.
LEMMA CdnStutters == ASSUME CdnInv, UNCHANGED CdnVars PROVE CdnInv'
<1>1. UNCHANGED <<cdnCdn, cdnRecord, cdnOp, cdnPlan, cdnFound, cdnLast, cdnOwn, cdnCrossed>>
  BY DEF CdnVars
<1>2. ASSUME NEW s \in CdnReleases PROVE Planned(s)' /\ Noted(s)'
  <2>1. Planned(s) /\ Noted(s)
    BY DEF CdnInv
  <2>2. Cdn!Target(s)' = Cdn!Target(s) /\ Cdn!Introduced(s)' = Cdn!Introduced(s)
    BY <1>1 DEF Cdn!Target, Cdn!Without, Cdn!Introduced
  <2>3. \A b, a : Cdn!Valid(s, b, a)' <=> Cdn!Valid(s, b, a)
    BY <1>1 DEF Cdn!Valid
  <2> QED
    BY <1>1, <2>1, <2>2, <2>3 DEF Planned, Noted, Good
<1>3. \A s \in CdnReleases : OwnIsNoted(s)'
  BY <1>1, RoutesStay
<1> QED
  BY <1>1, <1>2, <1>3 DEF CdnInv, CdnTypes, Good, LastIsRight, Cdn!Introduced

LEMMA ReceiversStutter == ASSUME ReceiverInv, UNCHANGED ReceiversVars PROVE ReceiverInv'
<1>1. UNCHANGED <<recConfig, recApp, recRecord, recRun, recUp, recFoundAt, recLast,
                  recKills>>
  BY DEF ReceiversVars
<1>2. ReceiverTypes'
  BY <1>1 DEF ReceiverInv, ReceiverTypes, ReceiverPlaces, Shaped
<1>3. WorkIsRight' /\ TogetherInv' /\ LastReceiver'
  BY <1>1 DEF ReceiverInv, WorkIsRight, TogetherInv, LastReceiver, Belongs
<1>4. ASSUME NEW s \in ReceiverReleases PROVE SnapshotIsFound(s)'
  BY <1>1 DEF ReceiverInv, SnapshotIsFound
<1> QED
  BY <1>2, <1>3, <1>4 DEF ReceiverInv

LEMMA ScopeStutters == ASSUME ScopeInv, UNCHANGED BudgetVars PROVE ScopeInv'
<1>1. UNCHANGED <<costDns, costBucket, costBudget, costRun, costOutcome, costFresh,
                  costLost, costQuiet>>
  BY DEF BudgetVars
<1>2. ScopeTypes' /\ LostInv'
  BY <1>1 DEF ScopeInv, ScopeTypes, LostInv, SetSince, Scope!Conflicts
<1>3. QuietInv'
  BY <1>1 DEF ScopeInv, QuietInv, Scope!Valid, Scope!Tagged, Scope!Conflicts
<1> QED
  BY <1>2, <1>3 DEF ScopeInv

\* Whatever is released, put back, refused or cut short, by whom and in what order: the
\* routes that are not live, the receiver's channels and modules, and what others have
\* set of the tags and the budget stay or come back as they should (deploy_live_cdn.py,
\* apply_asr_receiver.sh, receiver_config.py, scope_monthly_cost_budget.py).
THEOREM ReleasesAreRightAlways == OperationsSpec => []ReleasesAreRight
<1> DEFINE Inv == /\ part = "cdn" => CdnInv
                  /\ part = "receivers" => ReceiverInv
                  /\ part = "budget" => ScopeInv
<1>1. HostInit => Inv
  BY CdnInit, ReceiverInit, ScopeInit DEF HostInit
<1>2. Inv /\ [HostNext]_allVars => Inv'
  <2> SUFFICES ASSUME Inv, [HostNext]_allVars PROVE Inv'
    OBVIOUS
  <2>1. ASSUME part' = "cdn" PROVE CdnInv'
    <3>1. part = "cdn" /\ (CdnNext \/ UNCHANGED CdnVars)
      BY <2>1 DEF HostNext, Only, allVars, CdnNext
    <3> QED
      BY <3>1, CdnStep, CdnStutters
  <2>2. ASSUME part' = "receivers" PROVE ReceiverInv'
    <3>1. part = "receivers" /\ (ReceiversNext \/ UNCHANGED ReceiversVars)
      BY <2>2 DEF HostNext, Only, allVars, ReceiversNext
    <3> QED
      BY <3>1, ReceiversStep, ReceiversStutter
  <2>3. ASSUME part' = "budget" PROVE ScopeInv'
    <3>1. part = "budget" /\ (ScopeNext \/ UNCHANGED BudgetVars)
      BY <2>3 DEF HostNext, Only, allVars, ScopeNext
    <3> QED
      BY <3>1, ScopeStep, ScopeStutters
  <2> QED
    BY <2>1, <2>2, <2>3
<1>3. Inv => ReleasesAreRight
  BY CdnIsRight, ReceiversAreRight, ScopeIsRight DEF ReleasesAreRight
<1> QED
  BY <1>1, <1>2, <1>3, PTL DEF OperationsSpec

-----------------------------------------------------------------------------
(* The jobs of the public site.                                            *)

ExportPlaces == {"preserve", "clear", "restore analysis", "restore clips",
                 "choose", "manifest", "snapshot"}
SyncPlaces   == {"clips", "analysis", "recent", "copy operations", "commit"}
DeployPlaces == {"verify", "deploy", "invalidate"} \cup SyncPlaces
HeldPlaces   == ExportPlaces \cup DeployPlaces
                \cup {"operations", "keep manifest", "set aside", "swap in"}
PlacesOf(j)  == ExportPlaces \cup DeployPlaces \cup {"idle"}
                \cup (IF j = "fast" THEN {"operations"}
                      ELSE {"export", "keep manifest", "analyse", "analyse text",
                            "set aside", "swap in", "done"})

\* The place of the job that holds the lock.
Where == IF lock = "free" THEN "free" ELSE pc[lock]

-----------------------------------------------------------------------------
Files  == Whole(LastWeek) \cup Whole(ThisWeek)
Audio  == [Clips -> {"none", "torn", "whole"}]
Manifests == [gen : Int, clips : SUBSET Clips]
Sites  == [analysis : SUBSET Files, audio : Audio, manifest : Manifests,
           recent : Int, operations : Int]

Productions ==
    [analysis : SUBSET Files, audio : Audio, manifest : Manifests,
     recent : Int, operations : Int, release : SUBSET Sites]

TypeOK ==
    /\ listed \subseteq Clips
    /\ out \in Sites
    /\ kept \in [analysis : SUBSET Files, audio : Audio]
    /\ chosen \in [next : Int, clips : SUBSET Clips]
    /\ cache \in BOOLEAN
    /\ prod \in Productions
    /\ lock \in Jobs \cup {"free"}
    /\ DOMAIN pc = Jobs
    /\ marks \subseteq {"export", "analysis", "refresh"}
    /\ work \subseteq Whole(ThisWeek)
    /\ previous \subseteq Files
    /\ published \in BOOLEAN /\ damaged \in BOOLEAN
    /\ stops \in Nat

\* Exactly the holder of the lock is at a place where files are touched.
LockInv ==
    /\ \A j \in Jobs : pc[j] \in PlacesOf(j)
    /\ \A j \in Jobs : lock = j <=> pc[j] \in HeldPlaces

IsWhole(analysis) == \E w \in {LastWeek, ThisWeek} : analysis = Whole(w)

\* While it is not in the output directory, the analysis is put aside.
AnalysisInv ==
    ~damaged =>
        /\ Where \notin {"restore analysis", "swap in"} => IsWhole(out.analysis)
        /\ Where \in {"clear", "restore analysis"} => IsWhole(kept.analysis)

\* What the weekly job swaps in is the whole analysis of this week.
WorkInv ==
    /\ pc["lexical"] = "analyse text" => <<"index", ThisWeek>> \in work
    /\ "analysis" \in marks /\ "refresh" \notin marks => work = Whole(ThisWeek)
    /\ pc["lexical"] \in {"set aside", "swap in"} => work = Whole(ThisWeek)
    /\ "refresh" \in marks => pc["lexical"] = "idle"

\* Production has had the week's analysis when the weekly job is past it.
WeekInv ==
    /\ prod.analysis = Whole(ThisWeek) => published
    /\ \A release \in prod.release : release.analysis = Whole(ThisWeek) => published
    /\ pc["lexical"] \in DeployPlaces => out.analysis = Whole(ThisWeek)
    /\ pc["lexical"] \in {"recent", "copy operations", "commit", "invalidate", "done"}
           => published
    /\ "refresh" \in marks => published

\* An output directory with a snapshot of the operations is one finished export's.
Finished ==
    out.operations # None =>
        /\ out.manifest.gen > 0 /\ out.recent = out.manifest.gen
        /\ out.manifest.clips \subseteq Has(out)

ExportInv ==
    /\ Finished
    /\ Where \in {"restore analysis", "restore clips", "choose", "manifest"} =>
           out.manifest = Sample /\ out.operations = None
    /\ Where = "choose" => chosen.next \in Clips \cup {None}
    /\ Where \in {"choose", "manifest"} => chosen.clips \subseteq Has(out)
    /\ Where \in {"snapshot", "operations"} =>
           /\ out.manifest.gen > 0 /\ out.operations = None
           /\ out.manifest.clips \subseteq Has(out)
    /\ Where = "operations" => out.recent = out.manifest.gen
    /\ Where \in SyncPlaces => Deployable /\ prod.release # {Artifacts(out)}

\* What was synced before this place.
SentInv ==
    /\ Where \in SyncPlaces \ {"clips"} => prod.audio = out.audio
    /\ Where \in SyncPlaces \ {"clips", "analysis"} => prod.analysis = out.analysis
    /\ Where \in {"copy operations", "commit"} => prod.recent = out.recent
    /\ Where = "commit" => prod.operations = out.operations

\* There is one release at most, and its manifest is the one in production.
OneRelease ==
    /\ \A r, s \in prod.release : r = s
    /\ \A release \in prod.release : release.manifest = prod.manifest

\* What was released is still in the output directory while its manifest is.
AgreesInv ==
    \A release \in prod.release :
        release.manifest.gen = out.manifest.gen =>
            /\ release.audio = out.audio /\ release.manifest = out.manifest
            /\ release.recent = out.recent /\ release.operations = out.operations

\* The hourly job's manifest is a new one until it is committed.
NewInv ==
    /\ Where = "snapshot" => out.manifest.gen # prod.manifest.gen
    /\ pc["fast"] \in {"operations", "verify", "deploy"} \cup SyncPlaces
           => out.manifest.gen # prod.manifest.gen

\* The release of the week's analysis stays whole until its manifest is replaced.
WholeInv ==
    \A release \in prod.release :
        /\ release.analysis = Whole(ThisWeek)
        /\ release.manifest.gen = out.manifest.gen
        => Artifacts(prod) = release

InvariantOfData ==
    /\ AnalysisInv /\ WorkInv /\ WeekInv /\ ExportInv /\ SentInv
    /\ ReleaseIsConsistent /\ OneRelease /\ AgreesInv /\ NewInv /\ WholeInv

SiteInv == TypeOK /\ LockInv /\ InvariantOfData

-----------------------------------------------------------------------------
(* Facts about the operators.                                              *)

\* The newest of them is one of them.
LEMMA NewestIsThere ==
    ASSUME NEW S, S \subseteq Nat, IsFiniteSet(S), S # {}
    PROVE  Newest(S) \in S
BY GreatestExists DEF Newest

LEMMA NextIsListed ==
    ASSUME TypeOK
    PROVE  /\ NextOf(listed) \in Clips \cup {None}
           /\ \A c : NextOf(Before(c)) \in Clips \cup {None}
  <1>1. ASSUME NEW S, S \subseteq listed
        PROVE  NextOf(S) \in Clips \cup {None}
    <2>1. S \subseteq Clips /\ IsFiniteSet(S) /\ S \subseteq Nat
      BY <1>1, SiteAssumption, FS_Subset DEF TypeOK
    <2> QED
      BY <2>1, NewestIsThere DEF NextOf
  <1> QED
    BY <1>1 DEF Before

\* An export's generated_at is none that is still in use.
LEMMA GenerationIsNew ==
    /\ NewGeneration \in Generations
    /\ NewGeneration # out.manifest.gen /\ NewGeneration # prod.manifest.gen
  <1>1. \A a, b, c, d : \E g \in Generations : g \notin {a, b, c, d}
    BY DEF Generations
  <1> QED
    BY <1>1 DEF NewGeneration

LEMMA GotoMoves ==
    ASSUME TypeOK, NEW j \in Jobs, NEW place, Goto(j, place)
    PROVE  /\ DOMAIN pc' = Jobs /\ pc'[j] = place
           /\ \A i \in Jobs \ {j} : pc'[i] = pc[i]
  BY DEF TypeOK, Goto

LEMMA WholeIsNotEmpty ==
    /\ \A w : Whole(w) # {}
    /\ Whole(LastWeek) # Whole(ThisWeek)
    /\ Whole(ThisWeek) \subseteq Files /\ Whole(LastWeek) \subseteq Files
  <1>1. Whole(LastWeek) # Whole(ThisWeek)
    <2>1. /\ <<"index", ThisWeek>> \in Whole(ThisWeek)
          /\ <<"index", ThisWeek>> \notin Whole(LastWeek)
      BY DEF Whole, LastWeek, ThisWeek
    <2> QED
      BY <2>1
  <1>2. \A w : Whole(w) # {}
    BY DEF Whole
  <1> QED
    BY <1>1, <1>2 DEF Files

-----------------------------------------------------------------------------
(* What a job leaves that ends early.                                      *)

LEMMA HalfDoneLeaves ==
    ASSUME TypeOK, NEW j \in Jobs, NEW left \in HalfDone(j)
    PROVE  /\ left \in Sites
           /\ ~Endangers(j) => left.analysis = out.analysis
           /\ pc[j] \notin {"clear", "restore clips", "choose"} => left.audio = out.audio
           /\ pc[j] # "clear" =>
                 left.manifest = out.manifest /\ left.operations = out.operations
           /\ pc[j] \notin {"clear", "snapshot"} => left.recent = out.recent
           /\ pc[j] = "clear" => left.manifest.gen <= 0 /\ left.operations = None
  <1> USE DEF TypeOK, Endangers
  <1>0. out \in Sites /\ kept.analysis \subseteq Files /\ kept.audio \in Audio
    OBVIOUS
  <1>1. CASE pc[j] = "clear"
    <2>1. PICK A \in SUBSET out.analysis, a \in AudioLeft(out.audio, NoAudio),
               m \in {NoManifest, Sample} :
             left = [analysis |-> A, audio |-> a, manifest |-> m,
                     recent |-> None, operations |-> None]
      BY <1>1 DEF HalfDone, HalfCleared
    <2>2. A \subseteq Files /\ a \in Audio /\ m \in Manifests /\ m.gen <= 0
      BY DEF Sites, AudioLeft, Audio, NoManifest, Sample, Manifests, None
    <2> QED
      BY <1>1, <2>1, <2>2 DEF Sites, None
  <1>2. CASE pc[j] = "restore analysis"
    <2>0. HalfDone(j) = PartOfAnalysis(kept.analysis)
      BY <1>2 DEF HalfDone
    <2>1. PICK A \in SUBSET kept.analysis : left = [out EXCEPT !.analysis = A]
      BY <2>0 DEF PartOfAnalysis
    <2> QED
      BY <1>0, <1>2, <2>1 DEF Sites
  <1>3. CASE pc[j] = "restore clips"
    <2>0. HalfDone(j) = PartOfClips
      BY <1>3 DEF HalfDone
    <2>1. PICK a \in AudioLeft(out.audio, kept.audio) : left = [out EXCEPT !.audio = a]
      BY <2>0 DEF PartOfClips
    <2>2. a \in Audio
      BY DEF AudioLeft, Audio
    <2> QED
      BY <1>0, <1>3, <2>1, <2>2 DEF Sites
  <1>4. CASE pc[j] = "choose"
    <2>1. left \in {out, [out EXCEPT !.audio[chosen.next] = "torn"]}
      BY <1>4 DEF HalfDone, PartOfClip
    <2>2. CASE left = out
      BY <1>0, <1>4, <2>2
    <2>3. CASE left = [out EXCEPT !.audio[chosen.next] = "torn"]
      <3>1. [out.audio EXCEPT ![chosen.next] = "torn"] \in Audio
        BY <1>0 DEF Sites, Audio
      <3>2. left = [out EXCEPT !.audio = [out.audio EXCEPT ![chosen.next] = "torn"]]
        BY <2>3, <1>0 DEF Sites
      <3> QED
        BY <1>0, <1>4, <3>1, <3>2 DEF Sites
    <2> QED
      BY <2>1, <2>2, <2>3
  <1>5. CASE pc[j] = "snapshot"
    <2>1. left \in {out, [out EXCEPT !.recent = Torn]}
      BY <1>5 DEF HalfDone
    <2> QED
      BY <1>0, <1>5, <2>1 DEF Sites, Torn
  <1>6. CASE pc[j] = "swap in"
    <2>0. HalfDone(j) = PartOfAnalysis(work)
      BY <1>6 DEF HalfDone
    <2>1. PICK A \in SUBSET work : left = [out EXCEPT !.analysis = A]
      BY <2>0 DEF PartOfAnalysis
    <2> QED
      BY <1>0, <1>6, <2>1, WholeIsNotEmpty DEF Sites
  <1>7. CASE pc[j] \notin {"clear", "restore analysis", "restore clips", "choose",
                           "snapshot", "swap in"}
    <2>0. HalfDone(j) = {out}
      BY <1>7 DEF HalfDone
    <2>1. left = out
      BY <2>0
    <2> QED
      BY <1>0, <1>7, <2>1
  <1> QED
    BY <1>1, <1>2, <1>3, <1>4, <1>5, <1>6, <1>7

LEMMA HalfSentLeaves ==
    ASSUME TypeOK, NEW j \in Jobs, NEW sent \in HalfSent(j)
    PROVE  /\ sent \in Productions
           /\ pc[j] # "clips" => sent.audio = prod.audio
           /\ pc[j] # "analysis" => sent.analysis = prod.analysis
           /\ sent.manifest = prod.manifest /\ sent.release = prod.release
           /\ sent.recent = prod.recent /\ sent.operations = prod.operations
  <1> USE DEF TypeOK
  <1>0. prod \in Productions /\ out \in Sites
    OBVIOUS
  <1>1. CASE pc[j] = "clips"
    <2>1. PICK a \in [Clips -> {"none", "torn", "whole"}] :
              sent = [prod EXCEPT !.audio = a]
      BY <1>1 DEF HalfSent
    <2> QED
      BY <1>0, <1>1, <2>1 DEF Productions, Audio
  <1>2. CASE pc[j] = "analysis"
    <2>1. PICK A \in SUBSET (prod.analysis \cup out.analysis) :
              sent = [prod EXCEPT !.analysis = A]
      BY <1>2 DEF HalfSent
    <2>2. A \subseteq Files
      BY <1>0 DEF Productions, Sites
    <2> QED
      BY <1>0, <1>2, <2>1, <2>2 DEF Productions
  <1>3. CASE pc[j] \notin {"clips", "analysis"}
    <2>1. sent = prod
      BY <1>3 DEF HalfSent
    <2> QED
      BY <1>0, <1>3, <2>1
  <1> QED
    BY <1>1, <1>2, <1>3

\* A job that ends early has changed nothing that it had no business with.
Ended(j) ==
    /\ pc[j] # "idle" /\ pc'[j] = "idle" /\ \A i \in Jobs \ {j} : pc'[i] = pc[i]
    /\ lock' = IF lock = j THEN "free" ELSE lock
    /\ lock # j => kept' = kept /\ chosen' = chosen
    /\ ~Endangers(j) => out'.analysis = out.analysis \/ out.analysis = {}
    /\ pc[j] \notin {"clear", "restore clips", "choose"} => out'.audio = out.audio
    /\ pc[j] # "clear" => out'.manifest = out.manifest /\ out'.operations = out.operations
    /\ pc[j] \notin {"clear", "snapshot"} => out'.recent = out.recent
    /\ pc[j] = "clear" => out'.manifest.gen <= 0 /\ out'.operations = None
    /\ pc[j] # "clips" => prod'.audio = prod.audio
    /\ pc[j] # "analysis" => prod'.analysis = prod.analysis
    /\ prod'.manifest = prod.manifest /\ prod'.release = prod.release
    /\ prod'.recent = prod.recent /\ prod'.operations = prod.operations
    /\ published' = (published \/ prod'.analysis = Whole(ThisWeek))
    /\ damaged' = (damaged \/ Endangers(j))
    /\ marks' = marks /\ work' = work

LEMMA EndLeaves ==
    ASSUME TypeOK, NEW j \in Jobs, NEW trapped \in BOOLEAN,
           NEW left \in HalfDone(j), NEW sent \in HalfSent(j),
           End(j, left, sent, trapped), damaged' = (damaged \/ Endangers(j)),
           stops' \in Nat, pc[j] # "idle"
    PROVE  TypeOK' /\ Ended(j)
  <1>1. /\ left \in Sites
        /\ ~Endangers(j) => left.analysis = out.analysis
        /\ pc[j] \notin {"clear", "restore clips", "choose"} => left.audio = out.audio
        /\ pc[j] # "clear" =>
              left.manifest = out.manifest /\ left.operations = out.operations
        /\ pc[j] \notin {"clear", "snapshot"} => left.recent = out.recent
        /\ pc[j] = "clear" => left.manifest.gen <= 0 /\ left.operations = None
    BY HalfDoneLeaves
  <1>2. PICK A : out' = [left EXCEPT !.analysis = A]
                 /\ A = IF trapped THEN Cleaned(left.analysis) ELSE left.analysis
    BY <1>1 DEF End, Sites
  <1>3. A = left.analysis \/ (left.analysis = {} /\ A = previous)
    BY <1>2 DEF Cleaned
  <1>4. /\ out'.analysis = A /\ out'.audio = left.audio /\ out'.manifest = left.manifest
        /\ out'.recent = left.recent /\ out'.operations = left.operations
    BY <1>1, <1>2 DEF Sites
  <1>5. out' \in Sites
    BY <1>1, <1>2, <1>3 DEF TypeOK, Sites
  <1>6. /\ sent \in Productions
        /\ pc[j] # "clips" => sent.audio = prod.audio
        /\ pc[j] # "analysis" => sent.analysis = prod.analysis
        /\ sent.manifest = prod.manifest /\ sent.release = prod.release
        /\ sent.recent = prod.recent /\ sent.operations = prod.operations
    BY HalfSentLeaves
  <1>7. prod' = sent
    BY DEF End
  <1>8. DOMAIN pc' = Jobs /\ pc'[j] = "idle" /\ \A i \in Jobs \ {j} : pc'[i] = pc[i]
    <2>1. Goto(j, "idle")
      BY DEF End
    <2> QED
      BY <2>1, GotoMoves
  <1>9. /\ lock' = IF lock = j THEN "free" ELSE lock
        /\ lock # j => kept' = kept /\ chosen' = chosen
        /\ published' = (published \/ prod'.analysis = Whole(ThisWeek))
        /\ marks' = marks /\ work' = work /\ listed' = listed /\ cache' = cache
        /\ previous' \in {previous, {}}
    BY <1>7 DEF End
  <1>10. kept' \in [analysis : SUBSET Files, audio : Audio]
         /\ chosen' \in [next : Int, clips : SUBSET Clips]
    BY DEF End, TypeOK, NoAudio, Audio, None
  <1>11. TypeOK'
    BY <1>5, <1>6, <1>7, <1>8, <1>9, <1>10 DEF TypeOK, Endangers
  <1>12. ~Endangers(j) => out'.analysis = out.analysis \/ out.analysis = {}
    BY <1>1, <1>3, <1>4
  <1>13. Ended(j)
    BY <1>1, <1>4, <1>6, <1>7, <1>8, <1>9, <1>12 DEF Ended
  <1> QED
    BY <1>11, <1>13

LEMMA StopEnds ==
    ASSUME TypeOK, NEW j \in Jobs, Stop(j)
    PROVE  TypeOK' /\ Ended(j)
  <1>1. PICK left \in HalfDone(j), sent \in HalfSent(j), trapped \in BOOLEAN :
            End(j, left, sent, trapped)
    BY DEF Stop
  <1>2. stops' \in Nat
    BY DEF Stop, TypeOK
  <1> QED
    BY <1>1, <1>2, EndLeaves DEF Stop

LEMMA RefuseEnds ==
    ASSUME TypeOK, NEW j \in Jobs, Refuse(j)
    PROVE  TypeOK' /\ Ended(j)
  <1>1. pc[j] \in {"verify", "deploy"}
    BY DEF Refuse, At
  <1>2. out \in HalfDone(j) /\ prod \in HalfSent(j)
    BY <1>1 DEF HalfDone, HalfSent
  <1>3. End(j, out, prod, j = "lexical") /\ damaged' = damaged /\ stops' = stops
    BY DEF Refuse
  <1>4. damaged' = (damaged \/ Endangers(j)) /\ stops' \in Nat /\ damaged \in BOOLEAN
    BY <1>1, <1>3 DEF Endangers, TypeOK
  <1> QED
    BY <1>1, <1>2, <1>3, <1>4, EndLeaves

-----------------------------------------------------------------------------
(* Types.                                                                  *)

LEMMA InitTyped == Init => TypeOK
  <1> SUFFICES ASSUME Init PROVE TypeOK
    OBVIOUS
  <1>1. NoAudio \in Audio /\ Sample \in Manifests /\ NoManifest \in Manifests
    BY DEF NoAudio, Audio, Sample, NoManifest, Manifests, None
  <1>2. out \in Sites /\ prod \in Productions
    BY <1>1, WholeIsNotEmpty DEF Init, Sites, Productions, None
  <1>3. kept \in [analysis : SUBSET Files, audio : Audio]
        /\ chosen \in [next : Int, clips : SUBSET Clips]
    BY <1>1 DEF Init
  <1> QED
    BY <1>2, <1>3 DEF Init, TypeOK

LEMMA ArtifactsTyped ==
    ASSUME TypeOK
    PROVE  Artifacts(out) \in Sites
  BY DEF TypeOK, Sites, Artifacts

LEMMA ExportTyped ==
    ASSUME TypeOK, ExportInv, NEW j \in Jobs, ExportStep(j)
    PROVE  TypeOK'
  <1>0. /\ out \in Sites /\ kept.analysis \subseteq Files /\ kept.audio \in Audio
        /\ chosen \in [next : Int, clips : SUBSET Clips] /\ listed \subseteq Clips
        /\ kept \in [analysis : SUBSET Files, audio : Audio]
    BY DEF TypeOK
  <1>1. \A place, then : Export(j, place, then) =>
            /\ DOMAIN pc' = Jobs
            /\ UNCHANGED <<listed, cache, prod, lock, marks, work, previous,
                           published, stops, damaged>>
    BY GotoMoves DEF Export, weekly
  <1>2. SUFFICES
          /\ out' \in Sites
          /\ kept' \in [analysis : SUBSET Files, audio : Audio]
          /\ chosen' \in [next : Int, clips : SUBSET Clips]
          /\ \E place, then : Export(j, place, then)
    BY <1>1 DEF TypeOK
  <1>3. NoAudio \in Audio /\ Sample \in Manifests /\ None \in Int
    BY DEF NoAudio, Audio, Sample, Manifests, None
  <1>4. NextOf(listed) \in Int /\ \A c : NextOf(Before(c)) \in Int
    <2>1. Clips \cup {None} \subseteq Int
      BY <1>3, SiteAssumption
    <2> QED
      BY <2>1, NextIsListed
  <1>5. CASE Preserve(j)
    BY <1>0, <1>3, <1>5 DEF Preserve, Sites
  <1>6. CASE ClearOutput(j)
    BY <1>0, <1>3, <1>6 DEF ClearOutput, Sites
  <1>7. CASE RestoreAnalysis(j)
    BY <1>0, <1>7 DEF RestoreAnalysis, Sites
  <1>8. CASE RestoreClips(j)
    BY <1>0, <1>4, <1>8 DEF RestoreClips, Sites
  <1>9. CASE ChooseClip(j)
    <2>1. PICK a : out' = [out EXCEPT !.audio = [out.audio EXCEPT ![chosen.next] = a]]
                   /\ a \in {"whole", out.audio[chosen.next]}
      BY <1>9, <1>0 DEF ChooseClip, Sites
    <2>2. [out.audio EXCEPT ![chosen.next] = a] \in Audio
      BY <2>1, <1>0 DEF Sites, Audio
    <2>3. out' \in Sites
      BY <2>1, <2>2, <1>0 DEF Sites
    <2>4. chosen' = [next |-> NextOf(Before(chosen.next)), clips |-> chosen'.clips]
          /\ chosen'.clips \subseteq chosen.clips \cup {chosen.next}
      BY <1>9 DEF ChooseClip
    <2>5. chosen.next \in Clips
      BY <1>9 DEF ChooseClip, Chooses, Export, At, ExportInv, Where, Jobs
    <2> QED
      BY <1>0, <1>4, <1>9, <2>3, <2>4, <2>5 DEF ChooseClip
  <1>10. CASE RemoveUnused(j)
    <2>1. [c \in Clips |-> IF c \in chosen.clips THEN out.audio[c] ELSE "none"] \in Audio
      BY <1>0 DEF Sites, Audio
    <2> QED
      BY <1>0, <1>10, <2>1 DEF RemoveUnused, Sites
  <1>11. CASE WriteManifest(j)
    <2>1. [gen |-> NewGeneration, clips |-> chosen.clips] \in Manifests
      BY <1>0, GenerationIsNew DEF Manifests, Generations
    <2> QED
      BY <1>0, <1>11, <2>1 DEF WriteManifest, Sites
  <1>12. CASE WriteSnapshot(j)
    <2>1. out.manifest.gen \in Int
      BY <1>0 DEF Sites, Manifests
    <2> QED
      BY <1>0, <1>3, <1>12, <2>1 DEF WriteSnapshot, Sites
  <1> QED
    BY <1>5, <1>6, <1>7, <1>8, <1>9, <1>10, <1>11, <1>12 DEF ExportStep

LEMMA DeployTyped ==
    ASSUME TypeOK, NEW j \in Jobs, DeployStep(j)
    PROVE  TypeOK'
  <1>0. out \in Sites /\ prod \in Productions /\ Artifacts(out) \in Sites
    BY ArtifactsTyped DEF TypeOK
  <1>1. CASE Verify(j)
    BY <1>1, GotoMoves DEF Verify, TypeOK, weekly
  <1>2. CASE Invalidate(j)
    <2>1. Goto(j, IF j = "fast" THEN "idle" ELSE "done")
      BY <1>2 DEF Invalidate
    <2> QED
      BY <1>2, <2>1, GotoMoves DEF Invalidate, TypeOK, weekly
  <1>3. CASE Refuse(j)
    BY <1>3, RefuseEnds
  <1>4. ASSUME NEW place, NEW then, Deploy(j, place, then),
               prod' \in Productions, published' \in BOOLEAN
        PROVE  TypeOK'
    <2>1. DOMAIN pc' = Jobs
      BY <1>4, GotoMoves DEF Deploy
    <2> QED
      BY <1>4, <2>1 DEF Deploy, TypeOK, weekly
  <1>5. CASE StartDeploy(j)
    <2>1. PICK then : Deploy(j, "deploy", then)
      BY <1>5 DEF StartDeploy
    <2> QED
      BY <1>0, <1>4, <1>5, <2>1 DEF StartDeploy, TypeOK
  <1>6. CASE SyncClips(j)
    <2>1. prod' \in Productions
      BY <1>0, <1>6 DEF SyncClips, Sites, Productions
    <2> QED
      BY <1>4, <1>6, <2>1 DEF SyncClips, TypeOK
  <1>7. CASE SyncAnalysis(j)
    <2>1. prod' \in Productions
      BY <1>0, <1>7 DEF SyncAnalysis, Sites, Productions
    <2> QED
      BY <1>4, <1>7, <2>1 DEF SyncAnalysis, TypeOK
  <1>8. CASE CopyRecent(j)
    <2>1. prod' \in Productions
      BY <1>0, <1>8 DEF CopyRecent, Sites, Productions
    <2> QED
      BY <1>4, <1>8, <2>1 DEF CopyRecent, TypeOK
  <1>9. CASE CopyOperations(j)
    <2>1. prod' \in Productions
      BY <1>0, <1>9 DEF CopyOperations, Sites, Productions
    <2> QED
      BY <1>4, <1>9, <2>1 DEF CopyOperations, TypeOK
  <1>10. CASE Commit(j)
    <2>1. prod' \in Productions
      <3>1. out.manifest \in Manifests /\ {Artifacts(out)} \in SUBSET Sites
        BY <1>0 DEF Sites
      <3> QED
        BY <1>0, <1>10, <3>1 DEF Commit, Productions
    <2> QED
      BY <1>4, <1>10, <2>1 DEF Commit, TypeOK
  <1> QED
    BY <1>1, <1>2, <1>3, <1>5, <1>6, <1>7, <1>8, <1>9, <1>10 DEF DeployStep

LEMMA WeeklyTyped ==
    ASSUME TypeOK,
           BeginLexical \/ LockForExport \/ LockForSwap \/ LexicalStep
    PROVE  TypeOK'
  <1> USE DEF Jobs
  <1>0. out \in Sites /\ "lexical" \in Jobs
    BY DEF TypeOK
  <1>1. ASSUME NEW place, NEW then, Lexical(place, then)
        PROVE  /\ DOMAIN pc' = Jobs
               /\ UNCHANGED <<listed, kept, chosen, cache, prod, published, stops>>
               /\ damaged' \in BOOLEAN
    BY <1>0, <1>1, GotoMoves DEF Lexical
  <1>2. /\ DOMAIN pc' = Jobs
        /\ UNCHANGED <<listed, kept, chosen, cache, prod, published, stops>>
        /\ damaged' \in BOOLEAN
    BY <1>1 DEF BeginLexical, LockForExport, LockForSwap, LexicalStep, KeepManifest,
       AnalyseIndex, AnalyseText, SetAside, SwapIn, CompleteRefresh
  <1>3. out' \in Sites
    BY <1>0, WholeIsNotEmpty DEF BeginLexical, LockForExport, LockForSwap, LexicalStep,
       KeepManifest, AnalyseIndex, AnalyseText, SetAside, SwapIn, CompleteRefresh, Sites,
       TypeOK
  <1>4. /\ lock' \in Jobs \cup {"free"}
        /\ marks' \subseteq {"export", "analysis", "refresh"}
    BY DEF BeginLexical, LockForExport, LockForSwap, LexicalStep,
       KeepManifest, AnalyseIndex, AnalyseText, SetAside, SwapIn, CompleteRefresh, TypeOK
  <1>5. previous' \subseteq Files
    BY <1>0 DEF BeginLexical, LockForExport, LockForSwap, LexicalStep, Sites,
       KeepManifest, AnalyseIndex, AnalyseText, SetAside, SwapIn, CompleteRefresh, TypeOK
  <1>6. work' \subseteq Whole(ThisWeek)
    BY DEF BeginLexical, LockForExport, LockForSwap, LexicalStep, Whole,
       KeepManifest, AnalyseIndex, AnalyseText, SetAside, SwapIn, CompleteRefresh, TypeOK
  <1> QED
    BY <1>2, <1>3, <1>4, <1>5, <1>6 DEF TypeOK

LEMMA TypesKept ==
    ASSUME TypeOK, ExportInv, Next
    PROVE  TypeOK'
  <1>1. CASE ListClip
    BY <1>1 DEF ListClip, TypeOK, weekly
  <1>2. CASE BeginFast
    <2>1. DOMAIN pc' = Jobs
      BY <1>2, GotoMoves DEF BeginFast, Jobs
    <2> QED
      BY <1>2, <2>1 DEF BeginFast, TypeOK, Jobs, weekly
  <1>3. CASE Operations
    <2>1. DOMAIN pc' = Jobs
      BY <1>3, GotoMoves DEF Operations, Jobs
    <2>2. out \in Sites /\ out.manifest.gen \in Int
      BY DEF TypeOK, Sites, Manifests
    <2>3. out' \in Sites
      BY <1>3, <2>2 DEF Operations, Sites
    <2>4. cache' \in BOOLEAN
      BY <1>3, Zenon DEF Operations, TypeOK
    <2> QED
      BY <1>3, <2>1, <2>3, <2>4 DEF Operations, TypeOK, weekly
  <1>4. CASE BeginLexical \/ LockForExport \/ LockForSwap \/ LexicalStep
    BY <1>4, WeeklyTyped
  <1>5. CASE \E j \in Jobs : JobStep(j) \/ Stop(j)
    BY <1>5, ExportTyped, DeployTyped, StopEnds DEF JobStep
  <1> QED
    BY <1>1, <1>2, <1>3, <1>4, <1>5 DEF Next

-----------------------------------------------------------------------------
(* The lock.                                                               *)

\* A step of the job that holds the lock, and keeps it.
Moves(j, place, then) ==
    /\ Where = place /\ Where' = then /\ lock = j /\ lock' = j
    /\ \A i \in Jobs : pc'[i] = IF i = j THEN then ELSE pc[i]
    /\ pc[j] = place
    /\ \A i \in Jobs \ {j} : pc[i] \notin HeldPlaces

LEMMA HolderMoves ==
    ASSUME TypeOK, LockInv, NEW j \in Jobs, NEW place, NEW then,
           At(j, place), Goto(j, then), lock' = lock, then \in PlacesOf(j) \cap HeldPlaces
    PROVE  Moves(j, place, then) /\ LockInv'
  <1>1. /\ DOMAIN pc' = Jobs /\ pc'[j] = then
        /\ \A i \in Jobs \ {j} : pc'[i] = pc[i]
    BY GotoMoves
  <1>2. lock = j /\ lock' = j /\ pc[j] = place /\ j # "free"
    BY DEF At, Jobs
  <1>3. Moves(j, place, then)
    BY <1>1, <1>2 DEF Moves, Where, LockInv
  <1>4. LockInv'
    BY <1>1, <1>2 DEF LockInv
  <1> QED
    BY <1>3, <1>4

\* A manifest is only claimed to be new where it can be.
LEMMA FastIsElsewhere ==
    ASSUME NEW j \in Jobs, NEW place, NEW then, Moves(j, place, then),
           then \notin {"snapshot", "operations", "verify", "deploy"} \cup SyncPlaces
    PROVE  NewInv'
  <1>1. CASE j = "fast"
    BY <1>1 DEF NewInv, Moves
  <1>2. CASE j = "lexical"
    <2>1. pc'["fast"] = pc["fast"] /\ pc["fast"] \notin HeldPlaces
      BY <1>2 DEF Moves, Jobs
    <2>2. pc'["fast"] \notin {"operations", "verify", "deploy"} \cup SyncPlaces
      BY <2>1 DEF HeldPlaces, DeployPlaces
    <2> QED
      BY <2>2 DEF NewInv, Moves
  <1> QED
    BY <1>1, <1>2 DEF Jobs

\* The weekly job does much without the lock.
LEMMA LexicalIsElsewhere ==
    ASSUME TypeOK, LockInv, lock' = lock, pc'["fast"] = pc["fast"],
           pc["lexical"] \notin HeldPlaces,
           pc'["lexical"] \in PlacesOf("lexical") \ HeldPlaces
    PROVE  LockInv' /\ Where' = Where
  <1>1. lock # "lexical"
    BY DEF LockInv, Jobs
  <1>2. LockInv'
    BY <1>1 DEF LockInv, Jobs
  <1>3. Where' = Where
    BY <1>1 DEF Where, TypeOK, Jobs
  <1> QED
    BY <1>2, <1>3

\* The end of a job frees the lock if the job held it.
LEMMA EndLocks ==
    ASSUME TypeOK, LockInv, NEW j \in Jobs, Ended(j)
    PROVE  /\ LockInv'
           /\ lock = j => Where = pc[j] /\ Where' = "free"
           /\ lock # j => Where' = Where /\ pc[j] \notin HeldPlaces
  <1>1. "idle" \in PlacesOf(j) /\ "idle" \notin HeldPlaces /\ j # "free"
    BY DEF PlacesOf, HeldPlaces, ExportPlaces, DeployPlaces, SyncPlaces, Jobs
  <1>2. LockInv'
    <2>1. \A i \in Jobs : i # "free"
      BY DEF Jobs
    <2> QED
      BY <1>1, <2>1 DEF LockInv, Ended
  <1>3. lock = j => Where = pc[j] /\ Where' = "free"
    BY <1>1 DEF Where, Ended
  <1>4. lock # j => Where' = Where /\ pc[j] \notin HeldPlaces
    BY <1>1 DEF Where, Ended, LockInv, TypeOK
  <1> QED
    BY <1>2, <1>3, <1>4

-----------------------------------------------------------------------------
(* The steps of an export.                                                 *)

\* A step of an export leaves production and the weekly job as they are.
LEMMA ExportIsQuiet ==
    ASSUME SiteInv, NEW j \in Jobs, NEW then,
           NEW place \in ExportPlaces \cup {"operations"},
           then \in ExportPlaces \cup {"operations", "keep manifest", "verify"},
           then = "verify" => j = "fast",
           Moves(j, place, then), UNCHANGED <<prod, marks, work, published>>
    PROVE  WorkInv' /\ WeekInv' /\ SentInv' /\ ReleaseIsConsistent' /\ OneRelease'
  <1> USE DEF SiteInv, InvariantOfData
  <1>1. /\ pc'["lexical"] \notin DeployPlaces
           \cup {"idle", "export", "analyse", "analyse text", "set aside", "swap in",
                 "done"}
        \/ /\ pc'["lexical"] = pc["lexical"]
           /\ pc["lexical"] \notin HeldPlaces
    BY DEF Moves, Jobs, ExportPlaces, DeployPlaces, SyncPlaces
  <1>2. pc["lexical"] # "idle" => "refresh" \notin marks
    BY DEF WorkInv
  <1>3. WorkInv'
    BY <1>1, <1>2 DEF WorkInv, Moves, Jobs, ExportPlaces
  <1>4. WeekInv'
    BY <1>1 DEF WeekInv, HeldPlaces, DeployPlaces, SyncPlaces
  <1>5. SentInv'
    BY DEF SentInv, Moves, SyncPlaces, ExportPlaces
  <1>6. ReleaseIsConsistent' /\ OneRelease'
    BY DEF ReleaseIsConsistent, OneRelease
  <1> QED
    BY <1>3, <1>4, <1>5, <1>6

LEMMA ChooseTakes ==
    ASSUME SiteInv, NEW j \in Jobs, ChooseClip(j)
    PROVE  /\ out'.analysis = out.analysis /\ out'.manifest = out.manifest
           /\ out'.recent = out.recent /\ out'.operations = out.operations
           /\ chosen'.next = NextOf(Before(chosen.next))
           /\ chosen'.clips \subseteq Has(out')
  <1> DEFINE c == chosen.next
             takes == out.audio[c] # "none" \/ c \notin Unfit
  <1>1. out \in Sites
    BY DEF SiteInv, TypeOK
  <1>2. c \in Clips /\ chosen.clips \subseteq Has(out)
    BY DEF ChooseClip, Chooses, Export, At, SiteInv, ExportInv, Where, Jobs,
       InvariantOfData
  <1>3. PICK a : /\ out' = [out EXCEPT !.audio = [out.audio EXCEPT ![c] = a]]
                 /\ a = IF takes /\ out.audio[c] = "none" THEN "whole" ELSE out.audio[c]
    BY <1>1 DEF ChooseClip, Sites
  <1>4. out'.audio = [out.audio EXCEPT ![c] = a]
    BY <1>1, <1>3 DEF Sites
  <1>5. chosen'.clips = chosen.clips \cup (IF takes THEN {c} ELSE {})
        /\ chosen'.next = NextOf(Before(c))
    BY DEF ChooseClip
  <1>6. chosen'.clips \subseteq Has(out')
    BY <1>1, <1>2, <1>3, <1>4, <1>5 DEF Has, Sites, Audio
  <1> QED
    BY <1>1, <1>3, <1>5, <1>6 DEF Sites

LEMMA PreserveKeeps ==
    ASSUME SiteInv, NEW j \in Jobs, Preserve(j)
    PROVE  LockInv' /\ InvariantOfData'
  <1> USE DEF SiteInv, InvariantOfData
  <1>1. Moves(j, "preserve", "clear") /\ LockInv'
    BY HolderMoves DEF Preserve, Export, PlacesOf, HeldPlaces, ExportPlaces,
       DeployPlaces, SyncPlaces
  <1>2. /\ UNCHANGED <<prod, marks, work, published, damaged>>
        /\ out' = out /\ kept'.analysis = out.analysis
    BY DEF Preserve, Export, weekly
  <1>3. WorkInv' /\ WeekInv' /\ SentInv' /\ ReleaseIsConsistent' /\ OneRelease'
    BY <1>1, <1>2, ExportIsQuiet DEF ExportPlaces, DeployPlaces, SyncPlaces
  <1>4. AnalysisInv'
    BY <1>1, <1>2 DEF AnalysisInv, Moves
  <1>5. ExportInv'
    BY <1>1, <1>2 DEF ExportInv, Finished, SyncPlaces, Has, Deployable, Artifacts, Moves
  <1>6. AgreesInv'
    BY <1>1, <1>2 DEF AgreesInv, Moves
  <1>7. NewInv'
    BY <1>1, FastIsElsewhere DEF SyncPlaces
  <1>8. WholeInv'
    BY <1>1, <1>2 DEF WholeInv, Artifacts, Moves
  <1> QED
    BY <1>1, <1>3, <1>4, <1>5, <1>6, <1>7, <1>8

LEMMA ClearKeeps ==
    ASSUME SiteInv, NEW j \in Jobs, ClearOutput(j)
    PROVE  LockInv' /\ InvariantOfData'
  <1> USE DEF SiteInv, InvariantOfData
  <1>1. Moves(j, "clear", "restore analysis") /\ LockInv'
    BY HolderMoves DEF ClearOutput, Export, PlacesOf, HeldPlaces, ExportPlaces,
       DeployPlaces, SyncPlaces
  <1>2. /\ UNCHANGED <<prod, marks, work, published, damaged>>
        /\ kept' = kept /\ out'.manifest = Sample
        /\ out'.recent = None /\ out'.operations = None
    BY DEF ClearOutput, Export, weekly
  <1>3. out'.manifest = Sample
    BY <1>1, <1>2 DEF ExportInv, Moves
  <1>4. out'.manifest.gen = 0
    BY <1>3 DEF Sample
  <1>5. \A release \in prod'.release : release.manifest.gen # 0
    BY <1>2 DEF ReleaseIsConsistent
  <1>6. WorkInv' /\ WeekInv' /\ SentInv' /\ ReleaseIsConsistent' /\ OneRelease'
    BY <1>1, <1>2, ExportIsQuiet DEF ExportPlaces, DeployPlaces, SyncPlaces
  <1>7. AnalysisInv'
    BY <1>1, <1>2 DEF AnalysisInv, Moves
  <1>8. ExportInv'
    BY <1>1, <1>2 DEF ExportInv, Finished, SyncPlaces, Has, Deployable, Artifacts, Moves
  <1>9. AgreesInv'
    BY <1>1, <1>2, <1>3, <1>4, <1>5 DEF AgreesInv, Moves
  <1>10. NewInv'
    BY <1>1, FastIsElsewhere DEF SyncPlaces
  <1>11. WholeInv'
    BY <1>1, <1>2, <1>3, <1>4, <1>5 DEF WholeInv, Artifacts, Moves
  <1> QED
    BY <1>1, <1>6, <1>7, <1>8, <1>9, <1>10, <1>11

LEMMA RestoreAnalysisKeeps ==
    ASSUME SiteInv, NEW j \in Jobs, RestoreAnalysis(j)
    PROVE  LockInv' /\ InvariantOfData'
  <1> USE DEF SiteInv, InvariantOfData
  <1>1. Moves(j, "restore analysis", "restore clips") /\ LockInv'
    BY HolderMoves DEF RestoreAnalysis, Export, PlacesOf, HeldPlaces, ExportPlaces,
       DeployPlaces, SyncPlaces
  <1>2. /\ UNCHANGED <<prod, marks, work, published, damaged>>
        /\ out'.analysis = kept.analysis
        /\ out'.manifest = out.manifest /\ out'.recent = out.recent
        /\ out'.operations = out.operations
    BY DEF RestoreAnalysis, Export, weekly, TypeOK, Sites
  <1>3. out'.manifest = Sample
    BY <1>1, <1>2 DEF ExportInv, Moves
  <1>4. out'.manifest.gen = 0
    BY <1>3 DEF Sample
  <1>5. \A release \in prod'.release : release.manifest.gen # 0
    BY <1>2 DEF ReleaseIsConsistent
  <1>6. WorkInv' /\ WeekInv' /\ SentInv' /\ ReleaseIsConsistent' /\ OneRelease'
    BY <1>1, <1>2, ExportIsQuiet DEF ExportPlaces, DeployPlaces, SyncPlaces
  <1>7. AnalysisInv'
    BY <1>1, <1>2 DEF AnalysisInv, Moves
  <1>8. ExportInv'
    BY <1>1, <1>2 DEF ExportInv, Finished, SyncPlaces, Has, Deployable, Artifacts, Moves
  <1>9. AgreesInv'
    BY <1>1, <1>2, <1>3, <1>4, <1>5 DEF AgreesInv, Moves
  <1>10. NewInv'
    BY <1>1, FastIsElsewhere DEF SyncPlaces
  <1>11. WholeInv'
    BY <1>1, <1>2, <1>3, <1>4, <1>5 DEF WholeInv, Artifacts, Moves
  <1> QED
    BY <1>1, <1>6, <1>7, <1>8, <1>9, <1>10, <1>11

LEMMA RestoreClipsKeeps ==
    ASSUME SiteInv, NEW j \in Jobs, RestoreClips(j)
    PROVE  LockInv' /\ InvariantOfData'
  <1> USE DEF SiteInv, InvariantOfData
  <1>1. Moves(j, "restore clips", "choose") /\ LockInv'
    BY HolderMoves DEF RestoreClips, Export, PlacesOf, HeldPlaces, ExportPlaces,
       DeployPlaces, SyncPlaces
  <1>2. /\ UNCHANGED <<prod, marks, work, published, damaged>>
        /\ out'.analysis = out.analysis
        /\ out'.manifest = out.manifest /\ out'.recent = out.recent
        /\ out'.operations = out.operations
        /\ chosen' = [next |-> NextOf(listed), clips |-> {}]
    BY DEF RestoreClips, Export, weekly, TypeOK, Sites
  <1>3. out'.manifest = Sample
    BY <1>1, <1>2 DEF ExportInv, Moves
  <1>4. out'.manifest.gen = 0
    BY <1>3 DEF Sample
  <1>5. \A release \in prod'.release : release.manifest.gen # 0
    BY <1>2 DEF ReleaseIsConsistent
  <1>6. WorkInv' /\ WeekInv' /\ SentInv' /\ ReleaseIsConsistent' /\ OneRelease'
    BY <1>1, <1>2, ExportIsQuiet DEF ExportPlaces, DeployPlaces, SyncPlaces
  <1>7. AnalysisInv'
    BY <1>1, <1>2 DEF AnalysisInv, Moves
  <1>8. ExportInv'
    BY <1>1, <1>2, NextIsListed DEF ExportInv, Finished, SyncPlaces, Has, Deployable,
       Artifacts, Moves
  <1>9. AgreesInv'
    BY <1>1, <1>2, <1>3, <1>4, <1>5 DEF AgreesInv, Moves
  <1>10. NewInv'
    BY <1>1, FastIsElsewhere DEF SyncPlaces
  <1>11. WholeInv'
    BY <1>1, <1>2, <1>3, <1>4, <1>5 DEF WholeInv, Artifacts, Moves
  <1> QED
    BY <1>1, <1>6, <1>7, <1>8, <1>9, <1>10, <1>11

LEMMA ChooseClipKeeps ==
    ASSUME SiteInv, NEW j \in Jobs, ChooseClip(j)
    PROVE  LockInv' /\ InvariantOfData'
  <1> USE DEF SiteInv, InvariantOfData
  <1>1. Moves(j, "choose", "choose") /\ LockInv'
    BY HolderMoves DEF ChooseClip, Export, PlacesOf, HeldPlaces, ExportPlaces,
       DeployPlaces, SyncPlaces
  <1>2. /\ UNCHANGED <<prod, marks, work, published, damaged>>
        /\ out'.analysis = out.analysis
        /\ out'.manifest = out.manifest /\ out'.recent = out.recent
        /\ out'.operations = out.operations
        /\ chosen'.next = NextOf(Before(chosen.next))
        /\ chosen'.clips \subseteq Has(out')
    BY ChooseTakes DEF ChooseClip, Export, weekly
  <1>3. out'.manifest = Sample
    BY <1>1, <1>2 DEF ExportInv, Moves
  <1>4. out'.manifest.gen = 0
    BY <1>3 DEF Sample
  <1>5. \A release \in prod'.release : release.manifest.gen # 0
    BY <1>2 DEF ReleaseIsConsistent
  <1>6. WorkInv' /\ WeekInv' /\ SentInv' /\ ReleaseIsConsistent' /\ OneRelease'
    BY <1>1, <1>2, ExportIsQuiet DEF ExportPlaces, DeployPlaces, SyncPlaces
  <1>7. AnalysisInv'
    BY <1>1, <1>2 DEF AnalysisInv, Moves
  <1>8. ExportInv'
    BY <1>1, <1>2, NextIsListed DEF ExportInv, Finished, SyncPlaces, Has, Deployable,
       Artifacts, Moves
  <1>9. AgreesInv'
    BY <1>1, <1>2, <1>3, <1>4, <1>5 DEF AgreesInv, Moves
  <1>10. NewInv'
    BY <1>1, FastIsElsewhere DEF SyncPlaces
  <1>11. WholeInv'
    BY <1>1, <1>2, <1>3, <1>4, <1>5 DEF WholeInv, Artifacts, Moves
  <1> QED
    BY <1>1, <1>6, <1>7, <1>8, <1>9, <1>10, <1>11

LEMMA RemoveUnusedKeeps ==
    ASSUME SiteInv, NEW j \in Jobs, RemoveUnused(j)
    PROVE  LockInv' /\ InvariantOfData'
  <1> USE DEF SiteInv, InvariantOfData
  <1>1. Moves(j, "choose", "manifest") /\ LockInv'
    BY HolderMoves DEF RemoveUnused, Export, PlacesOf, HeldPlaces, ExportPlaces,
       DeployPlaces, SyncPlaces
  <1>2. /\ UNCHANGED <<prod, marks, work, published, damaged>>
        /\ out'.analysis = out.analysis /\ chosen' = chosen
        /\ out'.manifest = out.manifest /\ out'.recent = out.recent
        /\ out'.operations = out.operations
        /\ out'.audio = [c \in Clips |->
                        IF c \in chosen.clips THEN out.audio[c] ELSE "none"]
    BY DEF RemoveUnused, Export, weekly, TypeOK, Sites
  <1>3. out'.manifest = Sample
    BY <1>1, <1>2 DEF ExportInv, Moves
  <1>4. out'.manifest.gen = 0
    BY <1>3 DEF Sample
  <1>5. \A release \in prod'.release : release.manifest.gen # 0
    BY <1>2 DEF ReleaseIsConsistent
  <1>6. WorkInv' /\ WeekInv' /\ SentInv' /\ ReleaseIsConsistent' /\ OneRelease'
    BY <1>1, <1>2, ExportIsQuiet DEF ExportPlaces, DeployPlaces, SyncPlaces
  <1>7. AnalysisInv'
    BY <1>1, <1>2 DEF AnalysisInv, Moves
  <1>8. ExportInv'
    BY <1>1, <1>2 DEF ExportInv, Finished, SyncPlaces, Has, Deployable, Artifacts, Moves
  <1>9. AgreesInv'
    BY <1>1, <1>2, <1>3, <1>4, <1>5 DEF AgreesInv, Moves
  <1>10. NewInv'
    BY <1>1, FastIsElsewhere DEF SyncPlaces
  <1>11. WholeInv'
    BY <1>1, <1>2, <1>3, <1>4, <1>5 DEF WholeInv, Artifacts, Moves
  <1> QED
    BY <1>1, <1>6, <1>7, <1>8, <1>9, <1>10, <1>11

LEMMA WriteManifestKeeps ==
    ASSUME SiteInv, NEW j \in Jobs, WriteManifest(j)
    PROVE  LockInv' /\ InvariantOfData'
  <1> USE DEF SiteInv, InvariantOfData
  <1>1. Moves(j, "manifest", "snapshot") /\ LockInv'
    BY HolderMoves DEF WriteManifest, Export, PlacesOf, HeldPlaces, ExportPlaces,
       DeployPlaces, SyncPlaces
  <1>2. /\ UNCHANGED <<prod, marks, work, published, damaged>>
        /\ out'.analysis = out.analysis /\ out'.audio = out.audio
        /\ out'.operations = out.operations
        /\ out'.manifest.gen > 0 /\ out'.manifest.gen # prod.manifest.gen
        /\ out'.manifest.clips = chosen.clips
    BY GenerationIsNew DEF WriteManifest, Export, weekly, Generations, TypeOK, Sites
  <1>3. WorkInv' /\ WeekInv' /\ SentInv' /\ ReleaseIsConsistent' /\ OneRelease'
    BY <1>1, <1>2, ExportIsQuiet DEF ExportPlaces, DeployPlaces, SyncPlaces
  <1>4. AnalysisInv'
    BY <1>1, <1>2 DEF AnalysisInv, Moves
  <1>5. ExportInv'
    BY <1>1, <1>2 DEF ExportInv, Finished, SyncPlaces, Has, Deployable, Artifacts, Moves
  <1>6. AgreesInv'
    BY <1>1, <1>2 DEF AgreesInv, OneRelease, Moves
  <1>7. NewInv'
    BY <1>1, <1>2 DEF NewInv, Moves, Jobs, HeldPlaces, ExportPlaces, DeployPlaces,
       SyncPlaces
  <1>8. WholeInv'
    BY <1>1, <1>2 DEF WholeInv, OneRelease, Moves
  <1> QED
    BY <1>1, <1>3, <1>4, <1>5, <1>6, <1>7, <1>8

LEMMA WriteSnapshotKeeps ==
    ASSUME SiteInv, NEW j \in Jobs, WriteSnapshot(j)
    PROVE  LockInv' /\ InvariantOfData'
  <1> USE DEF SiteInv, InvariantOfData
  <1>1. /\ Moves(j, "snapshot", IF j = "fast" THEN "operations" ELSE "keep manifest")
        /\ LockInv'
    BY HolderMoves DEF WriteSnapshot, Export, PlacesOf, HeldPlaces, ExportPlaces,
       DeployPlaces, SyncPlaces
  <1>2. /\ UNCHANGED <<prod, marks, work, published, damaged>>
        /\ out'.analysis = out.analysis /\ out'.audio = out.audio
        /\ out'.manifest = out.manifest /\ out'.operations = out.operations
        /\ out'.recent = out.manifest.gen
    BY DEF WriteSnapshot, Export, weekly, TypeOK, Sites
  <1>3. WorkInv' /\ WeekInv' /\ SentInv' /\ ReleaseIsConsistent' /\ OneRelease'
    BY <1>1, <1>2, ExportIsQuiet DEF ExportPlaces, DeployPlaces, SyncPlaces
  <1>4. AnalysisInv'
    BY <1>1, <1>2 DEF AnalysisInv, Moves
  <1>5. ExportInv'
    BY <1>1, <1>2 DEF ExportInv, Finished, SyncPlaces, Has, Deployable, Artifacts, Moves
  <1>6. AgreesInv'
    BY <1>1, <1>2 DEF AgreesInv, OneRelease, NewInv, Moves
  <1>7. NewInv'
    BY <1>1, <1>2 DEF NewInv, Moves, Jobs, HeldPlaces, ExportPlaces, DeployPlaces,
       SyncPlaces
  <1>8. WholeInv'
    BY <1>1, <1>2 DEF WholeInv, OneRelease, NewInv, Moves
  <1> QED
    BY <1>1, <1>3, <1>4, <1>5, <1>6, <1>7, <1>8

-----------------------------------------------------------------------------
(* The steps of a deployment.                                              *)

\* A step of a deployment leaves the output directory, and before the commit
\* the release, as they are.
LEMMA DeployIsQuiet ==
    ASSUME SiteInv, NEW j \in Jobs, NEW then,
           NEW place \in {"verify", "deploy"} \cup SyncPlaces,
           then \in {"deploy", "invalidate"} \cup SyncPlaces,
           Moves(j, place, then), UNCHANGED <<out, marks, work, damaged>>,
           prod'.release = prod.release, prod'.manifest = prod.manifest
    PROVE  AnalysisInv' /\ WorkInv' /\ ReleaseIsConsistent' /\ OneRelease' /\ AgreesInv'
           /\ NewInv'
  <1> USE DEF SiteInv, InvariantOfData
  <1>1. AnalysisInv'
    BY DEF AnalysisInv, Moves, SyncPlaces
  <1>2. WorkInv'
    BY DEF WorkInv, Moves, Jobs, SyncPlaces
  <1>3. ReleaseIsConsistent' /\ OneRelease' /\ AgreesInv'
    BY DEF ReleaseIsConsistent, OneRelease, AgreesInv
  <1>4. NewInv'
    BY DEF NewInv, Moves, Jobs, SyncPlaces
  <1> QED
    BY <1>1, <1>2, <1>3, <1>4

LEMMA OperationsKeeps ==
    ASSUME SiteInv, Operations
    PROVE  LockInv' /\ InvariantOfData'
  <1> USE DEF SiteInv, InvariantOfData
  <1>1. Moves("fast", "operations", "verify") /\ LockInv'
    BY HolderMoves DEF Operations, Jobs, PlacesOf, HeldPlaces, ExportPlaces,
       DeployPlaces, SyncPlaces
  <1>2. /\ UNCHANGED <<prod, marks, work, published, damaged>>
        /\ out'.analysis = out.analysis /\ out'.audio = out.audio
        /\ out'.manifest = out.manifest /\ out'.recent = out.recent
    BY DEF Operations, weekly, TypeOK, Sites
  <1>3. WorkInv' /\ WeekInv' /\ SentInv' /\ ReleaseIsConsistent' /\ OneRelease'
    BY <1>1, <1>2, ExportIsQuiet DEF Jobs, ExportPlaces, DeployPlaces, SyncPlaces
  <1>4. AnalysisInv'
    BY <1>1, <1>2 DEF AnalysisInv, Moves
  <1>5. ExportInv'
    BY <1>1, <1>2 DEF ExportInv, Finished, SyncPlaces, Has, Deployable, Artifacts, Moves
  <1>6. AgreesInv'
    BY <1>1, <1>2 DEF AgreesInv, OneRelease, NewInv, SyncPlaces, Jobs, Moves
  <1>7. NewInv'
    BY <1>1, <1>2 DEF NewInv, Moves, Jobs, HeldPlaces, ExportPlaces, DeployPlaces,
       SyncPlaces
  <1>8. WholeInv'
    BY <1>1, <1>2 DEF WholeInv, OneRelease, NewInv, SyncPlaces, Jobs, Moves
  <1> QED
    BY <1>1, <1>3, <1>4, <1>5, <1>6, <1>7, <1>8

LEMMA VerifyKeeps ==
    ASSUME SiteInv, NEW j \in Jobs, Verify(j)
    PROVE  LockInv' /\ InvariantOfData'
  <1> USE DEF SiteInv, InvariantOfData
  <1>1. Moves(j, "verify", "deploy") /\ LockInv'
    BY HolderMoves DEF Verify, PlacesOf, HeldPlaces, ExportPlaces, DeployPlaces,
       SyncPlaces
  <1>2. UNCHANGED <<out, prod, marks, work, published, damaged>>
    BY DEF Verify, weekly
  <1>3. /\ AnalysisInv' /\ WorkInv' /\ ReleaseIsConsistent' /\ OneRelease'
        /\ AgreesInv' /\ NewInv'
    BY <1>1, <1>2, DeployIsQuiet DEF DeployPlaces, SyncPlaces
  <1>4. WeekInv'
    BY <1>1, <1>2 DEF WeekInv, Moves, Jobs, HeldPlaces, ExportPlaces, DeployPlaces,
       SyncPlaces
  <1>5. ExportInv'
    BY <1>1, <1>2 DEF ExportInv, Finished, SyncPlaces, Moves
  <1>6. SentInv'
    BY <1>1, <1>2 DEF SentInv, SyncPlaces, Moves
  <1>7. WholeInv'
    BY <1>1, <1>2 DEF WholeInv, Artifacts, Moves
  <1> QED
    BY <1>1, <1>3, <1>4, <1>5, <1>6, <1>7

LEMMA StartDeployKeeps ==
    ASSUME SiteInv, NEW j \in Jobs, StartDeploy(j)
    PROVE  LockInv' /\ InvariantOfData'
  <1> USE DEF SiteInv, InvariantOfData
  <1>1. /\ Moves(j, "deploy",
                 IF prod.release = {Artifacts(out)} THEN "invalidate" ELSE "clips")
        /\ LockInv'
    BY HolderMoves DEF StartDeploy, Deploy, PlacesOf, HeldPlaces, ExportPlaces,
       DeployPlaces, SyncPlaces
  <1>2. /\ UNCHANGED <<out, prod, marks, work, published, damaged>>
        /\ Deployable
    BY DEF StartDeploy, Deploy, weekly
  <1>3. /\ AnalysisInv' /\ WorkInv' /\ ReleaseIsConsistent' /\ OneRelease'
        /\ AgreesInv' /\ NewInv'
    BY <1>1, <1>2, DeployIsQuiet DEF DeployPlaces, SyncPlaces
  <1>4. WeekInv'
    BY <1>1, <1>2 DEF WeekInv, Moves, Jobs, HeldPlaces, ExportPlaces, DeployPlaces,
       SyncPlaces, Artifacts
  <1>5. ExportInv'
    BY <1>1, <1>2 DEF ExportInv, Finished, SyncPlaces, Has, Deployable, Artifacts, Moves
  <1>6. SentInv'
    BY <1>1, <1>2 DEF SentInv, SyncPlaces, Moves
  <1>7. WholeInv'
    BY <1>1, <1>2 DEF WholeInv, Artifacts, Moves
  <1> QED
    BY <1>1, <1>3, <1>4, <1>5, <1>6, <1>7

\* While files are synced, production may only lose the week's analysis if its manifest
\* is another one.
LEMMA ReleasesDiffer ==
    ASSUME SiteInv, NEW j \in Jobs, NEW place \in SyncPlaces, At(j, place)
    PROVE  \A release \in prod.release :
              release.analysis = Whole(ThisWeek)
                  => release.manifest.gen # out.manifest.gen
  <1> USE DEF SiteInv, InvariantOfData
  <1> SUFFICES ASSUME NEW release \in prod.release, release.analysis = Whole(ThisWeek),
                      release.manifest.gen = out.manifest.gen
               PROVE  FALSE
    OBVIOUS
  <1>1. Where = place /\ pc[j] = place
    BY DEF At, Where, Jobs
  <1>2. CASE j = "fast"
    BY <1>1, <1>2 DEF NewInv, OneRelease, SyncPlaces
  <1>3. CASE j = "lexical"
    <2>1. out.analysis = Whole(ThisWeek)
      BY <1>1, <1>3 DEF WeekInv, DeployPlaces
    <2>2. release \in Sites
      BY DEF TypeOK, Productions
    <2>3. release = Artifacts(out)
      BY <2>1, <2>2 DEF Sites, AgreesInv, Artifacts
    <2>4. prod.release = {Artifacts(out)}
      BY <2>3 DEF OneRelease
    <2> QED
      BY <1>1, <2>4 DEF ExportInv
  <1> QED
    BY <1>2, <1>3 DEF Jobs

LEMMA SyncClipsKeeps ==
    ASSUME SiteInv, NEW j \in Jobs, SyncClips(j)
    PROVE  LockInv' /\ InvariantOfData'
  <1> USE DEF SiteInv, InvariantOfData
  <1>1. Moves(j, "clips", "analysis") /\ LockInv'
    BY HolderMoves DEF SyncClips, Deploy, PlacesOf, HeldPlaces, ExportPlaces,
       DeployPlaces, SyncPlaces
  <1>2. /\ UNCHANGED <<out, marks, work, damaged>>
        /\ prod'.audio = out.audio
        /\ prod'.analysis = prod.analysis
        /\ prod'.manifest = prod.manifest
        /\ prod'.recent = prod.recent
        /\ prod'.operations = prod.operations
        /\ prod'.release = prod.release
        /\ published' = published
    BY DEF SyncClips, Deploy, weekly, TypeOK, Productions
  <1>3. \A release \in prod.release :
           release.analysis = Whole(ThisWeek) => release.manifest.gen # out.manifest.gen
    BY ReleasesDiffer DEF SyncClips, Deploy, SyncPlaces
  <1>4. /\ AnalysisInv' /\ WorkInv' /\ ReleaseIsConsistent' /\ OneRelease'
        /\ AgreesInv' /\ NewInv'
    BY <1>1, <1>2, DeployIsQuiet DEF DeployPlaces, SyncPlaces
  <1>5. WeekInv'
    BY <1>1, <1>2 DEF WeekInv, Moves, Jobs, HeldPlaces, ExportPlaces, DeployPlaces,
       SyncPlaces
  <1>6. ExportInv'
    BY <1>1, <1>2 DEF ExportInv, Finished, SyncPlaces, Has, Deployable, Artifacts, Moves
  <1>7. SentInv'
    BY <1>1, <1>2 DEF SentInv, SyncPlaces, Moves
  <1>8. WholeInv'
    BY <1>1, <1>2, <1>3 DEF WholeInv, Artifacts, Moves
  <1> QED
    BY <1>1, <1>4, <1>5, <1>6, <1>7, <1>8

LEMMA SyncAnalysisKeeps ==
    ASSUME SiteInv, NEW j \in Jobs, SyncAnalysis(j)
    PROVE  LockInv' /\ InvariantOfData'
  <1> USE DEF SiteInv, InvariantOfData
  <1>1. Moves(j, "analysis", "recent") /\ LockInv'
    BY HolderMoves DEF SyncAnalysis, Deploy, PlacesOf, HeldPlaces, ExportPlaces,
       DeployPlaces, SyncPlaces
  <1>2. /\ UNCHANGED <<out, marks, work, damaged>>
        /\ prod'.analysis = out.analysis
        /\ prod'.audio = prod.audio
        /\ prod'.manifest = prod.manifest
        /\ prod'.recent = prod.recent
        /\ prod'.operations = prod.operations
        /\ prod'.release = prod.release
        /\ published' = (published \/ out.analysis = Whole(ThisWeek))
    BY DEF SyncAnalysis, Deploy, weekly, TypeOK, Productions
  <1>3. \A release \in prod.release :
           release.analysis = Whole(ThisWeek) => release.manifest.gen # out.manifest.gen
    BY ReleasesDiffer DEF SyncAnalysis, Deploy, SyncPlaces
  <1>4. /\ AnalysisInv' /\ WorkInv' /\ ReleaseIsConsistent' /\ OneRelease'
        /\ AgreesInv' /\ NewInv'
    BY <1>1, <1>2, DeployIsQuiet DEF DeployPlaces, SyncPlaces
  <1>5. WeekInv'
    BY <1>1, <1>2 DEF WeekInv, Moves, Jobs, HeldPlaces, ExportPlaces, DeployPlaces,
       SyncPlaces
  <1>6. ExportInv'
    BY <1>1, <1>2 DEF ExportInv, Finished, SyncPlaces, Has, Deployable, Artifacts, Moves
  <1>7. SentInv'
    BY <1>1, <1>2 DEF SentInv, SyncPlaces, Moves
  <1>8. WholeInv'
    BY <1>1, <1>2, <1>3 DEF WholeInv, Artifacts, Moves
  <1> QED
    BY <1>1, <1>4, <1>5, <1>6, <1>7, <1>8

LEMMA CopyRecentKeeps ==
    ASSUME SiteInv, NEW j \in Jobs, CopyRecent(j)
    PROVE  LockInv' /\ InvariantOfData'
  <1> USE DEF SiteInv, InvariantOfData
  <1>1. Moves(j, "recent", "copy operations") /\ LockInv'
    BY HolderMoves DEF CopyRecent, Deploy, PlacesOf, HeldPlaces, ExportPlaces,
       DeployPlaces, SyncPlaces
  <1>2. /\ UNCHANGED <<out, marks, work, damaged>>
        /\ prod'.recent = out.recent
        /\ prod'.analysis = prod.analysis
        /\ prod'.audio = prod.audio
        /\ prod'.manifest = prod.manifest
        /\ prod'.operations = prod.operations
        /\ prod'.release = prod.release
        /\ published' = published
    BY DEF CopyRecent, Deploy, weekly, TypeOK, Productions
  <1>3. \A release \in prod.release :
           release.analysis = Whole(ThisWeek) => release.manifest.gen # out.manifest.gen
    BY ReleasesDiffer DEF CopyRecent, Deploy, SyncPlaces
  <1>4. /\ AnalysisInv' /\ WorkInv' /\ ReleaseIsConsistent' /\ OneRelease'
        /\ AgreesInv' /\ NewInv'
    BY <1>1, <1>2, DeployIsQuiet DEF DeployPlaces, SyncPlaces
  <1>5. WeekInv'
    BY <1>1, <1>2 DEF WeekInv, Moves, Jobs, HeldPlaces, ExportPlaces, DeployPlaces,
       SyncPlaces
  <1>6. ExportInv'
    BY <1>1, <1>2 DEF ExportInv, Finished, SyncPlaces, Has, Deployable, Artifacts, Moves
  <1>7. SentInv'
    BY <1>1, <1>2 DEF SentInv, SyncPlaces, Moves
  <1>8. WholeInv'
    BY <1>1, <1>2, <1>3 DEF WholeInv, Artifacts, Moves
  <1> QED
    BY <1>1, <1>4, <1>5, <1>6, <1>7, <1>8

LEMMA CopyOperationsKeeps ==
    ASSUME SiteInv, NEW j \in Jobs, CopyOperations(j)
    PROVE  LockInv' /\ InvariantOfData'
  <1> USE DEF SiteInv, InvariantOfData
  <1>1. Moves(j, "copy operations", "commit") /\ LockInv'
    BY HolderMoves DEF CopyOperations, Deploy, PlacesOf, HeldPlaces, ExportPlaces,
       DeployPlaces, SyncPlaces
  <1>2. /\ UNCHANGED <<out, marks, work, damaged>>
        /\ prod'.operations = out.operations
        /\ prod'.analysis = prod.analysis
        /\ prod'.audio = prod.audio
        /\ prod'.manifest = prod.manifest
        /\ prod'.recent = prod.recent
        /\ prod'.release = prod.release
        /\ published' = published
    BY DEF CopyOperations, Deploy, weekly, TypeOK, Productions
  <1>3. \A release \in prod.release :
           release.analysis = Whole(ThisWeek) => release.manifest.gen # out.manifest.gen
    BY ReleasesDiffer DEF CopyOperations, Deploy, SyncPlaces
  <1>4. /\ AnalysisInv' /\ WorkInv' /\ ReleaseIsConsistent' /\ OneRelease'
        /\ AgreesInv' /\ NewInv'
    BY <1>1, <1>2, DeployIsQuiet DEF DeployPlaces, SyncPlaces
  <1>5. WeekInv'
    BY <1>1, <1>2 DEF WeekInv, Moves, Jobs, HeldPlaces, ExportPlaces, DeployPlaces,
       SyncPlaces
  <1>6. ExportInv'
    BY <1>1, <1>2 DEF ExportInv, Finished, SyncPlaces, Has, Deployable, Artifacts, Moves
  <1>7. SentInv'
    BY <1>1, <1>2 DEF SentInv, SyncPlaces, Moves
  <1>8. WholeInv'
    BY <1>1, <1>2, <1>3 DEF WholeInv, Artifacts, Moves
  <1> QED
    BY <1>1, <1>4, <1>5, <1>6, <1>7, <1>8

LEMMA CommitKeeps ==
    ASSUME SiteInv, NEW j \in Jobs, Commit(j)
    PROVE  LockInv' /\ InvariantOfData'
  <1> USE DEF SiteInv, InvariantOfData
  <1>1. Moves(j, "commit", "invalidate") /\ LockInv'
    BY HolderMoves DEF Commit, Deploy, PlacesOf, HeldPlaces, ExportPlaces, DeployPlaces,
       SyncPlaces
  <1>2. /\ UNCHANGED <<out, marks, work, published, damaged>>
        /\ prod'.analysis = prod.analysis /\ prod'.audio = prod.audio
        /\ prod'.recent = prod.recent /\ prod'.operations = prod.operations
        /\ prod'.manifest = out.manifest /\ prod'.release = {Artifacts(out)}
    BY DEF Commit, Deploy, weekly, TypeOK, Productions
  <1>3. out.analysis = Whole(ThisWeek) => published
    BY <1>1 DEF SentInv, WeekInv, Moves, SyncPlaces
  <1>4. \A release \in prod'.release : release.analysis = out.analysis
    BY <1>2 DEF Artifacts
  <1>5. AnalysisInv'
    BY <1>1, <1>2 DEF AnalysisInv, Moves
  <1>6. WorkInv'
    BY <1>1, <1>2 DEF WorkInv, Moves, Jobs
  <1>7. WeekInv'
    BY <1>1, <1>2, <1>3, <1>4 DEF WeekInv, Moves, Jobs, HeldPlaces, ExportPlaces,
       DeployPlaces, SyncPlaces
  <1>8. ExportInv'
    BY <1>1, <1>2 DEF ExportInv, Finished, SyncPlaces, Has, Deployable, Artifacts, Moves
  <1>9. SentInv'
    BY <1>1, <1>2 DEF SentInv, SyncPlaces, Moves
  <1>10. ReleaseIsConsistent'
    BY <1>1, <1>2 DEF ReleaseIsConsistent, ExportInv, Finished, Deployable, SyncPlaces,
       Artifacts, Has, Moves
  <1>11. OneRelease'
    BY <1>1, <1>2 DEF OneRelease, Artifacts, Moves
  <1>12. AgreesInv'
    BY <1>1, <1>2, <1>3, <1>4 DEF AgreesInv, Artifacts, Moves
  <1>13. NewInv'
    BY <1>1, FastIsElsewhere DEF SyncPlaces
  <1>14. WholeInv'
    BY <1>1, <1>2, <1>3, <1>4 DEF WholeInv, SentInv, SyncPlaces, Artifacts, Moves
  <1> QED
    BY <1>1, <1>5, <1>6, <1>7, <1>8, <1>9, <1>10, <1>11, <1>12, <1>13, <1>14

-----------------------------------------------------------------------------
(* The steps that take the lock or let go of it, and those of the weekly   *)
(* job.                                                                    *)

\* A step that leaves production, and all but the analysis in the output directory.
LEMMA WeeklyIsQuiet ==
    ASSUME SiteInv, prod' = prod, out'.audio = out.audio, out'.manifest = out.manifest,
           out'.recent = out.recent, out'.operations = out.operations
    PROVE  ReleaseIsConsistent' /\ OneRelease' /\ AgreesInv' /\ WholeInv'
  BY DEF SiteInv, InvariantOfData, ReleaseIsConsistent, OneRelease, AgreesInv, WholeInv

LEMMA InvalidateKeeps ==
    ASSUME SiteInv, NEW j \in Jobs, Invalidate(j)
    PROVE  LockInv' /\ InvariantOfData'
  <1> USE DEF SiteInv, InvariantOfData
  <1>1. /\ UNCHANGED <<out, prod, marks, work, published, damaged>>
        /\ lock = j /\ pc[j] = "invalidate" /\ lock' = "free"
    BY DEF Invalidate, At, weekly
  <1>2. \A i \in Jobs :
           pc'[i] = IF i = j THEN IF j = "fast" THEN "idle" ELSE "done" ELSE pc[i]
    BY GotoMoves DEF Invalidate
  <1>3. Where = "invalidate" /\ Where' = "free"
    BY <1>1 DEF Where, Jobs
  <1>4. LockInv'
    <2>1. /\ pc'[j] \in PlacesOf(j)
          /\ pc'[j] \notin HeldPlaces
      BY <1>2 DEF PlacesOf, HeldPlaces, ExportPlaces, DeployPlaces, SyncPlaces, Jobs
    <2>2. \A i \in Jobs : i # j => /\ pc'[i] \in PlacesOf(i)
                                  /\ pc'[i] \notin HeldPlaces
      BY <1>1, <1>2 DEF LockInv
    <2> QED
      BY <1>1, <2>1, <2>2 DEF LockInv, Jobs
  <1>5. ReleaseIsConsistent' /\ OneRelease' /\ AgreesInv' /\ WholeInv'
    BY <1>1, WeeklyIsQuiet
  <1>6. AnalysisInv'
    BY <1>1, <1>2, <1>3 DEF AnalysisInv
  <1>7. WorkInv'
    BY <1>1, <1>2, <1>3 DEF WorkInv, Jobs
  <1>8. WeekInv'
    BY <1>1, <1>2, <1>3 DEF WeekInv, Jobs, HeldPlaces, ExportPlaces, DeployPlaces,
       SyncPlaces
  <1>9. ExportInv'
    BY <1>1, <1>2, <1>3 DEF ExportInv, Finished, SyncPlaces, Has, Deployable, Artifacts
  <1>10. SentInv'
    BY <1>1, <1>2, <1>3 DEF SentInv, SyncPlaces
  <1>11. NewInv'
    BY <1>1, <1>2, <1>3 DEF NewInv, Jobs, HeldPlaces, ExportPlaces, DeployPlaces,
       SyncPlaces
  <1> QED
    BY <1>4, <1>5, <1>6, <1>7, <1>8, <1>9, <1>10, <1>11

LEMMA BeginFastKeeps ==
    ASSUME SiteInv, BeginFast
    PROVE  LockInv' /\ InvariantOfData'
  <1> USE DEF SiteInv, InvariantOfData
  <1>1. /\ UNCHANGED <<out, prod, marks, work, published, damaged>>
        /\ lock = "free" /\ pc["fast"] = "idle" /\ lock' = "fast"
    BY DEF BeginFast, weekly
  <1>2. pc'["fast"] = "preserve" /\ pc'["lexical"] = pc["lexical"]
    BY GotoMoves DEF BeginFast, Jobs
  <1>3. Where = "free" /\ Where' = "preserve"
    BY <1>1, <1>2 DEF Where
  <1>4. LockInv'
    <2>1. "preserve" \in PlacesOf("fast") /\ "preserve" \in HeldPlaces
      BY DEF PlacesOf, HeldPlaces, ExportPlaces
    <2>2. pc["lexical"] \in PlacesOf("lexical") /\ pc["lexical"] \notin HeldPlaces
      BY <1>1 DEF LockInv, Jobs
    <2> QED
      BY <1>1, <1>2, <2>1, <2>2 DEF LockInv, Jobs
  <1>5. ReleaseIsConsistent' /\ OneRelease' /\ AgreesInv' /\ WholeInv'
    BY <1>1, WeeklyIsQuiet
  <1>6. AnalysisInv'
    BY <1>1, <1>2, <1>3 DEF AnalysisInv
  <1>7. WorkInv'
    BY <1>1, <1>2, <1>3 DEF WorkInv, Jobs
  <1>8. WeekInv'
    BY <1>1, <1>2, <1>3 DEF WeekInv, Jobs, HeldPlaces, ExportPlaces, DeployPlaces,
       SyncPlaces
  <1>9. ExportInv'
    BY <1>1, <1>2, <1>3 DEF ExportInv, Finished, SyncPlaces, Has, Deployable, Artifacts
  <1>10. SentInv'
    BY <1>1, <1>2, <1>3 DEF SentInv, SyncPlaces
  <1>11. NewInv'
    BY <1>1, <1>2, <1>3 DEF NewInv, Jobs, HeldPlaces, ExportPlaces, DeployPlaces,
       SyncPlaces
  <1> QED
    BY <1>4, <1>5, <1>6, <1>7, <1>8, <1>9, <1>10, <1>11

LEMMA BeginLexicalKeeps ==
    ASSUME SiteInv, BeginLexical
    PROVE  LockInv' /\ InvariantOfData'
  <1> USE DEF SiteInv, InvariantOfData
  <1>1. /\ UNCHANGED <<out, work, marks, lock, prod, published, kept, chosen>>
        /\ damaged' = damaged /\ "refresh" \notin marks
    BY DEF BeginLexical, Lexical, TypeOK, Sites
  <1>2. /\ pc["lexical"] = "idle" /\ pc'["lexical"] = "export"
        /\ pc'["fast"] = pc["fast"]
    BY GotoMoves DEF BeginLexical, Lexical, Jobs
  <1>3. /\ pc["lexical"] \notin HeldPlaces
        /\ pc'["lexical"] \in PlacesOf("lexical") \ HeldPlaces
    BY <1>2 DEF PlacesOf, HeldPlaces, ExportPlaces, DeployPlaces, SyncPlaces
  <1>4. LockInv' /\ Where' = Where
    BY <1>1, <1>2, <1>3, LexicalIsElsewhere
  <1>5. ReleaseIsConsistent' /\ OneRelease' /\ AgreesInv' /\ WholeInv'
    BY <1>1, WeeklyIsQuiet
  <1>6. AnalysisInv'
    BY <1>1, <1>2, <1>4 DEF AnalysisInv
  <1>7. WorkInv'
    BY <1>1, <1>2, <1>4 DEF WorkInv, Jobs
  <1>8. WeekInv'
    BY <1>1, <1>2, <1>4 DEF WeekInv, Jobs, HeldPlaces, ExportPlaces, DeployPlaces,
       SyncPlaces
  <1>9. ExportInv'
    BY <1>1, <1>2, <1>4 DEF ExportInv, Finished, SyncPlaces, Has, Deployable, Artifacts
  <1>10. SentInv'
    BY <1>1, <1>2, <1>4 DEF SentInv, SyncPlaces
  <1>11. NewInv'
    BY <1>1, <1>2, <1>4 DEF NewInv, Jobs, HeldPlaces, ExportPlaces, DeployPlaces,
       SyncPlaces
  <1> QED
    BY <1>4, <1>5, <1>6, <1>7, <1>8, <1>9, <1>10, <1>11

LEMMA KeepManifestKeeps ==
    ASSUME SiteInv, KeepManifest
    PROVE  LockInv' /\ InvariantOfData'
  <1> USE DEF SiteInv, InvariantOfData
  <1>1. /\ UNCHANGED <<out, work, prod, published, kept, chosen>>
        /\ damaged' = damaged
        /\ lock' = "free" /\ marks' = marks \cup {"export"}
    BY DEF KeepManifest, Lexical, TypeOK, Sites
  <1>2. /\ pc["lexical"] = "keep manifest" /\ pc'["lexical"] = "analyse"
        /\ pc'["fast"] = pc["fast"]
    BY GotoMoves DEF KeepManifest, Lexical, Jobs
  <1>3. Where = "keep manifest" /\ Where' = "free"
    BY <1>1, <1>2 DEF Where, LockInv, PlacesOf, HeldPlaces, ExportPlaces, DeployPlaces,
       SyncPlaces, Jobs
  <1>4. LockInv'
    BY <1>1, <1>2 DEF LockInv, PlacesOf, HeldPlaces, ExportPlaces, DeployPlaces,
       SyncPlaces, Jobs
  <1>5. ReleaseIsConsistent' /\ OneRelease' /\ AgreesInv' /\ WholeInv'
    BY <1>1, WeeklyIsQuiet
  <1>6. AnalysisInv'
    BY <1>1, <1>2, <1>3 DEF AnalysisInv
  <1>7. WorkInv'
    BY <1>1, <1>2, <1>3 DEF WorkInv, Jobs
  <1>8. WeekInv'
    BY <1>1, <1>2, <1>3 DEF WeekInv, Jobs, HeldPlaces, ExportPlaces, DeployPlaces,
       SyncPlaces
  <1>9. ExportInv'
    BY <1>1, <1>2, <1>3 DEF ExportInv, Finished, SyncPlaces, Has, Deployable, Artifacts
  <1>10. SentInv'
    BY <1>1, <1>2, <1>3 DEF SentInv, SyncPlaces
  <1>11. NewInv'
    BY <1>1, <1>2, <1>3 DEF NewInv, Jobs, HeldPlaces, ExportPlaces, DeployPlaces,
       SyncPlaces
  <1> QED
    BY <1>4, <1>5, <1>6, <1>7, <1>8, <1>9, <1>10, <1>11

LEMMA AnalyseIndexKeeps ==
    ASSUME SiteInv, AnalyseIndex
    PROVE  LockInv' /\ InvariantOfData'
  <1> USE DEF SiteInv, InvariantOfData
  <1>1. /\ UNCHANGED <<out, marks, lock, prod, published, kept, chosen>>
        /\ damaged' = damaged /\ "analysis" \notin marks
        /\ work' = work \cup {<<"index", ThisWeek>>}
    BY DEF AnalyseIndex, Lexical, TypeOK, Sites
  <1>2. /\ pc["lexical"] = "analyse" /\ pc'["lexical"] = "analyse text"
        /\ pc'["fast"] = pc["fast"]
    BY GotoMoves DEF AnalyseIndex, Lexical, Jobs
  <1>3. /\ pc["lexical"] \notin HeldPlaces
        /\ pc'["lexical"] \in PlacesOf("lexical") \ HeldPlaces
    BY <1>2 DEF PlacesOf, HeldPlaces, ExportPlaces, DeployPlaces, SyncPlaces
  <1>4. LockInv' /\ Where' = Where
    BY <1>1, <1>2, <1>3, LexicalIsElsewhere
  <1>5. ReleaseIsConsistent' /\ OneRelease' /\ AgreesInv' /\ WholeInv'
    BY <1>1, WeeklyIsQuiet
  <1>6. AnalysisInv'
    BY <1>1, <1>2, <1>4 DEF AnalysisInv
  <1>7. WorkInv'
    BY <1>1, <1>2, <1>4 DEF WorkInv, Jobs
  <1>8. WeekInv'
    BY <1>1, <1>2, <1>4 DEF WeekInv, Jobs, HeldPlaces, ExportPlaces, DeployPlaces,
       SyncPlaces
  <1>9. ExportInv'
    BY <1>1, <1>2, <1>4 DEF ExportInv, Finished, SyncPlaces, Has, Deployable, Artifacts
  <1>10. SentInv'
    BY <1>1, <1>2, <1>4 DEF SentInv, SyncPlaces
  <1>11. NewInv'
    BY <1>1, <1>2, <1>4 DEF NewInv, Jobs, HeldPlaces, ExportPlaces, DeployPlaces,
       SyncPlaces
  <1> QED
    BY <1>4, <1>5, <1>6, <1>7, <1>8, <1>9, <1>10, <1>11

LEMMA AnalyseTextKeeps ==
    ASSUME SiteInv, AnalyseText
    PROVE  LockInv' /\ InvariantOfData'
  <1> USE DEF SiteInv, InvariantOfData
  <1>1. /\ UNCHANGED <<out, lock, prod, published, kept, chosen>>
        /\ damaged' = damaged /\ marks' = marks \cup {"analysis"}
        /\ work' = work \cup {<<"lexical", ThisWeek>>}
    BY DEF AnalyseText, Lexical, TypeOK, Sites
  <1>2. /\ pc["lexical"] = "analyse text" /\ pc'["lexical"] = "analyse"
        /\ pc'["fast"] = pc["fast"]
    BY GotoMoves DEF AnalyseText, Lexical, Jobs
  <1>3. /\ pc["lexical"] \notin HeldPlaces
        /\ pc'["lexical"] \in PlacesOf("lexical") \ HeldPlaces
    BY <1>2 DEF PlacesOf, HeldPlaces, ExportPlaces, DeployPlaces, SyncPlaces
  <1>4. LockInv' /\ Where' = Where
    BY <1>1, <1>2, <1>3, LexicalIsElsewhere
  <1>5. ReleaseIsConsistent' /\ OneRelease' /\ AgreesInv' /\ WholeInv'
    BY <1>1, WeeklyIsQuiet
  <1>6. AnalysisInv'
    BY <1>1, <1>2, <1>4 DEF AnalysisInv
  <1>7. WorkInv'
    BY <1>1, <1>2, <1>4 DEF WorkInv, TypeOK, Whole
  <1>8. WeekInv'
    BY <1>1, <1>2, <1>4 DEF WeekInv, Jobs, HeldPlaces, ExportPlaces, DeployPlaces,
       SyncPlaces
  <1>9. ExportInv'
    BY <1>1, <1>2, <1>4 DEF ExportInv, Finished, SyncPlaces, Has, Deployable, Artifacts
  <1>10. SentInv'
    BY <1>1, <1>2, <1>4 DEF SentInv, SyncPlaces
  <1>11. NewInv'
    BY <1>1, <1>2, <1>4 DEF NewInv, Jobs, HeldPlaces, ExportPlaces, DeployPlaces,
       SyncPlaces
  <1> QED
    BY <1>4, <1>5, <1>6, <1>7, <1>8, <1>9, <1>10, <1>11

LEMMA LockForSwapKeeps ==
    ASSUME SiteInv, LockForSwap
    PROVE  LockInv' /\ InvariantOfData'
  <1> USE DEF SiteInv, InvariantOfData
  <1>1. /\ UNCHANGED <<out, work, marks, prod, published, kept, chosen>>
        /\ damaged' = damaged /\ "analysis" \in marks
        /\ lock = "free" /\ lock' = "lexical"
    BY DEF LockForSwap, Lexical, TypeOK, Sites
  <1>2. /\ pc["lexical"] = "analyse" /\ pc'["lexical"] = "set aside"
        /\ pc'["fast"] = pc["fast"]
    BY GotoMoves DEF LockForSwap, Lexical, Jobs
  <1>3. Where = "free" /\ Where' = "set aside"
    BY <1>1, <1>2 DEF Where
  <1>4. LockInv'
    BY <1>1, <1>2 DEF LockInv, PlacesOf, HeldPlaces, ExportPlaces, DeployPlaces,
       SyncPlaces, Jobs
  <1>5. ReleaseIsConsistent' /\ OneRelease' /\ AgreesInv' /\ WholeInv'
    BY <1>1, WeeklyIsQuiet
  <1>6. AnalysisInv'
    BY <1>1, <1>2, <1>3 DEF AnalysisInv
  <1>7. WorkInv'
    BY <1>1, <1>2, <1>3 DEF WorkInv, Jobs
  <1>8. WeekInv'
    BY <1>1, <1>2, <1>3 DEF WeekInv, Jobs, HeldPlaces, ExportPlaces, DeployPlaces,
       SyncPlaces
  <1>9. ExportInv'
    BY <1>1, <1>2, <1>3 DEF ExportInv, Finished, SyncPlaces, Has, Deployable, Artifacts
  <1>10. SentInv'
    BY <1>1, <1>2, <1>3 DEF SentInv, SyncPlaces
  <1>11. NewInv'
    BY <1>1, <1>2, <1>3 DEF NewInv, Jobs, HeldPlaces, ExportPlaces, DeployPlaces,
       SyncPlaces
  <1> QED
    BY <1>4, <1>5, <1>6, <1>7, <1>8, <1>9, <1>10, <1>11

LEMMA SetAsideKeeps ==
    ASSUME SiteInv, SetAside
    PROVE  LockInv' /\ InvariantOfData'
  <1> USE DEF SiteInv, InvariantOfData
  <1>1. /\ UNCHANGED <<lock, work, marks, prod, published, kept, chosen>>
        /\ damaged' = damaged
        /\ out'.audio = out.audio /\ out'.manifest = out.manifest
        /\ out'.recent = out.recent /\ out'.operations = out.operations
    BY DEF SetAside, Lexical, TypeOK, Sites
  <1>2. /\ pc["lexical"] = "set aside" /\ pc'["lexical"] = "swap in"
        /\ pc'["fast"] = pc["fast"]
    BY GotoMoves DEF SetAside, Lexical, Jobs
  <1>3. Where = "set aside" /\ Where' = "swap in"
    BY <1>1, <1>2 DEF Where, LockInv, PlacesOf, HeldPlaces, ExportPlaces, DeployPlaces,
       SyncPlaces, Jobs
  <1>4. LockInv'
    BY <1>1, <1>2 DEF LockInv, PlacesOf, HeldPlaces, ExportPlaces, DeployPlaces,
       SyncPlaces, Jobs
  <1>5. ReleaseIsConsistent' /\ OneRelease' /\ AgreesInv' /\ WholeInv'
    BY <1>1, WeeklyIsQuiet
  <1>6. AnalysisInv'
    BY <1>1, <1>2, <1>3 DEF AnalysisInv
  <1>7. WorkInv'
    BY <1>1, <1>2, <1>3 DEF WorkInv, Jobs
  <1>8. WeekInv'
    BY <1>1, <1>2, <1>3 DEF WeekInv, Jobs, HeldPlaces, ExportPlaces, DeployPlaces,
       SyncPlaces
  <1>9. ExportInv'
    BY <1>1, <1>2, <1>3 DEF ExportInv, Finished, SyncPlaces, Has, Deployable, Artifacts
  <1>10. SentInv'
    BY <1>1, <1>2, <1>3 DEF SentInv, SyncPlaces
  <1>11. NewInv'
    BY <1>1, <1>2, <1>3 DEF NewInv, Jobs, HeldPlaces, ExportPlaces, DeployPlaces,
       SyncPlaces
  <1> QED
    BY <1>4, <1>5, <1>6, <1>7, <1>8, <1>9, <1>10, <1>11

LEMMA SwapInKeeps ==
    ASSUME SiteInv, SwapIn
    PROVE  LockInv' /\ InvariantOfData'
  <1> USE DEF SiteInv, InvariantOfData
  <1>1. /\ UNCHANGED <<lock, work, marks, prod, published, kept, chosen>>
        /\ damaged' = FALSE /\ out'.analysis = work
        /\ out'.audio = out.audio /\ out'.manifest = out.manifest
        /\ out'.recent = out.recent /\ out'.operations = out.operations
    BY DEF SwapIn, Lexical, TypeOK, Sites
  <1>2. /\ pc["lexical"] = "swap in" /\ pc'["lexical"] = "verify"
        /\ pc'["fast"] = pc["fast"]
    BY GotoMoves DEF SwapIn, Lexical, Jobs
  <1>3. Where = "swap in" /\ Where' = "verify"
    BY <1>1, <1>2 DEF Where, LockInv, PlacesOf, HeldPlaces, ExportPlaces, DeployPlaces,
       SyncPlaces, Jobs
  <1>4. LockInv'
    BY <1>1, <1>2 DEF LockInv, PlacesOf, HeldPlaces, ExportPlaces, DeployPlaces,
       SyncPlaces, Jobs
  <1>5. ReleaseIsConsistent' /\ OneRelease' /\ AgreesInv' /\ WholeInv'
    BY <1>1, WeeklyIsQuiet
  <1>6. AnalysisInv'
    BY <1>1, <1>2, <1>3 DEF AnalysisInv, IsWhole, WorkInv
  <1>7. WorkInv'
    BY <1>1, <1>2, <1>3 DEF WorkInv, Jobs
  <1>8. WeekInv'
    BY <1>1, <1>2, <1>3 DEF WeekInv, WorkInv, HeldPlaces, ExportPlaces, DeployPlaces,
       SyncPlaces, Jobs
  <1>9. ExportInv'
    BY <1>1, <1>2, <1>3 DEF ExportInv, Finished, SyncPlaces, Has, Deployable, Artifacts
  <1>10. SentInv'
    BY <1>1, <1>2, <1>3 DEF SentInv, SyncPlaces
  <1>11. NewInv'
    BY <1>1, <1>2, <1>3 DEF NewInv, Jobs, HeldPlaces, ExportPlaces, DeployPlaces,
       SyncPlaces
  <1> QED
    BY <1>4, <1>5, <1>6, <1>7, <1>8, <1>9, <1>10, <1>11

LEMMA CompleteRefreshKeeps ==
    ASSUME SiteInv, CompleteRefresh
    PROVE  LockInv' /\ InvariantOfData'
  <1> USE DEF SiteInv, InvariantOfData
  <1>1. /\ UNCHANGED <<out, lock, prod, published, kept, chosen>>
        /\ damaged' = damaged /\ marks' = marks \cup {"refresh"}
    BY DEF CompleteRefresh, Lexical, TypeOK, Sites
  <1>2. /\ pc["lexical"] = "done" /\ pc'["lexical"] = "idle"
        /\ pc'["fast"] = pc["fast"]
    BY GotoMoves DEF CompleteRefresh, Lexical, Jobs
  <1>3. /\ pc["lexical"] \notin HeldPlaces
        /\ pc'["lexical"] \in PlacesOf("lexical") \ HeldPlaces
    BY <1>2 DEF PlacesOf, HeldPlaces, ExportPlaces, DeployPlaces, SyncPlaces
  <1>4. LockInv' /\ Where' = Where
    BY <1>1, <1>2, <1>3, LexicalIsElsewhere
  <1>5. ReleaseIsConsistent' /\ OneRelease' /\ AgreesInv' /\ WholeInv'
    BY <1>1, WeeklyIsQuiet
  <1>6. AnalysisInv'
    BY <1>1, <1>2, <1>4 DEF AnalysisInv
  <1>7. WorkInv'
    BY <1>1, <1>2, <1>4 DEF WorkInv, Jobs
  <1>8. WeekInv'
    BY <1>1, <1>2, <1>4 DEF WeekInv, Jobs, HeldPlaces, ExportPlaces, DeployPlaces,
       SyncPlaces
  <1>9. ExportInv'
    BY <1>1, <1>2, <1>4 DEF ExportInv, Finished, SyncPlaces, Has, Deployable, Artifacts
  <1>10. SentInv'
    BY <1>1, <1>2, <1>4 DEF SentInv, SyncPlaces
  <1>11. NewInv'
    BY <1>1, <1>2, <1>4 DEF NewInv, Jobs, HeldPlaces, ExportPlaces, DeployPlaces,
       SyncPlaces
  <1> QED
    BY <1>4, <1>5, <1>6, <1>7, <1>8, <1>9, <1>10, <1>11

LEMMA LockForExportKeeps ==
    ASSUME SiteInv, LockForExport
    PROVE  LockInv' /\ InvariantOfData'
  <1> USE DEF SiteInv, InvariantOfData
  <1>1. /\ UNCHANGED <<out, prod, marks, work, published, damaged, kept, chosen>>
        /\ lock = "free" /\ pc["lexical"] = "export" /\ Where = "free"
    BY DEF LockForExport, Lexical, Where, TypeOK
  <1>2. /\ pc'["fast"] = pc["fast"]
        /\ \/ pc'["lexical"] = "analyse" /\ lock' = "free"
           \/ pc'["lexical"] = "preserve" /\ lock' = "lexical"
    BY GotoMoves, <1>1 DEF LockForExport, Lexical, Jobs
  <1>3. Where' \in {"free", "preserve"}
    BY <1>2 DEF Where
  <1>4. LockInv'
    BY <1>1, <1>2 DEF LockInv, PlacesOf, HeldPlaces, ExportPlaces, DeployPlaces,
       SyncPlaces, Jobs
  <1>5. ReleaseIsConsistent' /\ OneRelease' /\ AgreesInv' /\ WholeInv'
    BY <1>1, WeeklyIsQuiet
  <1>6. AnalysisInv'
    BY <1>1, <1>2, <1>3 DEF AnalysisInv
  <1>7. WorkInv'
    BY <1>1, <1>2, <1>3 DEF WorkInv, Jobs
  <1>8. WeekInv'
    BY <1>1, <1>2, <1>3 DEF WeekInv, Jobs, HeldPlaces, ExportPlaces, DeployPlaces,
       SyncPlaces
  <1>9. ExportInv'
    BY <1>1, <1>2, <1>3 DEF ExportInv, Finished, SyncPlaces, Has, Deployable, Artifacts
  <1>10. SentInv'
    BY <1>1, <1>2, <1>3 DEF SentInv, SyncPlaces
  <1>11. NewInv'
    BY <1>1, <1>2, <1>3 DEF NewInv, Jobs, HeldPlaces, ExportPlaces, DeployPlaces,
       SyncPlaces
  <1> QED
    BY <1>4, <1>5, <1>6, <1>7, <1>8, <1>9, <1>10, <1>11

-----------------------------------------------------------------------------
(* A job that ends early, and the whole step.                              *)

LEMMA HolderEnds ==
    ASSUME SiteInv, NEW j \in Jobs, Ended(j), lock = j
    PROVE  InvariantOfData'
  <1> USE DEF SiteInv, InvariantOfData
  <1>1. Where = pc[j] /\ Where' = "free" /\ \A i \in Jobs \ {j} : pc[i] \notin HeldPlaces
    BY EndLocks DEF LockInv
  <1>2. /\ marks' = marks /\ work' = work /\ prod'.release = prod.release
        /\ pc'["lexical"] \in {"idle", pc["lexical"]}
        /\ pc'["fast"] \in {"idle", pc["fast"]}
        /\ published => published'
        /\ prod'.analysis = Whole(ThisWeek) => published'
    BY DEF Ended, Jobs
  <1>3. AnalysisInv'
    <2> SUFFICES ASSUME ~damaged'
                 PROVE  IsWhole(out.analysis) /\ out'.analysis = out.analysis
      BY <1>1 DEF AnalysisInv
    <2>1. ~damaged /\ ~Endangers(j)
      BY DEF Ended
    <2>2. IsWhole(out.analysis)
      BY <1>1, <2>1 DEF AnalysisInv, Endangers
    <2> QED
      BY <2>1, <2>2, WholeIsNotEmpty DEF Ended, IsWhole
  <1>4. WorkInv'
    BY <1>2 DEF WorkInv
  <1>5. WeekInv'
    <2>1. pc'["lexical"] \notin DeployPlaces
      BY <1>1 DEF Ended, Jobs, HeldPlaces, DeployPlaces, SyncPlaces
    <2> QED
      BY <1>2, <2>1 DEF WeekInv, DeployPlaces, SyncPlaces
  <1>6. Finished'
    <2> SUFFICES ASSUME out'.operations # None
                 PROVE  /\ out.operations # None /\ out'.manifest = out.manifest
                        /\ out'.recent = out.recent /\ out'.audio = out.audio
      BY DEF ExportInv, Finished, Has
    <2>1. pc[j] # "clear" /\ out.operations # None
      BY DEF Ended
    <2>2. pc[j] \notin {"restore clips", "choose", "snapshot"}
      BY <1>1, <2>1 DEF ExportInv
    <2> QED
      BY <2>1, <2>2 DEF Ended
  <1>7. ExportInv' /\ SentInv'
    BY <1>1, <1>6 DEF ExportInv, SentInv, SyncPlaces
  <1>8. ReleaseIsConsistent' /\ OneRelease'
    BY <1>2 DEF ReleaseIsConsistent, OneRelease, Ended
  <1>9. ASSUME NEW release \in prod.release, release.manifest.gen = out'.manifest.gen
        PROVE  /\ pc[j] \notin {"clear", "restore clips", "choose", "snapshot"}
               /\ out'.manifest = out.manifest
    <2>1. /\ release.manifest.gen > 0 /\ release.manifest.gen \in Int
          /\ release.manifest = prod.manifest
      BY DEF ReleaseIsConsistent, OneRelease, TypeOK, Productions, Sites, Manifests
    <2>2. pc[j] # "clear"
      <3>1. ~(out'.manifest.gen <= 0)
        BY <1>9, <2>1
      <3> QED
        BY <3>1 DEF Ended
    <2>3. out'.manifest = out.manifest
      BY <2>2 DEF Ended
    <2>4. pc[j] \notin {"restore clips", "choose"}
      <3>1. out.manifest # Sample
        BY <1>9, <2>1, <2>3 DEF Sample
      <3> QED
        BY <1>1, <3>1 DEF ExportInv
    <2>5. pc[j] # "snapshot"
      BY <1>1, <1>9, <2>1, <2>3 DEF NewInv
    <2> QED
      BY <2>2, <2>3, <2>4, <2>5
  <1>10. AgreesInv'
    BY <1>2, <1>9 DEF AgreesInv, Ended
  <1>11. NewInv'
    <2>1. pc'["fast"] \notin {"operations", "verify", "deploy"} \cup SyncPlaces
      <3>1. CASE j = "fast"
        BY <3>1 DEF Ended, SyncPlaces
      <3>2. CASE j = "lexical"
        <4>1. pc'["fast"] = pc["fast"] /\ pc["fast"] \notin HeldPlaces
          BY <1>1, <3>2 DEF Ended, Jobs
        <4> QED
          BY <4>1 DEF HeldPlaces, DeployPlaces
      <3> QED
        BY <3>1, <3>2 DEF Jobs
    <2> QED
      BY <1>1, <2>1 DEF NewInv
  <1>12. WholeInv'
    <2> SUFFICES ASSUME NEW release \in prod.release, release.analysis = Whole(ThisWeek),
                        release.manifest.gen = out'.manifest.gen
                 PROVE  Artifacts(prod') = release
      BY <1>2 DEF WholeInv
    <2>1. out'.manifest = out.manifest
      BY <1>9
    <2>2. Artifacts(prod) = release
      BY <2>1 DEF WholeInv
    <2>3. pc[j] \notin {"clips", "analysis"}
      BY <2>1, ReleasesDiffer DEF At, SyncPlaces
    <2> QED
      BY <2>2, <2>3 DEF Ended, Artifacts
  <1> QED
    BY <1>3, <1>4, <1>5, <1>7, <1>8, <1>10, <1>11, <1>12

LEMMA OtherEnds ==
    ASSUME SiteInv, NEW j \in Jobs, Ended(j), lock # j
    PROVE  InvariantOfData'
  <1> USE DEF SiteInv, InvariantOfData
  <1>1. Where' = Where /\ pc[j] \notin HeldPlaces
    BY EndLocks
  <1>2. /\ marks' = marks /\ work' = work /\ kept' = kept /\ chosen' = chosen
        /\ damaged' = damaged
        /\ published => published'
        /\ prod'.analysis = prod.analysis /\ prod'.audio = prod.audio
        /\ prod'.manifest = prod.manifest /\ prod'.release = prod.release
        /\ prod'.recent = prod.recent /\ prod'.operations = prod.operations
        /\ out'.audio = out.audio /\ out'.manifest = out.manifest
        /\ out'.recent = out.recent /\ out'.operations = out.operations
        /\ out.analysis # {} => out'.analysis = out.analysis
    BY <1>1 DEF Ended, Endangers, HeldPlaces, ExportPlaces, DeployPlaces, SyncPlaces,
       TypeOK
  <1>3. /\ pc'["fast"] = pc["fast"] /\ j = "lexical"
        /\ pc'["lexical"] = "idle"
    BY <1>1 DEF Ended, LockInv, PlacesOf, HeldPlaces, Jobs
  <1>4. Has(out') = Has(out)
    BY <1>2 DEF Has
  <1>5. Where \in SyncPlaces => out'.analysis = out.analysis
    BY <1>2 DEF ExportInv, Deployable
  <1>6. AnalysisInv'
    <2>1. IsWhole(out.analysis) => out'.analysis = out.analysis
      BY <1>2, WholeIsNotEmpty DEF IsWhole
    <2> SUFFICES ASSUME ~damaged'
                 PROVE  /\ Where \notin {"restore analysis", "swap in"}
                               => IsWhole(out'.analysis)
                        /\ Where \in {"clear", "restore analysis"}
                               => IsWhole(kept'.analysis)
      BY <1>1 DEF AnalysisInv
    <2>2. ~damaged
      BY <1>2
    <2>3. Where \notin {"restore analysis", "swap in"} => IsWhole(out'.analysis)
      BY <2>1, <2>2 DEF AnalysisInv
    <2> QED
      BY <1>2, <2>2, <2>3 DEF AnalysisInv
  <1>7. WorkInv'
    BY <1>2, <1>3 DEF WorkInv
  <1>13. WeekInv'
    <2>1. pc'["lexical"] \notin DeployPlaces \cup {"done"}
      BY <1>3 DEF DeployPlaces, SyncPlaces
    <2> QED
      BY <1>2, <2>1 DEF WeekInv, DeployPlaces, SyncPlaces
  <1>8. ExportInv'
    BY <1>1, <1>2, <1>4, <1>5 DEF ExportInv, Finished, Deployable, Artifacts
  <1>9. SentInv'
    BY <1>1, <1>2, <1>5 DEF SentInv
  <1>10. ReleaseIsConsistent' /\ OneRelease' /\ AgreesInv'
    BY <1>2 DEF ReleaseIsConsistent, OneRelease, AgreesInv
  <1>11. NewInv'
    BY <1>1, <1>2, <1>3 DEF NewInv
  <1>12. WholeInv'
    BY <1>2 DEF WholeInv, Artifacts
  <1> QED
    BY <1>6, <1>7, <1>8, <1>9, <1>10, <1>11, <1>12, <1>13

LEMMA EndKeeps ==
    ASSUME SiteInv, NEW j \in Jobs, Ended(j)
    PROVE  LockInv' /\ InvariantOfData'
  <1>1. LockInv'
    BY EndLocks DEF SiteInv
  <1>2. CASE lock = j
    BY <1>1, <1>2, HolderEnds
  <1>3. CASE lock # j
    BY <1>1, <1>3, OtherEnds
  <1> QED
    BY <1>2, <1>3

\* Nothing that the invariant is about changes.
LEMMA NothingMoves ==
    ASSUME SiteInv,
           UNCHANGED <<out, kept, chosen, prod, lock, pc, marks, work, published,
                       damaged>>
    PROVE  LockInv' /\ InvariantOfData'
  <1> USE DEF SiteInv, InvariantOfData
  <1>1. LockInv' /\ Where' = Where
    BY DEF LockInv, Where
  <1>2. AnalysisInv' /\ WorkInv' /\ WeekInv'
    BY <1>1 DEF AnalysisInv, WorkInv, WeekInv
  <1>3. ExportInv' /\ SentInv'
    BY <1>1 DEF ExportInv, Finished, SentInv, Deployable, Has
  <1>4. ReleaseIsConsistent' /\ OneRelease' /\ AgreesInv'
    BY DEF ReleaseIsConsistent, OneRelease, AgreesInv
  <1>5. NewInv' /\ WholeInv'
    BY <1>1 DEF NewInv, WholeInv
  <1> QED
    BY <1>1, <1>2, <1>3, <1>4, <1>5

LEMMA InitKeeps == Init => SiteInv
  <1> SUFFICES ASSUME Init PROVE SiteInv
    OBVIOUS
  <1>1. TypeOK
    BY InitTyped
  <1>2. LockInv /\ Where = "free"
    BY DEF Init, LockInv, Where, PlacesOf, HeldPlaces, ExportPlaces, DeployPlaces,
       SyncPlaces, Jobs
  <1>3. pc["fast"] = "idle" /\ pc["lexical"] = "idle"
    BY DEF Init, Jobs
  <1>4. AnalysisInv /\ WorkInv
    BY <1>2, <1>3 DEF Init, AnalysisInv, IsWhole, WorkInv
  <1>5. WeekInv
    BY <1>3, WholeIsNotEmpty DEF Init, WeekInv, DeployPlaces, SyncPlaces
  <1>6. ExportInv /\ SentInv
    BY <1>2 DEF Init, ExportInv, Finished, SentInv, SyncPlaces
  <1>7. ReleaseIsConsistent /\ OneRelease /\ AgreesInv /\ WholeInv
    BY DEF Init, ReleaseIsConsistent, OneRelease, AgreesInv, WholeInv
  <1>8. NewInv
    BY <1>2, <1>3 DEF NewInv, SyncPlaces
  <1> QED
    BY <1>1, <1>2, <1>4, <1>5, <1>6, <1>7, <1>8 DEF SiteInv, InvariantOfData

LEMMA ExportKeeps ==
    ASSUME SiteInv, NEW j \in Jobs, ExportStep(j)
    PROVE  LockInv' /\ InvariantOfData'
  BY PreserveKeeps, ClearKeeps, RestoreAnalysisKeeps, RestoreClipsKeeps, ChooseClipKeeps,
     RemoveUnusedKeeps, WriteManifestKeeps, WriteSnapshotKeeps DEF ExportStep

LEMMA DeployKeeps ==
    ASSUME SiteInv, NEW j \in Jobs, DeployStep(j)
    PROVE  LockInv' /\ InvariantOfData'
  <1>1. ASSUME Refuse(j)
        PROVE  LockInv' /\ InvariantOfData'
    BY <1>1, RefuseEnds, EndKeeps DEF SiteInv
  <1> QED
    BY <1>1, VerifyKeeps, StartDeployKeeps, SyncClipsKeeps, SyncAnalysisKeeps,
       CopyRecentKeeps, CopyOperationsKeeps, CommitKeeps, InvalidateKeeps DEF DeployStep

LEMMA StepKeeps ==
    ASSUME SiteInv, [Next]_vars
    PROVE  SiteInv'
  <1>1. CASE UNCHANGED vars
    <2>1. TypeOK'
      BY <1>1 DEF SiteInv, TypeOK, vars, weekly
    <2> QED
      BY <1>1, <2>1, NothingMoves DEF SiteInv, vars, weekly
  <1>2. CASE Next
    <2>1. TypeOK'
      BY <1>2, TypesKept DEF SiteInv, InvariantOfData
    <2>2. CASE ListClip
      BY <2>1, <2>2, NothingMoves DEF SiteInv, ListClip, weekly
    <2>3. CASE BeginFast \/ Operations
      BY <2>1, <2>3, BeginFastKeeps, OperationsKeeps DEF SiteInv
    <2>4. CASE BeginLexical \/ LockForExport \/ LockForSwap
      BY <2>1, <2>4, BeginLexicalKeeps, LockForExportKeeps, LockForSwapKeeps DEF SiteInv
    <2>5. CASE LexicalStep
      BY <2>1, <2>5, KeepManifestKeeps, AnalyseIndexKeeps, AnalyseTextKeeps,
         SetAsideKeeps,
         SwapInKeeps, CompleteRefreshKeeps DEF SiteInv, LexicalStep
    <2>6. CASE \E j \in Jobs : JobStep(j)
      BY <2>1, <2>6, ExportKeeps, DeployKeeps DEF SiteInv, JobStep
    <2>7. CASE \E j \in Jobs : Stop(j)
      BY <2>1, <2>7, StopEnds, EndKeeps DEF SiteInv
    <2> QED
      BY <1>2, <2>2, <2>3, <2>4, <2>5, <2>6, <2>7 DEF Next
  <1> QED
    BY <1>1, <1>2

\* The whole invariant: types, who holds the lock, and what is in the output
\* directory and in production at every place of the two jobs (the refresh
\* scripts and deploy_generated_public_assets.sh), for every set of clips and
\* every number of jobs that are stopped.
THEOREM SiteInvariant == Spec => []SiteInv
  <1>1. SiteInv /\ [Next]_vars => SiteInv'
    BY StepKeeps
  <1> QED
    BY InitKeeps, <1>1, PTL DEF Spec

\* Between the jobs the output directory has a whole analysis, unless a job was
\* stopped in the middle of moving it (publish._preserved_output_subdir,
\* refresh_lexical_analysis.sh).
THEOREM AnalysisKept == Spec => []AnalysisIsKept
  <1>1. SiteInv => AnalysisIsKept
    BY DEF SiteInv, InvariantOfData, AnalysisInv, AnalysisIsKept, IsWhole, Where
  <1> QED
    BY SiteInvariant, <1>1, PTL

\* What deploy_generated_public_assets.sh commits belongs together, what it skips
\* is in production already, and the week is only marked complete after its
\* analysis was there.
THEOREM DeploymentsRight == Spec => []DeploymentsAreRight
  <1>1. SiteInv => SkipIsSafe
    <2> SUFFICES ASSUME SiteInv, NEW j \in Jobs, At(j, "deploy"),
                        prod.release = {Artifacts(out)}
                 PROVE  Artifacts(prod) = Artifacts(out)
      BY DEF SkipIsSafe
    <2> USE DEF SiteInv, InvariantOfData
    <2>1. /\ Artifacts(out).manifest = prod.manifest
          /\ Artifacts(out).manifest = out.manifest
          /\ Artifacts(out).analysis = out.analysis
      BY DEF OneRelease, Artifacts
    <2>2. CASE j = "fast"
      BY <2>1, <2>2 DEF NewInv, At
    <2>3. CASE j = "lexical"
      <3>1. out.analysis = Whole(ThisWeek)
        BY <2>3 DEF WeekInv, DeployPlaces, At
      <3> QED
        BY <2>1, <3>1 DEF WholeInv
    <2> QED
      BY <2>2, <2>3 DEF Jobs
  <1>2. SiteInv => ReleaseIsConsistent /\ CompleteMeansPublished
    BY DEF SiteInv, InvariantOfData, WeekInv, CompleteMeansPublished
  <1>3. SiteInv => DeploymentsAreRight
    BY <1>1, <1>2 DEF DeploymentsAreRight
  <1> QED
    BY SiteInvariant, <1>3, PTL
-----------------------------------------------------------------------------
(* The DockTalk node.                                                      *)

NodeNext ==
    \/ Docktalk!Begin \/ Docktalk!InstallerStep \/ Docktalk!InstallerStops
    \/ Docktalk!Start \/ Docktalk!Fetch \/ Docktalk!Refresh
    \/ Docktalk!Dies \/ Docktalk!Reboot \/ Docktalk!Watchdog
    \/ \E c \in NodeChannels :
          Docktalk!RelayStep(c) \/ Docktalk!Break(c) \/ Docktalk!GoesDeaf(c)
    \/ Docktalk!NewPlan

CodeIsKept ==
    nodeSpent /\ nodeInstaller # "save" => nodeResponse \/ nodeIdentity \/ nodeLost

\* Where the installer is says what it has written, and a plan is only written when
\* it can be used.
PlansAreUsable ==
    /\ nodeInstaller \in {"plan", "own", "start"} => nodeIdentity
    /\ nodeInstaller \in {"own", "start"} => Docktalk!Usable(nodePlan)
    /\ nodeRuntime # Docktalk!NoPlan => Docktalk!Usable(nodeRuntime)
    /\ nodeEnabled => nodeIdentity /\ Docktalk!Usable(nodePlan)

NodeTypes == /\ {nodeSpent, nodeResponse, nodeIdentity, nodeLost, nodeEnabled} \subseteq BOOLEAN
             /\ nodeInstaller \in {"idle", "claim", "save", "identity", "plan", "own", "start"}

NodeInv == NodeTypes /\ CodeIsKept /\ PlansAreUsable

\* A node that was never installed.
LEMMA NodeInit == ASSUME Docktalk!Init PROVE NodeInv
BY DEF Docktalk!Init, NodeInv, NodeTypes, CodeIsKept, PlansAreUsable, Docktalk!NoPlan

\* The installer, one step after another.
LEMMA InstallerKeeps ==
    ASSUME NodeInv, Docktalk!Begin \/ Docktalk!InstallerStep \/ Docktalk!InstallerStops
    PROVE  NodeInv'
<1> USE DEF NodeInv, NodeTypes, CodeIsKept, PlansAreUsable, Docktalk!Installs,
            Docktalk!disk, Docktalk!service
<1>1. CASE Docktalk!Begin
  BY <1>1 DEF Docktalk!Begin
<1>2. CASE Docktalk!Claim
  BY <1>2 DEF Docktalk!Claim
<1>3. CASE Docktalk!SaveResponse
  BY <1>3 DEF Docktalk!SaveResponse
<1>4. CASE Docktalk!SaveIdentity
  BY <1>4 DEF Docktalk!SaveIdentity
<1>5. CASE Docktalk!SavePlan
  BY <1>5 DEF Docktalk!SavePlan
<1>6. CASE Docktalk!OpenFiles
  BY <1>6 DEF Docktalk!OpenFiles
<1>7. CASE Docktalk!StartService
  BY <1>7 DEF Docktalk!StartService
<1>8. CASE Docktalk!InstallerStops
  BY <1>8 DEF Docktalk!InstallerStops
<1> QED
  BY <1>1, <1>2, <1>3, <1>4, <1>5, <1>6, <1>7, <1>8 DEF Docktalk!InstallerStep

\* The service, the watchdog and the relays only ever change the runtime plan, for one
\* that can be used or for none.
LEMMA ServiceKeeps ==
    ASSUME NodeInv,
           Docktalk!Serves, nodeRuntime' = Docktalk!NoPlan \/ nodeRuntime' = nodeRuntime
                              \/ Docktalk!Usable(nodeRuntime')
    PROVE  NodeInv'
BY DEF NodeInv, NodeTypes, CodeIsKept, PlansAreUsable, Docktalk!Serves, Docktalk!disk

\* Every step of the node keeps the invariant.
LEMMA NodeStep == ASSUME NodeInv, NodeNext PROVE NodeInv'
<1>1. CASE Docktalk!Begin \/ Docktalk!InstallerStep \/ Docktalk!InstallerStops
  BY <1>1, InstallerKeeps
<1>2. CASE Docktalk!Start \/ Docktalk!Fetch
  BY <1>2, ServiceKeeps DEF Docktalk!Start, Docktalk!Fetch
<1>3. CASE Docktalk!Refresh
  BY <1>3, ServiceKeeps DEF Docktalk!Refresh, Docktalk!Loads
<1>4. CASE Docktalk!Dies \/ Docktalk!Reboot \/ Docktalk!Watchdog
  BY <1>4, ServiceKeeps DEF Docktalk!Dies, Docktalk!Reboot, Docktalk!Watchdog, Docktalk!Stops
<1>5. ASSUME NEW c \in NodeChannels,
             Docktalk!RelayStep(c) \/ Docktalk!Break(c) \/ Docktalk!GoesDeaf(c)
      PROVE  NodeInv'
  BY <1>5, ServiceKeeps
  DEF Docktalk!RelayStep, Docktalk!OpenLocal, Docktalk!OpenRemote, Docktalk!TimesOut,
      Docktalk!Break, Docktalk!GoesDeaf, Docktalk!Relays
<1>6. CASE Docktalk!NewPlan
  BY <1>6 DEF Docktalk!NewPlan, NodeInv, NodeTypes, CodeIsKept, PlansAreUsable,
       Docktalk!disk, Docktalk!service
<1> QED
  BY <1>1, <1>2, <1>3, <1>4, <1>5, <1>6 DEF NodeNext

\* Whatever plans the server comes to have, however often the installer, the service
\* and the Pi are stopped: the enrolment code is only wasted when the answer to it was
\* lost, and an installed service finds an identity and a plan it can use
\* (docktalk.py).
THEOREM NodeKeepsIdentityAlways == OperationsSpec => []NodeKeepsIdentity
<1> DEFINE Inv == part = "node" => NodeInv
<1>1. HostInit => Inv
  BY NodeInit DEF HostInit
<1>2. Inv /\ [HostNext]_allVars => Inv'
  <2> SUFFICES ASSUME part = "node" => NodeInv, [HostNext]_allVars, part' = "node"
               PROVE  NodeInv'
    OBVIOUS
  <2>1. part = "node" /\ (NodeNext \/ UNCHANGED NodeVars)
    BY DEF HostNext, Only, allVars, NodeNext
  <2>2. CASE NodeNext
    BY <2>1, <2>2, NodeStep
  <2>3. CASE UNCHANGED NodeVars
    BY <2>1, <2>3 DEF NodeVars, NodeInv, NodeTypes, CodeIsKept, PlansAreUsable
  <2> QED
    BY <2>1, <2>2, <2>3
<1>3. Inv => NodeKeepsIdentity
  BY DEF NodeKeepsIdentity, NodeInv, CodeIsKept, PlansAreUsable, Docktalk!NodeIsRight,
     Docktalk!Loaded
<1> QED
  BY <1>1, <1>2, <1>3, PTL DEF OperationsSpec
-----------------------------------------------------------------------------
(* The announcement of the API on the LAN.                                 *)

MdnsNext ==
    \/ Advertiser!Poll \/ Advertiser!Unregister \/ Advertiser!Close \/ Advertiser!Publish
    \/ Advertiser!Register \/ Advertiser!Wake \/ Advertiser!Restart
    \/ Advertiser!Stop \/ Advertiser!Crash \/ Advertiser!Move \/ Advertiser!Expire

MdnsTypes ==
    /\ mdnsLease \in Advertiser!Maybe /\ mdnsRead \in Advertiser!Maybe
    /\ mdnsPublisher \in Advertiser!Maybe
    /\ mdnsPc \in {"poll", "unregister", "close", "publish", "register", "wait",
                   "finally", "close finally", "ended"}

\* Between two changes everything is for the address that was announced, which the
\* LAN knows as long as its publisher is open.
AtRest ==
    /\ mdnsAdvertised = mdnsPublisher /\ mdnsService = mdnsPublisher
    /\ mdnsPublisher # Advertiser!None => mdnsPublisher \in mdnsLan

MdnsInv ==
    /\ MdnsTypes
    /\ mdnsOpen = {mdnsPublisher} \ {Advertiser!None}
    /\ mdnsPc \in {"poll", "wait"} => AtRest
    /\ mdnsPc = "wait" => mdnsPublisher = mdnsRead
    /\ mdnsPc = "publish" => /\ mdnsPublisher = Advertiser!None
                             /\ mdnsRead # Advertiser!None
    /\ mdnsPc = "register" => mdnsPublisher = mdnsRead /\ mdnsService = mdnsRead

\* A process that was just started announces nothing.
LEMMA MdnsInit == ASSUME Advertiser!Init PROVE MdnsInv
BY DEF Advertiser!Init, Advertiser!Maybe, Advertiser!None, MdnsInv, MdnsTypes, AtRest

\* Every step of the process, of DHCP and of the LAN keeps the invariant.
LEMMA MdnsStep ==
    ASSUME MdnsInv, MdnsNext
    PROVE  MdnsInv'
<1> USE DEF MdnsInv, MdnsTypes, AtRest, Advertiser!Maybe
<1>1. CASE Advertiser!Poll
  BY <1>1 DEF Advertiser!Poll
<1>2. CASE Advertiser!Unregister
  BY <1>2 DEF Advertiser!Unregister
<1>3. CASE Advertiser!Close
  BY <1>3 DEF Advertiser!Close, Advertiser!After
<1>4. CASE Advertiser!Publish
  BY <1>4 DEF Advertiser!Publish
<1>5. CASE Advertiser!Register
  BY <1>5 DEF Advertiser!Register
<1>6. CASE Advertiser!Wake
  BY <1>6 DEF Advertiser!Wake
<1>7. CASE Advertiser!Restart
  BY <1>7 DEF Advertiser!Restart
<1>8. CASE Advertiser!Stop \/ Advertiser!Crash
  BY <1>8 DEF Advertiser!Stop, Advertiser!Crash
<1>9. CASE Advertiser!Move
  BY <1>9 DEF Advertiser!Move
<1>10. CASE Advertiser!Expire
  BY <1>10 DEF Advertiser!Expire
<1> QED
  BY <1>1, <1>2, <1>3, <1>4, <1>5, <1>6, <1>7, <1>8, <1>9, <1>10 DEF MdnsNext

\* What the invariant says of a process at rest.
LEMMA MdnsIsRight == MdnsInv => Advertiser!AnnouncesWhatItRead
BY DEF MdnsInv, AtRest, Advertiser!AnnouncesWhatItRead, Advertiser!None
-----------------------------------------------------------------------------
(* The network recovery.                                                   *)

\* The cardinality the module counts with is the one of FiniteSets.
LEMMA Counts == ASSUME NEW S PROVE Network!Cardinality(S) = Cardinality(S)
BY DEF Network!Cardinality, Cardinality

NetNext ==
    \/ \E answers \in BOOLEAN : Network!Run(answers)
    \/ Network!Reconnect \/ Network!Crash \/ Network!Tick \/ Network!SetBack

NetTypes ==
    /\ netNow \in Int /\ netReal \in Nat /\ netRuns \in Nat
    /\ netState \in [failures : Nat, attempts : SUBSET Int]
    /\ IsFiniteSet(netState.attempts)
    /\ netPc \in {"idle", "reconnect"}
    /\ netMade \in Seq([at : Nat, noted : Int])
    /\ netOutage \in Int
    /\ netNow <= MaxSetback + netReal

\* What was made in the last window of the time that passes,
Young == {n \in 1 .. Len(netMade) : netReal - netMade[n].at < Window}

\* is still noted: on the wall clock it is no older than it is.
MadeIsNoted ==
    \A n \in 1 .. Len(netMade) :
        /\ netMade[n].at <= netReal
        /\ netNow - netMade[n].noted <= netReal - netMade[n].at
        /\ netReal - netMade[n].at < Window => netMade[n].noted \in netState.attempts

\* Attempts of one window are noted one after another.
MadeInOrder ==
    \A m, n \in 1 .. Len(netMade) : m < n =>
        /\ netMade[m].at <= netMade[n].at
        /\ netMade[n].at - netMade[m].at < Window => netMade[m].noted < netMade[n].noted

\* The attempt in hand is the newest that is noted, and may be made now.
InHand(a) ==
    /\ a \in netState.attempts /\ netNow <= a
    /\ \A t \in netState.attempts : t <= a
    /\ \A n \in Young : netMade[n].noted < a
    /\ Cardinality(Young) < Budget
    /\ Young # {} => netReal - netMade[Len(netMade)].at >= Pause[Cardinality(Young)]

AttemptsInv ==
    /\ NetTypes /\ MadeIsNoted /\ MadeInOrder /\ Network!AttemptsAreBounded
    /\ netPc = "reconnect" => \E a \in netState.attempts : InHand(a)

ClockIsRight == netNow = MaxSetback + netReal
Ran == IF netRuns > 0 THEN 1 ELSE 0

\* While the clock is right: in an outage what is noted was made or is in hand, the
\* failed runs are counted, and the last run found an attempt of its window if it did
\* not begin one.
OutageInv ==
    ClockIsRight =>
        /\ \A t \in netState.attempts : t <= netNow
        /\ netOutage # Network!NoOutage =>
              /\ netOutage <= netReal
              /\ \A t \in netState.attempts : t - MaxSetback > netOutage =>
                    \/ netPc = "reconnect" /\ t = netNow
                    \/ \E n \in 1 .. Len(netMade) : netMade[n].at = t - MaxSetback
              /\ \/ netState.failures >= Patience
                 \/ netState.failures >= netReal - netOutage + Ran
              /\ netReal - netOutage - (1 - Ran) >= Window + Patience =>
                    \E t \in netState.attempts : netNow - t <= Window - Ran

\* A first run finds nothing noted.
LEMMA NetInit == ASSUME Network!Init PROVE AttemptsInv /\ OutageInv
<1>1. /\ netNow = MaxSetback /\ netReal = 0 /\ netPc = "idle" /\ netMade = <<>>
      /\ netState = [failures |-> 0, attempts |-> {}]
      /\ netRuns = 0 /\ netOutage = Network!NoOutage /\ MaxSetback \in Nat
  BY NetworkAssumption DEF Network!Init
<1>2. Len(netMade) = 0 /\ 1 .. Len(netMade) = {} /\ DOMAIN netMade = {}
  BY <1>1
<1>3. NetTypes
  BY <1>1, FS_EmptySet DEF NetTypes, Network!NoOutage
<1>4. MadeIsNoted /\ MadeInOrder /\ Network!AttemptsAreBounded
  BY <1>2 DEF MadeIsNoted, MadeInOrder, Network!AttemptsAreBounded
<1> QED
  BY <1>1, <1>3, <1>4 DEF AttemptsInv, OutageInv

\* There are no more young attempts than are noted of their window.
LEMMA YoungAreKept ==
    ASSUME AttemptsInv
    PROVE  LET held == Network!Kept(netState.attempts) IN
           /\ IsFiniteSet(held) /\ held \subseteq netState.attempts
           /\ \A n \in Young : netMade[n].noted \in held
           /\ IsFiniteSet(Young) /\ Cardinality(Young) <= Cardinality(held)
           /\ Cardinality(Young) \in Nat /\ Cardinality(held) \in Nat
           /\ Young # {} => Len(netMade) \in Young /\ Cardinality(Young) > 0
<1> DEFINE held == Network!Kept(netState.attempts)
           N    == Len(netMade)
           f    == [n \in Young |-> netMade[n].noted]
<1>0. Window \in Nat /\ netNow \in Int /\ netReal \in Nat
  BY NetworkAssumption DEF AttemptsInv, NetTypes
<1>1. N \in Nat /\ \A n \in 1 .. N : netMade[n] \in [at : Nat, noted : Int]
  BY ElementOfSeq, LenProperties DEF AttemptsInv, NetTypes
<1>2. /\ held \subseteq netState.attempts
      /\ \A t \in netState.attempts : netNow - t < Window => t \in held
  BY DEF Network!Kept
<1>3. IsFiniteSet(held)
  BY <1>2, FS_Subset DEF AttemptsInv, NetTypes
<1>4. ASSUME NEW n \in Young PROVE netMade[n].noted \in held
  <2>1. /\ n \in 1 .. N /\ netReal - netMade[n].at < Window
        /\ netMade[n].noted \in netState.attempts
        /\ netNow - netMade[n].noted <= netReal - netMade[n].at
    BY DEF Young, AttemptsInv, MadeIsNoted
  <2>2. netMade[n].at \in Nat /\ netMade[n].noted \in Int
    BY <1>1, <2>1
  <2>3. netNow - netMade[n].noted < Window
    BY <1>0, <2>1, <2>2
  <2> QED
    BY <1>2, <2>1, <2>3
<1>5. ASSUME NEW m \in Young, NEW n \in Young, m < n
      PROVE  netMade[m].noted # netMade[n].noted
  <2>1. /\ m \in 1 .. N /\ n \in 1 .. N /\ netReal - netMade[m].at < Window
        /\ netMade[n].at <= netReal
    BY DEF Young, AttemptsInv, MadeIsNoted
  <2>2. netMade[n].at - netMade[m].at < Window
    BY <1>0, <1>1, <2>1
  <2>3. netMade[m].noted < netMade[n].noted
    BY <1>5, <2>1, <2>2 DEF AttemptsInv, MadeInOrder
  <2> QED
    BY <1>1, <2>1, <2>3
<1>6. Young \subseteq 1 .. N
  BY DEF Young
<1>7. IsFiniteSet(Young)
  <2>1. IsFiniteSet(1 .. N)
    BY <1>1, FS_Interval
  <2> QED
    BY <1>6, <2>1, FS_Subset
<1>8. f \in Injection(Young, held)
  <2>1. f \in [Young -> held]
    BY <1>4
  <2>2. ASSUME NEW m \in Young, NEW n \in Young, f[m] = f[n] PROVE m = n
    <3>1. m \in Int /\ n \in Int
      BY <1>1, <1>6
    <3>2. ~(m < n) /\ ~(n < m)
      BY <1>5, <2>2
    <3> QED
      BY <3>1, <3>2
  <2> QED
    BY <2>1, <2>2 DEF Injection, IsInjective
<1>9. Cardinality(Young) <= Cardinality(held)
  BY <1>3, <1>8, FS_Injection
<1>10. Cardinality(Young) \in Nat /\ Cardinality(held) \in Nat
  BY <1>3, <1>7, FS_CardinalityType
<1>11. ASSUME Young # {} PROVE N \in Young /\ Cardinality(Young) > 0
  <2>1. PICK n \in Young : TRUE
    BY <1>11
  <2>2. n \in 1 .. N /\ N \in 1 .. N /\ netReal - netMade[n].at < Window
    BY <1>1, <2>1 DEF Young
  <2>3. netMade[n].at <= netMade[N].at
    <3>1. CASE n = N
      BY <1>1, <2>2, <3>1
    <3>2. CASE n # N
      <4>1. n < N
        BY <1>1, <2>2, <3>2
      <4> QED
        BY <2>2, <4>1 DEF AttemptsInv, MadeInOrder
    <3> QED
      BY <3>1, <3>2
  <2>4. netReal - netMade[N].at < Window
    BY <1>0, <1>1, <2>2, <2>3
  <2>5. Cardinality(Young) # 0
    BY <1>7, <1>11, FS_EmptySet
  <2> QED
    BY <1>10, <2>2, <2>4, <2>5 DEF Young
<1> QED
  BY <1>2, <1>3, <1>4, <1>7, <1>9, <1>10, <1>11

\* What a run counts of failed ones, up to the patience.
LEMMA FailuresIs ==
    ASSUME netState.failures \in Nat, NEW answers \in BOOLEAN
    PROVE  Network!Failures(answers) =
              IF answers THEN 0
              ELSE IF netState.failures + 1 <= Patience THEN netState.failures + 1
                   ELSE Patience
<1> DEFINE f == netState.failures + 1
<1>1. f \in Nat /\ Patience \in Nat
  BY NetworkAssumption
<1> HIDE DEF f
<1>2. Network!Min({f, Patience}) = IF f <= Patience THEN f ELSE Patience
  <2>1. CASE f <= Patience
    BY <1>1, <2>1 DEF Network!Min
  <2>2. CASE ~(f <= Patience)
    BY <1>1, <2>2 DEF Network!Min
  <2> QED
    BY <2>1, <2>2
<1> QED
  BY <1>2 DEF f, Network!Failures

\* A run that reconnects may do so by everything that was really made.
LEMMA RunMayReconnect ==
    ASSUME AttemptsInv, NEW answers \in BOOLEAN, Network!Run(answers),
           Network!Reconnects(answers)
    PROVE  InHand(netNow)'
<1> DEFINE held == Network!Kept(netState.attempts)
           N    == Len(netMade)
<1>0. /\ Window \in Nat /\ Budget \in Nat /\ netNow \in Int /\ netReal \in Nat
      /\ Pause \in [1 .. Budget -> Nat \ {0}]
      /\ \A m, n \in 1 .. Budget : m <= n => Pause[m] <= Pause[n]
      /\ netState.attempts \subseteq Int
  BY NetworkAssumption DEF AttemptsInv, NetTypes
<1>1. N \in Nat /\ \A n \in 1 .. N : netMade[n] \in [at : Nat, noted : Int]
  BY ElementOfSeq, LenProperties DEF AttemptsInv, NetTypes
<1>2. /\ \A t \in held : t <= netNow
      /\ Cardinality(held) < Budget
      /\ \A t \in held : ~(netNow - t < Pause[Cardinality(held)])
  <2>1. /\ \A t \in held : t <= netNow
        /\ Cardinality(held) < Budget
        /\ ~Network!Backoff(held)
    BY Counts DEF Network!Reconnects
  <2> HIDE DEF held
  <2> QED
    BY <2>1, Counts DEF Network!Backoff
<1>3. /\ netState'.attempts = held \cup {netNow}
      /\ netNow' = netNow /\ netReal' = netReal /\ netMade' = netMade
  BY DEF Network!Run
<1>4. /\ IsFiniteSet(held) /\ held \subseteq netState.attempts
      /\ \A n \in Young : netMade[n].noted \in held
      /\ Cardinality(Young) <= Cardinality(held)
      /\ Cardinality(Young) \in Nat /\ Cardinality(held) \in Nat
      /\ Young # {} => Len(netMade) \in Young /\ Cardinality(Young) > 0
  BY YoungAreKept
<1>5. Young' = Young
  BY <1>3 DEF Young
<1> HIDE DEF held
<1>6. ASSUME NEW t \in held PROVE t < netNow /\ netNow - t >= Pause[Cardinality(held)]
  <2>1. Cardinality(held) # 0
    BY <1>4, <1>6, FS_EmptySet
  <2>2. Cardinality(held) \in 1 .. Budget
    BY <1>0, <1>2, <1>4, <2>1
  <2>3. Pause[Cardinality(held)] \in Nat \ {0} /\ t \in Int
    BY <1>0, <1>4, <1>6, <2>2
  <2> QED
    BY <1>0, <1>2, <1>6, <2>3
<1>7. ASSUME Young # {}
      PROVE  netReal - netMade[N].at >= Pause[Cardinality(Young)]
  <2>1. /\ N \in 1 .. N /\ netMade[N].noted \in held
        /\ netNow - netMade[N].noted <= netReal - netMade[N].at
    BY <1>4, <1>7 DEF Young, AttemptsInv, MadeIsNoted
  <2>2. netNow - netMade[N].noted >= Pause[Cardinality(held)]
    BY <1>6, <2>1
  <2>3. Cardinality(Young) \in 1 .. Budget /\ Cardinality(held) \in 1 .. Budget
    BY <1>0, <1>2, <1>4, <1>7
  <2>4. /\ Pause[Cardinality(Young)] <= Pause[Cardinality(held)]
        /\ Pause[Cardinality(Young)] \in Nat /\ Pause[Cardinality(held)] \in Nat
    BY <1>0, <1>4, <2>3
  <2>5. netMade[N].at \in Nat /\ netMade[N].noted \in Int
    BY <1>1, <2>1
  <2> DEFINE at == netMade[N].at
             noted == netMade[N].noted
             p == Pause[Cardinality(Young)]
             q == Pause[Cardinality(held)]
  <2>6. /\ at \in Int /\ noted \in Int /\ p \in Int /\ q \in Int /\ p <= q
        /\ netNow - noted <= netReal - at /\ netNow - noted >= q
        /\ netNow \in Int /\ netReal \in Int
    BY <1>0, <2>1, <2>2, <2>4, <2>5
  <2> HIDE DEF at, noted, p, q
  <2>7. netReal - at >= p
    BY <2>6
  <2> QED
    BY <2>7 DEF at, p
<1>8. Cardinality(Young) < Budget
  BY <1>0, <1>2, <1>4
<1>9. netNow \in netState'.attempts /\ netNow <= netNow
  BY <1>0, <1>3
<1>10. \A t \in netState'.attempts : t <= netNow
  BY <1>0, <1>2, <1>3
<1>11. \A n \in Young : netMade[n].noted < netNow
  BY <1>4, <1>6
<1> QED
  BY <1>3, <1>5, <1>7, <1>8, <1>9, <1>10, <1>11 DEF InHand

\* A run keeps what is young, and the attempt it notes is in hand.
LEMMA RunKeeps ==
    ASSUME AttemptsInv, NEW answers \in BOOLEAN, Network!Run(answers)
    PROVE  AttemptsInv'
<1> DEFINE held == Network!Kept(netState.attempts)
           new  == IF Network!Reconnects(answers) THEN {netNow} ELSE {}
<1>1. /\ netState' = [failures |-> Network!Failures(answers), attempts |-> held \cup new]
      /\ netPc' = IF Network!Reconnects(answers) THEN "reconnect" ELSE "idle"
      /\ netRuns' = netRuns + 1
      /\ netOutage' = IF answers THEN Network!NoOutage
                      ELSE IF netOutage = Network!NoOutage THEN netReal ELSE netOutage
      /\ netNow' = netNow /\ netReal' = netReal /\ netMade' = netMade
  BY DEF Network!Run
<1>2. /\ IsFiniteSet(held) /\ held \subseteq netState.attempts
      /\ \A n \in Young : netMade[n].noted \in held
  BY YoungAreKept
<1>3. NetTypes'
  <2>1. held \cup new \in SUBSET Int /\ IsFiniteSet(held \cup new)
    <3>1. new \subseteq {netNow} /\ netNow \in Int
      BY DEF AttemptsInv, NetTypes
    <3>2. IsFiniteSet(held \cup {netNow})
      BY <1>2, FS_AddElement
    <3>3. held \cup new \in SUBSET (held \cup {netNow})
      BY <3>1
    <3>4. IsFiniteSet(held \cup new)
      BY <3>2, <3>3, FS_Subset
    <3> QED
      BY <1>2, <3>1, <3>4 DEF AttemptsInv, NetTypes
  <2>2. Network!Failures(answers) \in Nat
    <3>1. netState.failures \in Nat /\ Patience \in Nat
      BY NetworkAssumption DEF AttemptsInv, NetTypes
    <3> QED
      BY <3>1, FailuresIs
  <2>3. netRuns' \in Nat /\ netOutage' \in Int /\ netPc' \in {"idle", "reconnect"}
    BY <1>1 DEF AttemptsInv, NetTypes, Network!NoOutage
  <2>4. /\ netState' \in [failures : Nat, attempts : SUBSET Int]
        /\ netState'.attempts = held \cup new
    BY <1>1, <2>1, <2>2
  <2> QED
    BY <1>1, <2>1, <2>3, <2>4 DEF AttemptsInv, NetTypes
<1>4. MadeIsNoted'
  <2>1. \A n \in 1 .. Len(netMade) : netReal - netMade[n].at < Window => n \in Young
    BY DEF Young
  <2>2. \A n \in Young : netMade[n].noted \in netState'.attempts
    BY <1>1, <1>2
  <2> QED
    BY <1>1, <2>1, <2>2 DEF AttemptsInv, MadeIsNoted
<1>5. MadeInOrder' /\ Network!AttemptsAreBounded'
  BY <1>1 DEF AttemptsInv, MadeInOrder, Network!AttemptsAreBounded
<1>6. ASSUME Network!Reconnects(answers) PROVE InHand(netNow)' /\ netNow' \in netState'.attempts
  BY <1>6, RunMayReconnect DEF InHand
<1> QED
  BY <1>1, <1>3, <1>4, <1>5, <1>6 DEF AttemptsInv

\* nmcli runs: the attempt in hand is made, and keeps its distance.
LEMMA ReconnectKeeps ==
    ASSUME AttemptsInv, Network!Reconnect
    PROVE  AttemptsInv'
<1> DEFINE N   == Len(netMade)
           M   == [at : Nat, noted : Int]
<1>1. PICK a \in netState.attempts : InHand(a)
  BY DEF AttemptsInv, Network!Reconnect
<1>2. /\ Window \in Nat /\ netNow \in Int /\ netReal \in Nat /\ a \in Int
      /\ netNow <= a
  BY <1>1, NetworkAssumption DEF AttemptsInv, NetTypes, InHand
<1>3. Network!Max(netState.attempts) = a
  <2>1. \A t \in netState.attempts : a >= t
    BY <1>1 DEF InHand, AttemptsInv, NetTypes
  <2>2. \A x \in netState.attempts : (\A y \in netState.attempts : x >= y) => x = a
    BY <1>1, <2>1 DEF AttemptsInv, NetTypes
  <2> QED
    BY <1>1, <2>1, <2>2 DEF Network!Max
<1>4. /\ netMade' = Append(netMade, [at |-> netReal, noted |-> a]) /\ netPc' = "idle"
      /\ UNCHANGED <<netNow, netReal, netState, netRuns, netOutage>>
  BY <1>3 DEF Network!Reconnect
<1>5. /\ netMade \in Seq(M) /\ N \in Nat /\ \A n \in 1 .. N : netMade[n] \in M
      /\ [at |-> netReal, noted |-> a] \in M
  BY <1>2, ElementOfSeq, LenProperties DEF AttemptsInv, NetTypes
<1>6. /\ netMade' \in Seq(M) /\ Len(netMade') = N + 1
      /\ netMade'[N + 1].at = netReal /\ netMade'[N + 1].noted = a
      /\ \A n \in 1 .. N : netMade'[n] = netMade[n]
      /\ DOMAIN netMade = 1 .. N /\ DOMAIN netMade' = 1 .. (N + 1)
  BY <1>4, <1>5, AppendProperties, LenProperties
<1>7. \A n \in 1 .. (N + 1) : n \in 1 .. N \/ n = N + 1
  BY <1>5
<1>8. NetTypes'
  BY <1>4, <1>6 DEF AttemptsInv, NetTypes
<1>9. MadeIsNoted'
  <2>1. ASSUME NEW n \in 1 .. N
        PROVE  /\ netMade'[n].at <= netReal
               /\ netNow - netMade'[n].noted <= netReal - netMade'[n].at
               /\ netReal - netMade'[n].at < Window => netMade'[n].noted \in netState.attempts
    BY <1>6 DEF AttemptsInv, MadeIsNoted
  <2>2. /\ netReal <= netReal /\ netNow - a <= netReal - netReal /\ a \in netState.attempts
    BY <1>1, <1>2
  <2> QED
    BY <1>4, <1>6, <1>7, <2>1, <2>2 DEF MadeIsNoted
<1>10. MadeInOrder'
  <2> SUFFICES ASSUME NEW m \in 1 .. (N + 1), NEW n \in 1 .. (N + 1), m < n
               PROVE  /\ netMade'[m].at <= netMade'[n].at
                      /\ netMade'[n].at - netMade'[m].at < Window =>
                            netMade'[m].noted < netMade'[n].noted
    BY <1>6 DEF MadeInOrder
  <2>1. m \in 1 .. N
    BY <1>5
  <2>2. CASE n \in 1 .. N
    BY <1>6, <2>1, <2>2 DEF AttemptsInv, MadeInOrder
  <2>3. CASE n = N + 1
    <3>1. netMade[m].at <= netReal
      BY <2>1 DEF AttemptsInv, MadeIsNoted
    <3>2. netReal - netMade[m].at < Window => netMade[m].noted < a
      BY <1>1, <2>1 DEF InHand, Young
    <3> QED
      BY <1>6, <2>1, <2>3, <3>1, <3>2
  <2> QED
    BY <1>7, <2>2, <2>3
<1>11. Network!AttemptsAreBounded'
  <2> DEFINE before(n)  == {m \in 1 .. n - 1 : netMade[n].at - netMade[m].at < Window}
             before2(n) == {m \in 1 .. n - 1 : netMade'[n].at - netMade'[m].at < Window}
  <2>0. ASSUME NEW n \in 1 .. N
        PROVE  /\ Cardinality(before(n)) < Budget
               /\ before(n) # {} =>
                     netMade[n].at - netMade[n - 1].at >= Pause[Cardinality(before(n))]
    <3>1. Network!AttemptsAreBounded /\ n \in DOMAIN netMade
      BY <1>6 DEF AttemptsInv
    <3> QED
      BY <3>1, Counts DEF Network!AttemptsAreBounded
  <2>1. ASSUME NEW n \in 1 .. (N + 1)
        PROVE  /\ Cardinality(before2(n)) < Budget
               /\ before2(n) # {} =>
                     netMade'[n].at - netMade'[n - 1].at >= Pause[Cardinality(before2(n))]
    <3>1. CASE n \in 1 .. N
      <4>1. \A m \in 1 .. n - 1 : m \in 1 .. N
        BY <1>5, <3>1
      <4>2. before2(n) = before(n)
        BY <1>6, <3>1, <4>1
      <4>3. ASSUME before(n) # {} PROVE n - 1 \in 1 .. N
        <5>1. PICK m \in 1 .. n - 1 : TRUE
          BY <4>3
        <5> QED
          BY <1>5, <3>1, <5>1
      <4>5. netMade'[n] = netMade[n] /\ (before(n) # {} => netMade'[n - 1] = netMade[n - 1])
        BY <1>6, <3>1, <4>3
      <4>6. n \in 1 .. N
        BY <3>1
      <4> HIDE DEF before, before2
      <4> QED
        BY <2>0, <4>2, <4>5, <4>6
    <3>2. CASE n = N + 1
      <4>1. n - 1 = N
        BY <1>5, <3>2
      <4>2. before2(n) = Young
        BY <1>6, <3>2, <4>1 DEF Young
      <4>3. /\ Cardinality(Young) < Budget
            /\ Young # {} => netReal - netMade[N].at >= Pause[Cardinality(Young)]
        BY <1>1 DEF InHand
      <4>4. Young # {} => netMade'[N] = netMade[N]
        <5>1. Young # {} => N \in 1 .. N
          BY YoungAreKept DEF Young
        <5> QED
          BY <1>6, <5>1
      <4>5. netMade'[n].at = netReal
        BY <1>6, <3>2
      <4> HIDE DEF before2
      <4> QED
        BY <4>1, <4>2, <4>3, <4>4, <4>5
    <3> QED
      BY <1>7, <3>1, <3>2
  <2>2. ASSUME NEW n \in DOMAIN netMade'
        PROVE  LET recent == {m \in 1 .. n - 1 : netMade'[n].at - netMade'[m].at < Window} IN
               /\ Cardinality(recent) < Budget
               /\ recent # {} =>
                     netMade'[n].at - netMade'[n - 1].at >= Pause[Cardinality(recent)]
    BY <1>6, <2>1
  <2> QED
    BY <2>2, Counts DEF Network!AttemptsAreBounded
<1> QED
  BY <1>4, <1>8, <1>9, <1>10, <1>11 DEF AttemptsInv

\* What the clocks do makes nothing younger in the time that passes than on the wall.
LEMMA ClocksKeep ==
    ASSUME AttemptsInv, Network!Tick \/ Network!SetBack \/ Network!Crash
    PROVE  AttemptsInv'
<1> DEFINE N == Len(netMade)
<1>1. /\ netMade' = netMade /\ netState' = netState
      /\ netNow \in Int /\ netReal \in Nat /\ netRuns \in Nat /\ Window \in Nat
      /\ MaxSetback \in Nat /\ netNow <= MaxSetback + netReal
      /\ netState.attempts \subseteq Int
      /\ N \in Nat /\ \A n \in 1 .. N : netMade[n].at \in Nat /\ netMade[n].noted \in Int
  <2>1. N \in Nat /\ \A n \in 1 .. N : netMade[n] \in [at : Nat, noted : Int]
    BY ElementOfSeq, LenProperties DEF AttemptsInv, NetTypes
  <2>2. \A n \in 1 .. N : netMade[n].at \in Nat /\ netMade[n].noted \in Int
    BY <2>1
  <2>3. netMade' = netMade /\ netState' = netState
    BY DEF Network!Tick, Network!SetBack, Network!Crash
  <2> QED
    BY <2>1, <2>2, <2>3, NetworkAssumption DEF AttemptsInv, NetTypes
<1>2. MadeInOrder' /\ Network!AttemptsAreBounded'
  BY <1>1 DEF AttemptsInv, MadeInOrder, Network!AttemptsAreBounded
<1>3. CASE Network!Tick
  <2>1. /\ netNow' = netNow + 1 /\ netReal' = netReal + 1 /\ netRuns' = 0
        /\ netPc = "idle" /\ netPc' = netPc /\ netOutage' = netOutage
    BY <1>3 DEF Network!Tick
  <2>2. NetTypes'
    BY <1>1, <2>1 DEF AttemptsInv, NetTypes
  <2>3. MadeIsNoted'
    <3> SUFFICES ASSUME NEW n \in 1 .. N
                 PROVE  /\ netMade[n].at <= netReal'
                        /\ netNow' - netMade[n].noted <= netReal' - netMade[n].at
                        /\ netReal' - netMade[n].at < Window =>
                              netMade[n].noted \in netState.attempts
      BY <1>1 DEF MadeIsNoted
    <3>1. /\ netMade[n].at <= netReal
          /\ netNow - netMade[n].noted <= netReal - netMade[n].at
          /\ netReal - netMade[n].at < Window => netMade[n].noted \in netState.attempts
      BY DEF AttemptsInv, MadeIsNoted
    <3>2. netMade[n].at \in Nat /\ netMade[n].noted \in Int
      BY <1>1
    <3> QED
      BY <1>1, <2>1, <3>1, <3>2
  <2> QED
    BY <1>2, <2>1, <2>2, <2>3 DEF AttemptsInv
<1>4. CASE Network!SetBack
  <2>1. PICK d \in 1 .. MaxSetback : netNow' = netNow - d
    BY <1>4 DEF Network!SetBack
  <2>2. /\ d \in Nat /\ netNow' \in Int /\ netNow' <= netNow
        /\ UNCHANGED <<netReal, netPc, netRuns, netOutage>>
    BY <1>1, <1>4, <2>1 DEF Network!SetBack
  <2>3. NetTypes'
    BY <1>1, <2>2 DEF AttemptsInv, NetTypes
  <2>4. MadeIsNoted'
    <3> SUFFICES ASSUME NEW n \in 1 .. N
                 PROVE  /\ netMade[n].at <= netReal
                        /\ netNow' - netMade[n].noted <= netReal - netMade[n].at
                        /\ netReal - netMade[n].at < Window =>
                              netMade[n].noted \in netState.attempts
      BY <1>1, <2>2 DEF MadeIsNoted
    <3>1. /\ netMade[n].at <= netReal
          /\ netNow - netMade[n].noted <= netReal - netMade[n].at
          /\ netReal - netMade[n].at < Window => netMade[n].noted \in netState.attempts
      BY DEF AttemptsInv, MadeIsNoted
    <3>2. netMade[n].at \in Nat /\ netMade[n].noted \in Int
      BY <1>1
    <3> QED
      BY <1>1, <2>2, <3>1, <3>2
  <2>5. ASSUME NEW a \in netState.attempts, InHand(a) PROVE InHand(a)'
    <3>1. Young' = Young
      BY <1>1, <2>2 DEF Young
    <3>2. netNow' <= a
      BY <1>1, <2>2, <2>5 DEF InHand
    <3> QED
      BY <1>1, <2>2, <2>5, <3>1, <3>2 DEF InHand
  <2> QED
    BY <1>1, <1>2, <2>2, <2>3, <2>4, <2>5 DEF AttemptsInv
<1>5. CASE Network!Crash
  <2>1. /\ UNCHANGED <<netNow, netReal, netRuns>> /\ netPc' = "idle"
        /\ netOutage' = Network!NoOutage
    BY <1>5 DEF Network!Crash
  <2>2. NetTypes'
    BY <1>1, <2>1 DEF AttemptsInv, NetTypes, Network!NoOutage
  <2>3. MadeIsNoted'
    BY <1>1, <2>1 DEF AttemptsInv, MadeIsNoted
  <2> QED
    BY <1>2, <2>1, <2>2, <2>3 DEF AttemptsInv
<1> QED
  BY <1>3, <1>4, <1>5

\* In an outage every run counts, and one that is patient enough finds an attempt of its
\* window or begins one.
LEMMA RunTends ==
    ASSUME AttemptsInv, OutageInv, NEW answers \in BOOLEAN, Network!Run(answers)
    PROVE  OutageInv'
<1> DEFINE held == Network!Kept(netState.attempts)
           new  == IF Network!Reconnects(answers) THEN {netNow} ELSE {}
           f    == netState.failures
<1>1. /\ netState'.failures = Network!Failures(answers)
      /\ netState'.attempts = held \cup new
      /\ netPc' = IF Network!Reconnects(answers) THEN "reconnect" ELSE "idle"
      /\ netPc = "idle"
      /\ netRuns' = netRuns + 1
      /\ netOutage' = IF answers THEN Network!NoOutage
                      ELSE IF netOutage = Network!NoOutage THEN netReal ELSE netOutage
      /\ netNow' = netNow /\ netReal' = netReal /\ netMade' = netMade
  BY DEF Network!Run
<1>2. /\ Window \in Nat \ {0} /\ Budget \in Nat \ {0} /\ Patience \in Nat
      /\ MaxSetback \in Nat /\ netNow \in Int /\ netReal \in Nat /\ netRuns \in Nat
      /\ f \in Nat /\ netOutage \in Int /\ netState.attempts \subseteq Int
  BY NetworkAssumption DEF AttemptsInv, NetTypes
<1>3. /\ IsFiniteSet(held) /\ held \subseteq netState.attempts /\ Cardinality(held) \in Nat
      /\ \A t \in held : netNow - t < Window
  <2>1. \A t \in held : netNow - t < Window
    BY DEF Network!Kept
  <2> QED
    BY <2>1, YoungAreKept
<1>4. netState'.failures = IF answers THEN 0 ELSE IF f + 1 <= Patience THEN f + 1 ELSE Patience
  BY <1>1, <1>2, FailuresIs
<1>5. Ran' = 1
  BY <1>1, <1>2 DEF Ran
<1>6. ASSUME ~answers, netState'.failures >= Patience, ClockIsRight
      PROVE  \E t \in held \cup new : netNow - t < Window
  <2>1. CASE Network!Reconnects(answers)
    <3>1. netNow \in held \cup new /\ netNow - netNow < Window
      BY <1>2, <2>1
    <3> QED
      BY <3>1
  <2>2. CASE ~Network!Reconnects(answers)
    <3>1. \A t \in held : t <= netNow
      BY <1>3, <1>6 DEF OutageInv
    <3>2. ~(Cardinality(held) < Budget) \/ Network!Backoff(held)
      BY <1>1, <1>6, <2>2, <3>1, Counts DEF Network!Reconnects
    <3>3. held # {}
      <4>1. CASE ~(Cardinality(held) < Budget)
        BY <1>2, <4>1, FS_EmptySet
      <4>2. CASE Network!Backoff(held)
        <5> HIDE DEF held
        <5> QED
          BY <4>2 DEF Network!Backoff
      <4> QED
        BY <3>2, <4>1, <4>2
    <3> QED
      BY <1>3, <3>3
  <2> QED
    BY <2>1, <2>2
<1> HIDE DEF held, f
<1> SUFFICES ASSUME ClockIsRight PROVE OutageInv'
  BY <1>1 DEF OutageInv, ClockIsRight
<1>7. \A t \in held \cup new : t <= netNow
  BY <1>2, <1>3 DEF OutageInv
<1>8. ASSUME netOutage' # Network!NoOutage
      PROVE  /\ ~answers /\ netOutage' \in Int /\ netOutage' <= netReal
             /\ \/ netOutage' = netOutage /\ netOutage # Network!NoOutage
                \/ netOutage' = netReal
  BY <1>1, <1>2, <1>8 DEF OutageInv
<1>9. ASSUME netOutage' # Network!NoOutage, NEW t \in held \cup new,
             t - MaxSetback > netOutage'
      PROVE  \/ netPc' = "reconnect" /\ t = netNow
             \/ \E n \in 1 .. Len(netMade) : netMade[n].at = t - MaxSetback
  <2>1. CASE t \in new
    BY <1>1, <2>1
  <2>2. CASE t \in held
    <3>1. t \in Int /\ t <= netNow /\ netNow = MaxSetback + netReal
      BY <1>2, <1>3, <1>7, <2>2 DEF ClockIsRight
    <3>2. netOutage' # netReal
      BY <1>2, <1>9, <3>1
    <3>3. netOutage' = netOutage /\ netOutage # Network!NoOutage
      BY <1>8, <1>9, <3>2
    <3> QED
      BY <1>1, <1>3, <1>9, <2>2, <3>3 DEF OutageInv
  <2> QED
    BY <2>1, <2>2
<1>10. ASSUME netOutage' # Network!NoOutage
       PROVE  \/ netState'.failures >= Patience
              \/ netState'.failures >= netReal - netOutage' + 1
  <2>1. CASE netOutage' = netReal
    BY <1>2, <1>4, <1>8, <1>10, <2>1
  <2>2. CASE netOutage' = netOutage /\ netOutage # Network!NoOutage
    <3>1. f >= Patience \/ f >= netReal - netOutage
      <4>1. f >= Patience \/ f >= netReal - netOutage + Ran
        BY <2>2 DEF OutageInv, f
      <4>2. Ran \in {0, 1}
        BY DEF Ran
      <4> QED
        BY <1>2, <4>1, <4>2
    <3> QED
      BY <1>2, <1>4, <1>8, <1>10, <2>2, <3>1
  <2> QED
    BY <1>8, <1>10, <2>1, <2>2
<1>11. ASSUME netOutage' # Network!NoOutage, netReal - netOutage' >= Window + Patience
       PROVE  \E t \in held \cup new : netNow - t < Window
  <2>1. netState'.failures >= Patience
    BY <1>2, <1>4, <1>8, <1>10, <1>11
  <2> QED
    BY <1>6, <1>8, <1>11, <2>1
<1>12. ASSUME netOutage' # Network!NoOutage, netReal - netOutage' - (1 - 1) >= Window + Patience
       PROVE  \E t \in held \cup new : netNow - t <= Window - 1
  <2>1. netReal - netOutage' >= Window + Patience
    BY <1>2, <1>8, <1>12
  <2>2. PICK t \in held \cup new : netNow - t < Window
    BY <1>11, <1>12, <2>1
  <2>3. t \in Int
    BY <1>2, <1>3
  <2> QED
    BY <1>2, <2>2, <2>3
<1> QED
  BY <1>1, <1>5, <1>7, <1>8, <1>9, <1>10, <1>12 DEF OutageInv

\* nmcli makes the attempt in hand.
LEMMA ReconnectTends ==
    ASSUME AttemptsInv, OutageInv, Network!Reconnect
    PROVE  OutageInv'
<1> DEFINE N == Len(netMade)
           M == [at : Nat, noted : Int]
           e == [at |-> netReal, noted |-> Network!Max(netState.attempts)]
<1>1. /\ netMade' = Append(netMade, e) /\ netPc' = "idle" /\ netPc = "reconnect"
      /\ UNCHANGED <<netNow, netReal, netState, netRuns, netOutage>>
  BY DEF Network!Reconnect
<1>2. /\ netMade \in Seq(M) /\ N \in Nat /\ netNow \in Int /\ netReal \in Nat
      /\ MaxSetback \in Nat
  BY LenProperties, NetworkAssumption DEF AttemptsInv, NetTypes
<1>3. /\ Len(netMade') = N + 1 /\ netMade'[N + 1] = e
      /\ \A n \in 1 .. N : netMade'[n] = netMade[n]
  BY <1>1, <1>2
<1>4. /\ netMade'[N + 1].at = netReal /\ N + 1 \in 1 .. Len(netMade')
      /\ \A n \in 1 .. N : n \in 1 .. Len(netMade')
  BY <1>2, <1>3
<1>5. ASSUME ClockIsRight, netOutage # Network!NoOutage, NEW t \in netState.attempts,
             t - MaxSetback > netOutage
      PROVE  \E n \in 1 .. Len(netMade') : netMade'[n].at = t - MaxSetback
  <2>1. CASE t = netNow
    <3>1. t - MaxSetback = netReal
      BY <1>2, <1>5, <2>1 DEF ClockIsRight
    <3> QED
      BY <1>4, <3>1
  <2>2. CASE \E n \in 1 .. N : netMade[n].at = t - MaxSetback
    BY <1>3, <1>4, <2>2
  <2> QED
    BY <1>5, <2>1, <2>2 DEF OutageInv
<1> QED
  BY <1>1, <1>5 DEF OutageInv, ClockIsRight, Ran

\* A tick comes after a run, and a clock that is set back stays behind.
LEMMA ClocksTend ==
    ASSUME AttemptsInv, OutageInv, Network!Tick \/ Network!SetBack \/ Network!Crash
    PROVE  OutageInv'
<1>1. /\ netNow \in Int /\ netReal \in Nat /\ netRuns \in Nat /\ Window \in Nat
      /\ MaxSetback \in Nat /\ netState.attempts \subseteq Int /\ netState.failures \in Nat
      /\ netOutage \in Int /\ Patience \in Nat
  BY NetworkAssumption DEF AttemptsInv, NetTypes
<1>2. CASE Network!Tick
  <2>1. /\ netNow' = netNow + 1 /\ netReal' = netReal + 1 /\ netRuns' = 0
        /\ netPc = "idle" /\ netPc' = netPc /\ netOutage' = netOutage /\ netRuns > 0
        /\ netMade' = netMade /\ netState' = netState
    BY <1>2 DEF Network!Tick
  <2>2. Ran = 1 /\ Ran' = 0
    BY <1>1, <2>1 DEF Ran
  <2> SUFFICES ASSUME ClockIsRight'
               PROVE  OutageInv'
    BY DEF OutageInv
  <2>3. ClockIsRight
    BY <1>1, <2>1 DEF ClockIsRight
  <2>4. \A t \in netState.attempts : t <= netNow'
    BY <1>1, <2>1, <2>3 DEF OutageInv
  <2>5. ASSUME netOutage # Network!NoOutage
        PROVE  /\ netOutage <= netReal'
               /\ \A t \in netState.attempts : t - MaxSetback > netOutage =>
                     \E n \in 1 .. Len(netMade) : netMade[n].at = t - MaxSetback
               /\ \/ netState.failures >= Patience
                  \/ netState.failures >= netReal' - netOutage + 0
               /\ netReal' - netOutage - (1 - 0) >= Window + Patience =>
                     \E t \in netState.attempts : netNow' - t <= Window - 0
    <3>1. /\ netOutage <= netReal
          /\ \A t \in netState.attempts : t - MaxSetback > netOutage =>
                \/ netPc = "reconnect" /\ t = netNow
                \/ \E n \in 1 .. Len(netMade) : netMade[n].at = t - MaxSetback
          /\ \/ netState.failures >= Patience
             \/ netState.failures >= netReal - netOutage + 1
          /\ netReal - netOutage - (1 - 1) >= Window + Patience =>
                \E t \in netState.attempts : netNow - t <= Window - 1
      BY <2>2, <2>3, <2>5 DEF OutageInv
    <3>2. netReal' - netOutage - (1 - 0) >= Window + Patience =>
             \E t \in netState.attempts : netNow' - t <= Window - 0
      <4> SUFFICES ASSUME netReal' - netOutage - (1 - 0) >= Window + Patience
                   PROVE  \E t \in netState.attempts : netNow' - t <= Window - 0
        OBVIOUS
      <4>1. netReal - netOutage - (1 - 1) >= Window + Patience
        BY <1>1, <2>1
      <4>2. PICK t \in netState.attempts : netNow - t <= Window - 1
        BY <3>1, <4>1
      <4> QED
        BY <1>1, <2>1, <4>2
    <3>3. netOutage <= netReal'
      BY <1>1, <2>1, <3>1
    <3>4. \/ netState.failures >= Patience
          \/ netState.failures >= netReal' - netOutage + 0
      BY <1>1, <2>1, <3>1
    <3> QED
      BY <2>1, <3>1, <3>2, <3>3, <3>4
  <2> QED
    BY <2>1, <2>2, <2>4, <2>5 DEF OutageInv
<1>3. CASE Network!SetBack
  <2>1. PICK d \in 1 .. MaxSetback : netNow' = netNow - d
    BY <1>3 DEF Network!SetBack
  <2>2. netNow = MaxSetback + netReal /\ netReal' = netReal
    BY <1>3 DEF Network!SetBack
  <2>3. ~ClockIsRight'
    BY <1>1, <2>1, <2>2 DEF ClockIsRight
  <2> QED
    BY <2>3 DEF OutageInv
<1>4. CASE Network!Crash
  BY <1>4 DEF Network!Crash, OutageInv, ClockIsRight
<1> QED
  BY <1>2, <1>3, <1>4

\* What the invariants say of the attempts.
LEMMA NetIsRight ==
    AttemptsInv /\ OutageInv => Network!AttemptsAreBounded /\ Network!OutageIsTended
<1> SUFFICES ASSUME AttemptsInv, OutageInv,
                    ClockIsRight, netOutage # Network!NoOutage,
                    netReal - netOutage > Window + Patience, netPc # "reconnect"
             PROVE  \E n \in DOMAIN netMade : netReal - netMade[n].at <= Window
  BY DEF AttemptsInv, Network!OutageIsTended, ClockIsRight
<1>1. /\ netNow \in Int /\ netReal \in Nat /\ netRuns \in Nat /\ Window \in Nat
      /\ MaxSetback \in Nat /\ netState.attempts \subseteq Int
      /\ netOutage \in Int /\ Patience \in Nat /\ netNow = MaxSetback + netReal
      /\ DOMAIN netMade = 1 .. Len(netMade)
  BY LenProperties, NetworkAssumption DEF AttemptsInv, NetTypes, ClockIsRight
<1>2. Ran \in {0, 1}
  BY DEF Ran
<1>3. netReal - netOutage - (1 - Ran) >= Window + Patience
  BY <1>1, <1>2
<1>4. PICK t \in netState.attempts : netNow - t <= Window - Ran
  BY <1>3 DEF OutageInv
<1>5. t \in Int /\ t - MaxSetback > netOutage /\ netReal - (t - MaxSetback) <= Window
  BY <1>1, <1>2, <1>4
<1>6. PICK n \in 1 .. Len(netMade) : netMade[n].at = t - MaxSetback
  BY <1>5 DEF OutageInv
<1> QED
  BY <1>1, <1>5, <1>6

\* For every window, budget, patience and backoff, however often the program is stopped
\* and the clock set back: attempts are bounded and go on, and the API is announced under
\* the address that was read (network_recovery.py, mdns_advertiser.py).
THEOREM NetworkIsRightAlways == OperationsSpec => []NetworkIsRight
<1> DEFINE Inv == /\ part = "network" => AttemptsInv /\ OutageInv
                  /\ part = "mdns" => MdnsInv
<1>1. HostInit => Inv
  BY NetInit, MdnsInit DEF HostInit
<1>2. Inv /\ [HostNext]_allVars => Inv'
  <2> SUFFICES ASSUME Inv, [HostNext]_allVars
               PROVE  Inv'
    OBVIOUS
  <2>1. ASSUME part' = "network" PROVE AttemptsInv' /\ OutageInv'
    <3>1. part = "network" /\ (NetNext \/ UNCHANGED NetworkVars)
      BY <2>1 DEF HostNext, Only, allVars, NetNext
    <3>2. CASE NetNext
      BY <3>1, <3>2, RunKeeps, RunTends, ReconnectKeeps, ReconnectTends, ClocksKeep,
         ClocksTend DEF NetNext
    <3>3. CASE UNCHANGED NetworkVars
      <4>1. UNCHANGED <<netNow, netReal, netState, netPc, netMade, netRuns, netOutage>>
        BY <3>3 DEF NetworkVars
      <4>2. AttemptsInv'
        BY <3>1, <4>1 DEF AttemptsInv, NetTypes, MadeIsNoted, MadeInOrder, InHand, Young,
           Network!AttemptsAreBounded
      <4>3. OutageInv'
        BY <3>1, <4>1 DEF OutageInv, ClockIsRight, Ran
      <4> QED
        BY <4>2, <4>3
    <3> QED
      BY <3>1, <3>2, <3>3
  <2>2. ASSUME part' = "mdns" PROVE MdnsInv'
    <3>1. part = "mdns" /\ (MdnsNext \/ UNCHANGED MdnsVars)
      BY <2>2 DEF HostNext, Only, allVars, MdnsNext
    <3>2. CASE MdnsNext
      BY <3>1, <3>2, MdnsStep
    <3>3. CASE UNCHANGED MdnsVars
      BY <3>1, <3>3 DEF MdnsVars, MdnsInv, MdnsTypes, AtRest
    <3> QED
      BY <3>1, <3>2, <3>3
  <2> QED
    BY <2>1, <2>2
<1>3. Inv => NetworkIsRight
  BY NetIsRight, MdnsIsRight DEF NetworkIsRight
<1> QED
  BY <1>1, <1>2, <1>3, PTL DEF OperationsSpec
-----------------------------------------------------------------------------
(* The freshness monitor.                                                  *)

MonitorNext ==
    \/ \E clips \in BOOLEAN : Monitor!WriteManifest(clips)
    \/ \E ahead \in 0 .. MaxAhead : Monitor!WriteSnapshot(ahead)
    \/ \E runs \in BOOLEAN : Monitor!Period(runs)

Ages == Monitor!Missing .. Monitor!Longest

\* The last samples, each [1 .. Periods -> .].
MonitorTypes ==
    /\ monManifest \in [age : 0 .. Monitor!Longest, clips : BOOLEAN]
    /\ monSnapshot \in [age : (0 - MaxAhead) .. Monitor!Longest,
                        silence : 0 .. Monitor!Longest]
    /\ monSamples \in [Monitor!Metrics -> [1 .. Periods -> Ages]]
    /\ monRan \in [1 .. Periods -> BOOLEAN]

\* The n-th last sample was taken n - 1 periods ago: since then nothing has become older
\* than by these periods, and what it was taken of has not changed if it is older.
AisSample(n) ==
    monSamples["ais"][n] # Monitor!Missing =>
        monSamples["ais"][n] >= monSnapshot.silence - MaxAhead - (n - 1)

ManifestSample(n) ==
    n <= monManifest.age /\ monRan[n] =>
        IF monManifest.clips THEN monSamples["manifest"][n] >= monManifest.age - (n - 1)
        ELSE monSamples["ais"][n] = Monitor!Missing

MonitorInv ==
    /\ MonitorTypes
    /\ monSnapshot.age >= monSnapshot.silence - MaxAhead
    /\ \A n \in 1 .. Periods :
          /\ AisSample(n) /\ ManifestSample(n)
          /\ ~monRan[n] => monSamples["ais"][n] = Monitor!Missing

\* The new sample comes first, and the others move on by one.
Recent(S) == [1 .. Periods -> S]

LEMMA PushedIs ==
    ASSUME NEW S, NEW v \in S, NEW seq \in Recent(S)
    PROVE  /\ Monitor!Pushed(v, seq) \in Recent(S)
           /\ Monitor!Pushed(v, seq)[1] = v
           /\ \A k, n \in 1 .. Periods :
                 n = k + 1 => Monitor!Pushed(v, seq)[n] = seq[k]
<1> DEFINE both == <<v>> \o seq
<1>1. <<v>> \in Seq(S) /\ Len(<<v>>) = 1 /\ <<v>>[1] = v
  OBVIOUS
<1>2. seq \in Seq(S) /\ Len(seq) = Periods
  BY MonitorAssumption DEF Recent
<1>3. both \in Seq(S) /\ Len(both) = Periods + 1
  BY <1>1, <1>2
<1>4. both[1] = v /\ \A n \in 2 .. Periods + 1 : both[n] = seq[n - 1]
  BY <1>1, <1>2, MonitorAssumption
<1> HIDE DEF both
<1>5. SubSeq(both, 1, Periods) = [n \in 1 .. Periods |-> both[n]]
  BY <1>3, MonitorAssumption
<1>6. Monitor!Pushed(v, seq) = SubSeq(both, 1, Periods)
  BY DEF both, Monitor!Pushed
<1>7. \A n \in 1 .. Periods : both[n] \in S
  BY <1>3, ElementOfSeq, MonitorAssumption
<1>8. Monitor!Pushed(v, seq) \in Recent(S)
  BY <1>5, <1>6, <1>7 DEF Recent
<1>9. \A n \in 1 .. Periods : Monitor!Pushed(v, seq)[n] = both[n]
  BY <1>5, <1>6
<1>10. 1 \in 1 .. Periods
  BY MonitorAssumption
<1>11. \A k, n \in 1 .. Periods : n = k + 1 => both[n] = seq[k]
  BY <1>4, MonitorAssumption
<1> QED
  BY <1>4, <1>8, <1>9, <1>10, <1>11

\* Ages grow by one, to the bound.
LEMMA OlderIs ==
    ASSUME NEW a \in Int, a <= Monitor!Longest
    PROVE  Monitor!Older(a) = IF a + 1 <= Monitor!Longest THEN a + 1 ELSE Monitor!Longest
<1> DEFINE L == Monitor!Longest
<1>1. L \in Nat
  BY MonitorAssumption DEF Monitor!Longest
<1> HIDE DEF L
<1>2. CASE a + 1 <= L
  BY <1>1, <1>2 DEF Monitor!Older, Monitor!Min, L
<1>3. CASE ~(a + 1 <= L)
  BY <1>1, <1>3 DEF Monitor!Older, Monitor!Min, L
<1> QED
  BY <1>2, <1>3 DEF L

\* The age that is reported is never negative.
LEMMA AgeIs ==
    ASSUME NEW a \in Int
    PROVE  Monitor!Age(a) = IF a >= 0 THEN a ELSE 0
BY DEF Monitor!Age, Monitor!Max

\* Everything is fresh at first.
LEMMA MonitorInit == ASSUME Monitor!Init PROVE MonitorInv
<1>1. Monitor!Longest \in Nat /\ MaxAhead \in Nat /\ Periods \in Nat \ {0}
  BY MonitorAssumption DEF Monitor!Longest
<1>2. 0 \in Ages /\ Monitor!Missing = -1
  BY <1>1 DEF Ages, Monitor!Missing
<1>3. MonitorTypes
  BY <1>1, <1>2 DEF Monitor!Init, MonitorTypes
<1>4. ASSUME NEW n \in 1 .. Periods
      PROVE  monSamples["ais"][n] = 0 /\ monSamples["manifest"][n] = 0 /\ monRan[n] = TRUE
  BY DEF Monitor!Init, Monitor!Metrics
<1>5. monSnapshot.age = 0 /\ monSnapshot.silence = 0 /\ monManifest.age = 0
  BY DEF Monitor!Init
<1>6. ASSUME NEW n \in 1 .. Periods
      PROVE  AisSample(n) /\ ManifestSample(n)
  <2>1. ~(n <= 0) /\ 0 >= 0 - MaxAhead - (n - 1)
    BY <1>1
  <2> QED
    BY <1>4, <1>5, <2>1 DEF AisSample, ManifestSample
<1>7. monSnapshot.age >= monSnapshot.silence - MaxAhead
  BY <1>1, <1>5
<1> QED
  BY <1>3, <1>4, <1>6, <1>7 DEF MonitorInv

\* A new manifest or a new snapshot is younger than every sample.
LEMMA WritingKeeps ==
    ASSUME MonitorInv,
           \/ \E clips \in BOOLEAN : Monitor!WriteManifest(clips)
           \/ \E ahead \in 0 .. MaxAhead : Monitor!WriteSnapshot(ahead)
    PROVE  MonitorInv'
<1>1. Monitor!Longest \in Nat /\ MaxAhead \in Nat /\ Periods \in Nat \ {0}
  BY MonitorAssumption DEF Monitor!Longest
<1>2. monSamples' = monSamples /\ monRan' = monRan
  BY DEF Monitor!WriteManifest, Monitor!WriteSnapshot
<1>3. CASE \E clips \in BOOLEAN : Monitor!WriteManifest(clips)
  <2>1. PICK clips \in BOOLEAN : Monitor!WriteManifest(clips)
    BY <1>3
  <2>2. monManifest' = [age |-> 0, clips |-> clips] /\ monSnapshot' = monSnapshot
    BY <2>1 DEF Monitor!WriteManifest
  <2>3. MonitorTypes'
    BY <1>1, <1>2, <2>2 DEF MonitorInv, MonitorTypes, Ages, Monitor!Metrics
  <2>4. ASSUME NEW n \in 1 .. Periods PROVE AisSample(n)' /\ ManifestSample(n)'
    <3>1. AisSample(n)'
      BY <1>2, <2>2 DEF MonitorInv, AisSample, Monitor!Missing
    <3>2. ~(n <= monManifest'.age)
      BY <2>2
    <3> QED
      BY <3>1, <3>2 DEF ManifestSample
  <2> QED
    BY <1>2, <2>2, <2>3, <2>4 DEF MonitorInv, Monitor!Missing
<1>4. CASE \E ahead \in 0 .. MaxAhead : Monitor!WriteSnapshot(ahead)
  <2>1. PICK ahead \in 0 .. MaxAhead : Monitor!WriteSnapshot(ahead)
    BY <1>4
  <2>2. monSnapshot' = [age |-> 0 - ahead, silence |-> 0] /\ monManifest' = monManifest
    BY <2>1 DEF Monitor!WriteSnapshot
  <2>3. MonitorTypes'
    BY <1>1, <1>2, <2>2 DEF MonitorInv, MonitorTypes, Ages, Monitor!Metrics
  <2>4. ASSUME NEW n \in 1 .. Periods PROVE AisSample(n)' /\ ManifestSample(n)'
    <3>1. ManifestSample(n)'
      BY <1>2, <2>2 DEF MonitorInv, ManifestSample, Monitor!Missing
    <3>2. monSamples["ais"][n] \in Ages
      BY DEF MonitorInv, MonitorTypes, Monitor!Metrics
    <3>3. monSamples["ais"][n] >= -1
      BY <1>1, <3>2 DEF Ages, Monitor!Missing
    <3>4. ASSUME monSamples["ais"][n] # -1
          PROVE  monSamples["ais"][n] >= 0 - MaxAhead - (n - 1)
      BY <1>1, <3>2, <3>3, <3>4 DEF Ages, Monitor!Missing
    <3> QED
      BY <1>2, <2>2, <3>1, <3>4 DEF AisSample, Monitor!Missing
  <2> QED
    BY <1>1, <1>2, <2>2, <2>3, <2>4 DEF MonitorInv, Monitor!Missing
<1> QED
  BY <1>3, <1>4

\* A period passes: every sample moves on by one, and the new one is of what is there.
LEMMA PeriodKeeps ==
    ASSUME MonitorInv, NEW runs \in BOOLEAN, Monitor!Period(runs)
    PROVE  MonitorInv'
<1> DEFINE L == Monitor!Longest
           reported == runs /\ monManifest.clips
           new(m) == IF ~reported THEN Monitor!Missing
                     ELSE IF m = "ais" THEN Monitor!Age(Monitor!Older(monSnapshot.age))
                     ELSE Monitor!Age(Monitor!Older(monManifest.age))
           a == monSnapshot.age
           s == monSnapshot.silence
           g == monManifest.age
<1>1. L \in Nat /\ MaxAhead \in Nat /\ Periods \in Nat \ {0}
  BY MonitorAssumption DEF Monitor!Longest
<1>2. /\ a \in (0 - MaxAhead) .. L /\ s \in 0 .. L /\ g \in 0 .. L
      /\ monManifest.clips \in BOOLEAN /\ a >= s - MaxAhead
      /\ monManifest = [age |-> g, clips |-> monManifest.clips]
  BY DEF MonitorInv, MonitorTypes
<1>3. /\ Monitor!Older(a) = IF a + 1 <= L THEN a + 1 ELSE L
      /\ Monitor!Older(s) = IF s + 1 <= L THEN s + 1 ELSE L
      /\ Monitor!Older(g) = IF g + 1 <= L THEN g + 1 ELSE L
  <2> HIDE DEF a, s, g
  <2>1. a \in Int /\ a <= L /\ s \in Int /\ s <= L /\ g \in Int /\ g <= L
    BY <1>1, <1>2
  <2> QED
    BY <2>1, OlderIs
<1>4. /\ monSnapshot'.age = Monitor!Older(a) /\ monSnapshot'.silence = Monitor!Older(s)
      /\ monManifest'.age = Monitor!Older(g)
      /\ monManifest'.clips = monManifest.clips
      /\ monSnapshot' = [age |-> Monitor!Older(a), silence |-> Monitor!Older(s)]
      /\ monManifest' = [age |-> Monitor!Older(g), clips |-> monManifest.clips]
  BY <1>2 DEF Monitor!Period
<1>5. /\ monSamples' = [m \in Monitor!Metrics |-> Monitor!Pushed(new(m), monSamples[m])]
      /\ monRan' = Monitor!Pushed(runs, monRan)
  BY DEF Monitor!Period, Monitor!Reports
<1> HIDE DEF L, a, s, g
<1>6. /\ Monitor!Older(a) \in Int /\ Monitor!Older(a) <= L /\ Monitor!Older(a) <= a + 1
      /\ Monitor!Older(s) \in 0 .. L /\ Monitor!Older(s) <= s + 1
      /\ Monitor!Older(g) \in 0 .. L /\ Monitor!Older(g) <= g + 1
      /\ Monitor!Older(a) >= Monitor!Older(s) - MaxAhead
      /\ Monitor!Older(a) >= 0 - MaxAhead
  BY <1>1, <1>2, <1>3
<1>7. /\ Monitor!Age(Monitor!Older(a)) \in 0 .. L
      /\ Monitor!Age(Monitor!Older(a)) >= Monitor!Older(a)
      /\ Monitor!Age(Monitor!Older(g)) = Monitor!Older(g)
  BY <1>1, <1>6, AgeIs
<1>8. /\ new("ais") = IF ~reported THEN -1 ELSE Monitor!Age(Monitor!Older(a))
      /\ new("manifest") = IF ~reported THEN -1 ELSE Monitor!Age(Monitor!Older(g))
      /\ \A m \in Monitor!Metrics : new(m) \in Ages
  BY <1>1, <1>6, <1>7 DEF Ages, Monitor!Missing, Monitor!Metrics, L, a, g
<1> HIDE DEF new
<1>9. /\ monSamples["ais"] \in [1 .. Periods -> Ages]
      /\ monSamples["manifest"] \in [1 .. Periods -> Ages]
      /\ monRan \in [1 .. Periods -> BOOLEAN]
  BY DEF MonitorInv, MonitorTypes, Monitor!Metrics
<1>10. /\ monRan' \in [1 .. Periods -> BOOLEAN]
       /\ monSamples'["ais"] \in [1 .. Periods -> Ages]
       /\ monSamples'["manifest"] \in [1 .. Periods -> Ages]
       /\ monSamples' \in [Monitor!Metrics -> [1 .. Periods -> Ages]]
       /\ \A n \in 1 .. Periods :
             /\ monRan'[n] = IF n = 1 THEN runs ELSE monRan[n - 1]
             /\ monSamples'["ais"][n] =
                   IF n = 1 THEN new("ais") ELSE monSamples["ais"][n - 1]
             /\ monSamples'["manifest"][n] =
                   IF n = 1 THEN new("manifest") ELSE monSamples["manifest"][n - 1]
  <2>0. \A n \in 1 .. Periods : n # 1 => n - 1 \in 1 .. Periods /\ n = (n - 1) + 1
    BY <1>1
  <2>1. /\ monRan' \in [1 .. Periods -> BOOLEAN]
        /\ \A n \in 1 .. Periods : monRan'[n] = IF n = 1 THEN runs ELSE monRan[n - 1]
    <3>1. runs \in BOOLEAN /\ monRan \in Recent(BOOLEAN)
      BY <1>9 DEF Recent
    <3>2. /\ Monitor!Pushed(runs, monRan) \in Recent(BOOLEAN)
          /\ Monitor!Pushed(runs, monRan)[1] = runs
          /\ \A k, n \in 1 .. Periods :
                n = k + 1 => Monitor!Pushed(runs, monRan)[n] = monRan[k]
      BY <3>1, PushedIs
    <3> QED
      BY <1>5, <2>0, <3>2 DEF Recent
  <2>2. /\ "ais" \in Monitor!Metrics /\ "manifest" \in Monitor!Metrics
        /\ new("ais") \in Ages /\ new("manifest") \in Ages
    BY <1>8 DEF Monitor!Metrics
  <2>3. ASSUME NEW m \in Monitor!Metrics
        PROVE  /\ monSamples'[m] \in [1 .. Periods -> Ages]
               /\ \A n \in 1 .. Periods :
                     monSamples'[m][n] = IF n = 1 THEN new(m) ELSE monSamples[m][n - 1]
    <3>1. new(m) \in Ages /\ monSamples[m] \in Recent(Ages)
      BY <1>8 DEF MonitorInv, MonitorTypes, Recent
    <3>2. monSamples'[m] = Monitor!Pushed(new(m), monSamples[m])
      BY <1>5
    <3>3. /\ monSamples'[m] \in Recent(Ages) /\ monSamples'[m][1] = new(m)
          /\ \A k, n \in 1 .. Periods :
                n = k + 1 => monSamples'[m][n] = monSamples[m][k]
      BY <3>1, <3>2, PushedIs
    <3> QED
      BY <2>0, <3>3 DEF Recent
  <2>4. monSamples' \in [Monitor!Metrics -> [1 .. Periods -> Ages]]
    BY <1>5, <2>3
  <2> QED
    BY <2>1, <2>2, <2>3, <2>4
<1>11. MonitorTypes'
  <2>4. /\ monManifest' \in [age : 0 .. L, clips : BOOLEAN]
        /\ monSnapshot' \in [age : (0 - MaxAhead) .. L, silence : 0 .. L]
    BY <1>1, <1>2, <1>4, <1>6
  <2>5. L' = L /\ Ages' = Ages
    BY DEF L, Ages, Monitor!Longest, Monitor!Missing
  <2> QED
    BY <1>10, <2>4, <2>5 DEF MonitorTypes, L, Monitor!Metrics
<1>12. ASSUME NEW n \in 1 .. Periods
       PROVE  /\ AisSample(n)' /\ ManifestSample(n)'
              /\ ~monRan'[n] => monSamples'["ais"][n] = -1
  <2>1. CASE n = 1
    <3>1. /\ monRan'[n] = runs /\ monSamples'["ais"][n] = new("ais")
          /\ monSamples'["manifest"][n] = new("manifest")
      BY <1>10, <2>1
    <3>2. AisSample(n)'
      BY <1>1, <1>4, <1>6, <1>7, <1>8, <2>1, <3>1 DEF AisSample, Monitor!Missing
    <3>3. ManifestSample(n)'
      BY <1>1, <1>2, <1>4, <1>6, <1>7, <1>8, <2>1, <3>1 DEF ManifestSample, Monitor!Missing
    <3> QED
      BY <1>8, <3>1, <3>2, <3>3
  <2>2. CASE n # 1
    <3> DEFINE k == n - 1
               x == monSamples["ais"][k]
               y == monSamples["manifest"][k]
    <3>1. k \in 1 .. Periods /\ n = k + 1 /\ n \in Nat /\ k \in Nat
      BY <1>1, <2>2
    <3>2. monRan'[n] = monRan[k] /\ monSamples'["ais"][n] = x /\ monSamples'["manifest"][n] = y
      BY <1>10, <2>2, <3>1
    <3>3. x \in Ages /\ y \in Ages
      BY <1>9, <3>1
    <3>4. x \in Int /\ y \in Int
      BY <1>1, <3>3 DEF Ages, Monitor!Missing, L
    <3>5. /\ x # -1 => x >= s - MaxAhead - (k - 1)
          /\ k <= g /\ monRan[k] =>
                IF monManifest.clips THEN y >= g - (k - 1) ELSE x = -1
          /\ ~monRan[k] => x = -1
      BY <3>1 DEF MonitorInv, AisSample, ManifestSample, Monitor!Missing, s, g
    <3> HIDE DEF k, x, y
    <3>6. AisSample(n)'
      BY <1>1, <1>2, <1>4, <1>6, <3>1, <3>2, <3>4, <3>5 DEF AisSample, Monitor!Missing
    <3>7. ManifestSample(n)'
      BY <1>1, <1>2, <1>4, <1>6, <3>1, <3>2, <3>4, <3>5 DEF ManifestSample, Monitor!Missing
    <3> QED
      BY <3>2, <3>5, <3>6, <3>7
  <2> QED
    BY <2>1, <2>2
<1> QED
  BY <1>4, <1>6, <1>11, <1>12 DEF MonitorInv, Monitor!Missing

\* Old enough samples raise their alarm.
LEMMA MonitorIsRight == MonitorInv => Monitor!StalenessIsNoticed
<1> SUFFICES ASSUME MonitorInv PROVE Monitor!StalenessIsNoticed
  OBVIOUS
<1> DEFINE L == Monitor!Longest
           s == monSnapshot.silence
           g == monManifest.age
<1>1. /\ L \in Nat /\ MaxAhead \in Nat /\ Periods \in Nat \ {0} /\ AisLimit \in Nat
      /\ ManifestLimit \in Nat
  BY MonitorAssumption DEF Monitor!Longest
<1>2. s \in Nat /\ g \in Nat
  BY <1>1 DEF MonitorInv, MonitorTypes
<1>3. ASSUME NEW n \in 1 .. Periods
      PROVE  /\ monSamples["ais"][n] \in -1 .. L /\ monSamples["manifest"][n] \in -1 .. L
             /\ monRan[n] \in BOOLEAN
             /\ monSamples["ais"][n] # -1 =>
                   monSamples["ais"][n] >= s - MaxAhead - (n - 1)
             /\ n <= g /\ monRan[n] =>
                   IF monManifest.clips THEN monSamples["manifest"][n] >= g - (n - 1)
                   ELSE monSamples["ais"][n] = -1
             /\ ~monRan[n] => monSamples["ais"][n] = -1
  BY DEF MonitorInv, MonitorTypes, AisSample, ManifestSample, Ages, Monitor!Missing,
         Monitor!Metrics
<1> HIDE DEF L, s, g
<1>4. ASSUME s >= AisLimit + MaxAhead + Periods
      PROVE  Monitor!AisAlarm
  <2> SUFFICES ASSUME NEW n \in 1 .. Periods
               PROVE  monSamples["ais"][n] \in {-1} \cup AisLimit .. L
    BY DEF Monitor!AisAlarm, Monitor!Missing, L
  <2> QED
    BY <1>1, <1>2, <1>3, <1>4
<1>5. ASSUME g >= ManifestLimit + Periods, \A m, n \in 1 .. Periods : monRan[m] = monRan[n]
      PROVE  Monitor!ManifestAlarm \/ Monitor!AisAlarm
  <2>1. ASSUME NEW n \in 1 .. Periods PROVE n <= g /\ g - (n - 1) >= ManifestLimit
    BY <1>1, <1>2, <1>5
  <2>2. CASE monRan[1] /\ monManifest.clips
    <3>1. ASSUME NEW n \in 1 .. Periods PROVE monSamples["manifest"][n] >= ManifestLimit
      <4>1. monRan[n] /\ monSamples["manifest"][n] >= g - (n - 1)
        BY <1>1, <1>3, <1>5, <2>1, <2>2
      <4> QED
        BY <1>1, <1>2, <1>3, <2>1, <4>1
    <3> QED
      BY <3>1 DEF Monitor!ManifestAlarm
  <2>3. CASE ~(monRan[1] /\ monManifest.clips)
    <3>1. ASSUME NEW n \in 1 .. Periods PROVE monSamples["ais"][n] = -1
      <4>1. monRan[n] = monRan[1]
        BY <1>1, <1>5
      <4> QED
        BY <1>3, <2>1, <2>3, <4>1
    <3> QED
      BY <3>1 DEF Monitor!AisAlarm, Monitor!Missing
  <2> QED
    BY <2>2, <2>3
<1> QED
  BY <1>4, <1>5 DEF Monitor!StalenessIsNoticed, s, g

\* For every limit, number of samples and clock that is ahead: vessels that are silent
\* for longer than the limit and the window raise their alarm, and so does a manifest
\* nobody writes any more (stale_clip_monitor.py, monitoring.tf).
THEOREM AlarmsAreRightAlways == OperationsSpec => []AlarmsAreRight
<1> DEFINE Inv == part = "monitor" => MonitorInv
<1>1. HostInit => Inv
  BY MonitorInit DEF HostInit
<1>2. Inv /\ [HostNext]_allVars => Inv'
  <2> SUFFICES ASSUME part = "monitor" => MonitorInv, [HostNext]_allVars,
                      part' = "monitor"
               PROVE  MonitorInv'
    OBVIOUS
  <2>1. part = "monitor" /\ (MonitorNext \/ UNCHANGED MonitorVars)
    BY DEF HostNext, Only, allVars, MonitorNext
  <2>2. CASE MonitorNext
    BY <2>1, <2>2, WritingKeeps, PeriodKeeps DEF MonitorNext
  <2>3. CASE UNCHANGED MonitorVars
    BY <2>1, <2>3 DEF MonitorVars, MonitorInv, MonitorTypes, AisSample, ManifestSample,
       Ages, Monitor!Missing, Monitor!Longest, Monitor!Metrics
  <2> QED
    BY <2>1, <2>2, <2>3
<1>3. Inv => AlarmsAreRight
  BY MonitorIsRight DEF AlarmsAreRight
<1> QED
  BY <1>1, <1>2, <1>3, PTL DEF OperationsSpec

-----------------------------------------------------------------------------
(* The mirror of a stream.                                                 *)

HlsNext ==
    \/ Hls!BeginSegment \/ Hls!FinishSegment \/ Hls!ReplacePlaylist \/ Hls!RemoveSegment
    \/ Hls!BeginPass \/ Hls!UploadPlaylist \/ Hls!Look \/ Hls!Put \/ Hls!Delete
    \/ Hls!EndPass \/ Hls!Ends

SegmentStates == {"part", "whole"}

\* n is the newest of the segments D, 0 if there is none.
IsNewest(n, D) == n \in D \cup {0} /\ \A s \in D : s <= n

\* The encoder has one segment in hand, and names what is finished.
DirectoryIsRight ==
    /\ hlsFiles \in [DOMAIN hlsFiles -> SegmentStates]
    /\ DOMAIN hlsFiles \subseteq Nat \ {0} /\ IsFiniteSet(DOMAIN hlsFiles)
    /\ \A s \in DOMAIN hlsFiles : s < Hls!Newest => hlsFiles[s] = "whole"
    /\ \A s \in hlsPlaylist : s \in DOMAIN hlsFiles /\ hlsFiles[s] = "whole"

\* What is in the bucket, named there or remembered was in the directory once; a
\* segment that was finished then is finished if it is still there.
SeenSegments ==
    /\ \A s \in hlsShown \cup hlsListed \cup DOMAIN hlsPublished :
          s \in Nat /\ s <= Hls!Newest
    /\ \A s \in hlsShown : s \in DOMAIN hlsFiles => hlsFiles[s] = "whole"
    /\ hlsPc = "put" => /\ Hls!Min(hlsTodo) \in Nat /\ Hls!Min(hlsTodo) <= Hls!Newest
                        /\ hlsStat = "whole" /\ Hls!Min(hlsTodo) \in DOMAIN hlsFiles =>
                              hlsFiles[Hls!Min(hlsTodo)] = "whole"

\* What the process remembers to have put is there.
MemoryIsRight ==
    /\ hlsNoted # Hls!NoList => hlsShown = hlsNoted
    /\ hlsPlaylist = Hls!NoList => hlsShown = Hls!NoList
    /\ \A s \in DOMAIN hlsPublished :
          /\ s \in DOMAIN hlsBucket
          /\ hlsPublished[s] = "whole" => hlsBucket[s] = "whole"

Passing == {"playlist", "segments", "put"}

\* The segments the playlist names are there, or the pass will come to them.
PassIsRight ==
    /\ hlsPc \in {"start", "rest"} \cup Passing
    /\ hlsPc \in Passing => DOMAIN hlsFiles \subseteq hlsListed \cup hlsRecent
    /\ hlsPc \in {"segments", "put", "rest"} =>
          \A s \in hlsShown \ hlsRecent :
              /\ hlsPc # "rest" => s \in hlsListed
              /\ \/ hlsPc # "rest" /\ s \in hlsTodo
                 \/ s \in DOMAIN hlsBucket /\ hlsBucket[s] = "whole"
    /\ hlsPc = "playlist" => hlsTodo = hlsListed

HlsInv == DirectoryIsRight /\ SeenSegments /\ MemoryIsRight /\ PassIsRight

\* The newest is the greatest.
LEMMA NewestIsGreatest ==
    ASSUME NEW D, D \subseteq Nat \ {0}, IsFiniteSet(D)
    PROVE  /\ IsNewest(Hls!Max(D \cup {0}), D)
           /\ \A n : IsNewest(n, D) => n = Hls!Max(D \cup {0})
<1> DEFINE S == D \cup {0}
           max == Hls!Max(S)
<1>1. S \subseteq Nat /\ IsFiniteSet(S) /\ S # {}
  BY FS_AddElement
<1>2. PICK c \in S : \A d \in S : d <= c
  BY <1>1, GreatestExists
<1>3. max \in S /\ \A d \in S : max >= d
  BY <1>1, <1>2 DEF Hls!Max
<1> HIDE DEF max
<1>4. ASSUME NEW n, IsNewest(n, D) PROVE n = max
  <2>1. n \in S /\ \A d \in S : n >= d
    BY <1>4 DEF IsNewest
  <2>2. n \in Nat /\ max \in Nat /\ n >= max /\ max >= n
    BY <1>1, <1>3, <2>1
  <2> QED
    BY <2>2
<1>5. IsNewest(max, D)
  BY <1>1, <1>3 DEF IsNewest
<1> QED
  BY <1>4, <1>5 DEF max

\* A set of segments has a least one.
LEMMA LeastIsThere ==
    ASSUME NEW S, S \subseteq Nat, S # {}
    PROVE  Hls!Min(S) \in S
<1>1. PICK x \in S : TRUE
  OBVIOUS
<1> DEFINE T == {k \in 0 .. x : x - k \in S}
<1>2. T \subseteq Nat /\ IsFiniteSet(T) /\ 0 \in T
  <2>1. IsFiniteSet(0 .. x) /\ T \subseteq 0 .. x
    BY FS_Interval
  <2> QED
    BY <2>1, FS_Subset
<1>3. PICK k \in T : \A d \in T : d <= k
  BY <1>2, GreatestExists
<1>4. \A y \in S : x - k <= y
  <2> SUFFICES ASSUME NEW y \in S, y < x - k PROVE FALSE
    OBVIOUS
  <2>1. x - y \in T
    OBVIOUS
  <2> QED
    BY <1>3, <2>1
<1>5. \E y \in S : \A z \in S : y <= z
  BY <1>4
<1> QED
  BY <1>5 DEF Hls!Min

\* The stream begins with an empty directory, an empty memory and a pass to come.
LEMMA HlsInit == ASSUME Hls!Init PROVE HlsInv
<1>1. /\ hlsFiles = Hls!NoFiles /\ hlsPlaylist = {} /\ hlsShown = {} /\ hlsNoted = {}
      /\ hlsPublished = Hls!NoFiles /\ hlsListed = {} /\ hlsPc = "start"
  BY DEF Hls!Init, Hls!NoList
<1>2. DOMAIN Hls!NoFiles = {} /\ Hls!NoFiles \in [{} -> SegmentStates]
  BY DEF Hls!NoFiles
<1> QED
  BY <1>1, <1>2, FS_EmptySet
  DEF HlsInv, DirectoryIsRight, SeenSegments, MemoryIsRight, PassIsRight, Hls!NoList,
      Passing

\* Whatever the encoder does, segments only become finished or go, and a new one has a
\* new number: the rest of the state goes on being right.
LEMMA EncoderKeeps ==
    ASSUME HlsInv, DirectoryIsRight', Hls!Newest' \in Nat, Hls!Newest <= Hls!Newest',
           \A s \in DOMAIN hlsFiles' :
               \/ s \in DOMAIN hlsFiles /\ hlsFiles'[s] \in {hlsFiles[s], "whole"}
               \/ s = Hls!Newest + 1 /\ s \in hlsRecent',
           hlsRecent \subseteq hlsRecent',
           hlsPlaylist' = Hls!NoList => hlsPlaylist = Hls!NoList,
           UNCHANGED <<hlsBucket, hlsShown, hlsPublished, hlsNoted, hlsPc, hlsStat,
                       hlsTodo, hlsListed>>
    PROVE  HlsInv'
<1>1. Hls!Newest \in Nat
  BY NewestIsGreatest DEF HlsInv, DirectoryIsRight, IsNewest, Hls!Newest
<1>2. SeenSegments'
  <2>1. \A s \in hlsShown' \cup hlsListed' \cup DOMAIN hlsPublished' :
            s \in Nat /\ s <= Hls!Newest'
    BY <1>1 DEF HlsInv, SeenSegments
  <2>2. ASSUME NEW s \in hlsShown', s \in DOMAIN hlsFiles' PROVE hlsFiles'[s] = "whole"
    BY <1>1, <2>2 DEF HlsInv, SeenSegments
  <2>3. ASSUME hlsPc' = "put"
        PROVE  /\ Hls!Min(hlsTodo') \in Nat /\ Hls!Min(hlsTodo') <= Hls!Newest'
               /\ hlsStat' = "whole" /\ Hls!Min(hlsTodo') \in DOMAIN hlsFiles' =>
                     hlsFiles'[Hls!Min(hlsTodo')] = "whole"
    <3>1. /\ Hls!Min(hlsTodo) \in Nat /\ Hls!Min(hlsTodo) <= Hls!Newest
          /\ hlsStat = "whole" /\ Hls!Min(hlsTodo) \in DOMAIN hlsFiles =>
                hlsFiles[Hls!Min(hlsTodo)] = "whole"
      BY <2>3 DEF HlsInv, SeenSegments
    <3>2. Hls!Min(hlsTodo') = Hls!Min(hlsTodo)
      OBVIOUS
    <3> QED
      BY <1>1, <3>1, <3>2
  <2> QED
    BY <2>1, <2>2, <2>3 DEF SeenSegments
<1>3. MemoryIsRight'
  BY DEF HlsInv, MemoryIsRight
<1>4. PassIsRight'
  <2>1. hlsPc \in Passing => DOMAIN hlsFiles' \subseteq hlsListed' \cup hlsRecent'
    BY DEF HlsInv, PassIsRight
  <2> QED
    BY <2>1 DEF HlsInv, PassIsRight
<1> QED
  BY <1>2, <1>3, <1>4 DEF HlsInv

-----------------------------------------------------------------------------
(* The retention of the raw recordings.                                    *)

KeepNext ==
    \/ \E c \in KeptClips, star \in BOOLEAN : Keep!Feature(c, star)
    \/ Keep!TagRequested \/ Keep!BeginTool \/ Keep!Read \/ Keep!List \/ Keep!ToolFails
    \/ \E c \in KeptClips : Keep!Quarantine(c) \/ Keep!Tag(c)

KeepTypes ==
    /\ keepStars \subseteq KeptClips /\ keepQuarantined \subseteq KeptClips
    /\ keepOffset \in Nat
    /\ keepRequest = Keep!None \/ keepRequest \in [clip : KeptClips, star : BOOLEAN]

\* What is tagged is what is starred, but for the clip of a request that has not come to
\* its tag.
TagsFollow ==
    /\ keepRequest # Keep!None => (keepRequest.star <=> keepRequest.clip \in keepStars)
    /\ \A c \in KeptClips \ keepExcused :
          \/ keepRequest # Keep!None /\ keepRequest.clip = c
          \/ c \in keepTags <=> c \in keepStars
    /\ keepTags \subseteq KeptClips

\* What the tool has read of the stars that nobody changed since it began; one that it
\* has not come to has a place behind its offset.
ReadingIsRight ==
    /\ keepTool \in {"read", "list", "tag"} =>
          \A c \in keepFeatured \ keepCrossed : c \in keepStars
    /\ keepTool = "read" /\ ~keepShrunk =>
          \A c \in Keep!Visible \ (keepFeatured \cup keepCrossed) :
              Keep!Place(c) >= keepOffset
    /\ keepTool \in {"list", "tag"} /\ ~keepShrunk =>
          Keep!Visible \subseteq keepFeatured \cup keepCrossed

KeepInv == KeepTypes /\ TagsFollow /\ ReadingIsRight

\* The count of the instance is the count of this module.
LEMMA KeepCounts == ASSUME NEW S PROVE Keep!Cardinality(S) = Cardinality(S)
BY DEF Keep!Cardinality, Cardinality

\* Before the first pass nothing has been read.
LEMMA KeepInit == ASSUME Keep!Init PROVE KeepInv
BY DEF Keep!Init, KeepInv, KeepTypes, TagsFollow, ReadingIsRight, Keep!None

\* A place is a number, and grows with the list.
LEMMA PlacesGrow ==
    ASSUME KeepTypes, KeepTypes', Keep!Visible \subseteq Keep!Visible', NEW c
    PROVE  /\ Keep!Place(c) \in Nat /\ Keep!Place(c)' \in Nat
           /\ Keep!Place(c) <= Keep!Place(c)'
<1> DEFINE S == {d \in Keep!Visible : d > c}
           T == {d \in Keep!Visible' : d > c}
<1>1. IsFiniteSet(S) /\ IsFiniteSet(T) /\ S \subseteq T
  <2>1. S \subseteq KeptClips /\ T \subseteq KeptClips
    BY DEF KeepTypes, Keep!Visible
  <2> QED
    BY <2>1, KeepAssumption, FS_Subset
<1>2. Cardinality(S) \in Nat /\ Cardinality(T) \in Nat /\ Cardinality(S) <= Cardinality(T)
  BY <1>1, FS_CardinalityType, FS_Subset
<1>3. Keep!Place(c) = Cardinality(S) /\ Keep!Place(c)' = Cardinality(T)
  BY KeepCounts DEF Keep!Place
<1> QED
  BY <1>2, <1>3

\* The place of a clip of the list is less than its length.
LEMMA PlacesAreWithin ==
    ASSUME KeepTypes, NEW c \in Keep!Visible
    PROVE  /\ Keep!Place(c) \in Nat /\ Keep!Cardinality(Keep!Visible) \in Nat
           /\ Keep!Place(c) < Keep!Cardinality(Keep!Visible)
<1> DEFINE V == Keep!Visible
           S == {d \in V : d > c}
<1>1. IsFiniteSet(V) /\ V \subseteq Nat
  BY KeepAssumption, FS_Subset DEF KeepTypes, Keep!Visible
<1>2. S \subseteq V /\ c \in V /\ c \notin S
  BY <1>1
<1> HIDE DEF V
<1>3. Cardinality(S) < Cardinality(V) /\ Cardinality(S) \in Nat /\ Cardinality(V) \in Nat
  <2>1. IsFiniteSet(S) /\ S # V
    BY <1>1, <1>2, FS_Subset
  <2> QED
    BY <1>1, <1>2, <2>1, FS_Subset, FS_CardinalityType
<1>4. Keep!Place(c) = Cardinality(S) /\ Keep!Cardinality(V) = Cardinality(V)
  BY KeepCounts DEF Keep!Place, V
<1> QED
  BY <1>3, <1>4 DEF V

\* A star that is set or taken away, beside the tool or not.
LEMMA FeatureKeeps ==
    ASSUME KeepInv, NEW c \in KeptClips, NEW star \in BOOLEAN, Keep!Feature(c, star)
    PROVE  KeepInv'
<1>1. KeepTypes'
  BY DEF Keep!Feature, KeepInv, KeepTypes, Keep!reading
<1>2. TagsFollow'
  <2>1. /\ keepRequest = Keep!None /\ keepRequest' = [clip |-> c, star |-> star]
        /\ keepTags' = keepTags /\ keepExcused' = keepExcused
        /\ keepStars' = IF star THEN keepStars \cup {c} ELSE keepStars \ {c}
    BY DEF Keep!Feature, Keep!reading
  <2>2. keepRequest'.clip = c /\ keepRequest'.star = star
    BY <2>1
  <2>3. keepRequest' # Keep!None
    BY <2>1 DEF Keep!None
  <2> QED
    BY <2>1, <2>2, <2>3 DEF KeepInv, TagsFollow
<1>3. ReadingIsRight'
  <2>1. CASE keepTool = "idle"
    BY <2>1 DEF Keep!Feature, Keep!reading, ReadingIsRight
  <2>2. CASE keepTool # "idle"
    <3>1. /\ keepCrossed' = keepCrossed \cup {c} /\ keepQuarantined' = keepQuarantined
          /\ keepTool' = keepTool /\ keepOffset' = keepOffset
          /\ keepFeatured' = keepFeatured
          /\ keepStars' = IF star THEN keepStars \cup {c} ELSE keepStars \ {c}
          /\ ~keepShrunk' => /\ ~keepShrunk
                             /\ keepTool = "read" => star \/ c \notin keepStars
      BY <2>2 DEF Keep!Feature, Keep!reading
    <3>2. \A d \in Keep!Visible' \ keepCrossed' : d \in Keep!Visible
      BY <3>1 DEF Keep!Visible
    <3>3. \A d \in keepFeatured' \ keepCrossed' : d \in keepStars <=> d \in keepStars'
      BY <3>1
    <3>4. ASSUME keepTool = "read", ~keepShrunk',
                 NEW d \in Keep!Visible' \ (keepFeatured' \cup keepCrossed')
          PROVE  Keep!Place(d)' >= keepOffset'
      <4>1. Keep!Visible \subseteq Keep!Visible'
        BY <3>1, <3>4 DEF Keep!Visible
      <4>2. Keep!Place(d) \in Nat /\ Keep!Place(d)' \in Nat /\ Keep!Place(d) <= Keep!Place(d)'
        BY <1>1, <4>1, PlacesGrow DEF KeepInv
      <4>3. Keep!Place(d) >= keepOffset
        BY <3>1, <3>2, <3>4 DEF KeepInv, ReadingIsRight
      <4> QED
        BY <3>1, <4>2, <4>3 DEF KeepInv, KeepTypes
    <3> QED
      BY <3>1, <3>2, <3>3, <3>4 DEF KeepInv, ReadingIsRight
  <2> QED
    BY <2>1, <2>2
<1> QED
  BY <1>1, <1>2, <1>3 DEF KeepInv

\* A clip that is put away leaves the list, which the tool cannot know.
LEMMA QuarantineKeeps ==
    ASSUME KeepInv, NEW c \in KeptClips, Keep!Quarantine(c)
    PROVE  KeepInv'
<1>1. KeepTypes' /\ TagsFollow'
  BY DEF Keep!Quarantine, KeepInv, KeepTypes, TagsFollow, Keep!reading
<1>2. ReadingIsRight'
  <2>1. /\ keepQuarantined' = keepQuarantined \cup {c} /\ keepStars' = keepStars
        /\ keepCrossed' = keepCrossed /\ keepFeatured' = keepFeatured
        /\ keepTool' = keepTool /\ keepOffset' = keepOffset
        /\ ~keepShrunk' => ~keepShrunk /\ (keepTool = "read" => c \notin keepStars)
    BY DEF Keep!Quarantine, Keep!reading
  <2>2. Keep!Visible' \subseteq Keep!Visible
    BY <2>1 DEF Keep!Visible
  <2>3. ASSUME keepTool = "read", ~keepShrunk'
        PROVE  Keep!Visible' = Keep!Visible /\ \A d : Keep!Place(d)' = Keep!Place(d)
    <3>1. Keep!Visible' = Keep!Visible
      BY <2>1, <2>3 DEF Keep!Visible
    <3> QED
      BY <3>1 DEF Keep!Place
  <2> QED
    BY <2>1, <2>2, <2>3 DEF KeepInv, ReadingIsRight
<1> QED
  BY <1>1, <1>2 DEF KeepInv

\* A page more: what it does not show has a place behind it.
LEMMA ReadKeeps == ASSUME KeepInv, Keep!Read PROVE KeepInv'
<1> DEFINE full == ~(Keep!Cardinality(Keep!Visible) < keepOffset + KeptPage)
<1>1. /\ keepTool = "read" /\ keepFeatured' = keepFeatured \cup Keep!Page
      /\ keepTool' = IF full THEN "read" ELSE "list"
      /\ keepOffset' = IF full THEN keepOffset + KeptPage ELSE keepOffset
      /\ UNCHANGED <<keepStars, keepQuarantined, keepRequest, keepTags, keepCrossed,
                     keepShrunk, keepExcused>>
  BY DEF Keep!Read, Keep!ToolStep
<1>2. KeepTypes' /\ TagsFollow'
  BY <1>1, KeepAssumption DEF KeepInv, KeepTypes, TagsFollow
<1>3. Keep!Page \subseteq Keep!Visible /\ Keep!Visible \subseteq keepStars
  BY DEF Keep!Page, Keep!Visible
<1>4. Keep!Visible' = Keep!Visible /\ \A d : Keep!Place(d)' = Keep!Place(d)
  <2>1. Keep!Visible' = Keep!Visible
    BY <1>1 DEF Keep!Visible
  <2> QED
    BY <2>1 DEF Keep!Place
<1>5. ASSUME ~keepShrunk, NEW d \in Keep!Visible \ (keepFeatured' \cup keepCrossed)
      PROVE  full /\ Keep!Place(d) >= keepOffset + KeptPage
  <2>1. Keep!Place(d) >= keepOffset /\ d \notin Keep!Page
    BY <1>1, <1>5 DEF KeepInv, ReadingIsRight
  <2>2. /\ Keep!Place(d) \in Nat /\ Keep!Cardinality(Keep!Visible) \in Nat
        /\ Keep!Place(d) < Keep!Cardinality(Keep!Visible)
    BY <1>5, PlacesAreWithin DEF KeepInv
  <2>3. Keep!Place(d) >= keepOffset + KeptPage
    BY <1>5, <2>1, <2>2, KeepAssumption DEF Keep!Page, KeepInv, KeepTypes
  <2> QED
    BY <2>2, <2>3, KeepAssumption DEF KeepInv, KeepTypes
<1>6. ReadingIsRight'
  BY <1>1, <1>3, <1>4, <1>5 DEF KeepInv, ReadingIsRight
<1> QED
  BY <1>2, <1>6 DEF KeepInv

\* The tool sets one tag, from what it has read.
LEMMA TagKeeps ==
    ASSUME KeepInv, NEW c \in KeptClips, Keep!Tag(c)
    PROVE  KeepInv'
<1>1. /\ keepTool = "tag" /\ keepTool' \in {"idle", "tag"}
      /\ UNCHANGED <<keepStars, keepQuarantined, keepRequest>>
      /\ \/ /\ keepTags' = IF c \in keepFeatured THEN keepTags \cup {c} ELSE keepTags \ {c}
            /\ keepExcused' = IF Keep!Misread(c) THEN keepExcused \cup {c}
                              ELSE keepExcused \ {c}
         \/ UNCHANGED <<keepTags, keepExcused>>
      /\ \/ keepTool' = "idle" /\ keepOffset' = 0
         \/ /\ keepTool' = "tag"
            /\ UNCHANGED <<keepFeatured, keepOffset, keepCrossed, keepShrunk>>
  BY DEF Keep!Tag, Keep!ToolStep
<1>2. KeepTypes'
  BY <1>1 DEF KeepInv, KeepTypes
<1>3. ~Keep!Misread(c) => (c \in keepFeatured <=> c \in keepStars)
  BY <1>1 DEF KeepInv, ReadingIsRight, Keep!Misread, Keep!Visible
<1>4. TagsFollow'
  BY <1>1, <1>3 DEF KeepInv, TagsFollow
<1>5. ReadingIsRight'
  <2>1. Keep!Visible' = Keep!Visible
    BY <1>1 DEF Keep!Visible
  <2> QED
    BY <1>1, <2>1 DEF KeepInv, ReadingIsRight
<1> QED
  BY <1>2, <1>4, <1>5 DEF KeepInv

\* The tag of a request is the star it has set.
LEMMA TagRequestedKeeps == ASSUME KeepInv, Keep!TagRequested PROVE KeepInv'
<1>1. PICK c \in KeptClips : c = keepRequest.clip
  BY DEF Keep!TagRequested, KeepInv, KeepTypes
<1>2. /\ keepRequest # Keep!None /\ keepRequest' = Keep!None
      /\ \/ /\ keepTags' = IF keepRequest.star THEN keepTags \cup {c} ELSE keepTags \ {c}
            /\ keepExcused' = keepExcused \ {c}
         \/ keepTags' = keepTags /\ keepExcused' = keepExcused \cup {c}
      /\ UNCHANGED <<keepStars, keepQuarantined, keepTool, keepOffset, keepFeatured,
                     keepCrossed, keepShrunk>>
  BY <1>1 DEF Keep!TagRequested, Keep!reading
<1>3. KeepTypes' /\ TagsFollow'
  BY <1>1, <1>2 DEF KeepInv, KeepTypes, TagsFollow
<1>4. ReadingIsRight'
  <2>1. Keep!Visible' = Keep!Visible /\ \A d : Keep!Place(d)' = Keep!Place(d)
    <3>1. Keep!Visible' = Keep!Visible
      BY <1>2 DEF Keep!Visible
    <3> QED
      BY <3>1 DEF Keep!Place
  <2> QED
    BY <1>2, <2>1 DEF KeepInv, ReadingIsRight
<1> QED
  BY <1>3, <1>4 DEF KeepInv

\* Every step of the retention keeps its invariant.
LEMMA KeepStep == ASSUME KeepInv, KeepNext PROVE KeepInv'
<1>1. ASSUME Keep!BeginTool PROVE KeepInv'
  <2>1. /\ keepTool' = "read" /\ keepOffset' = 0 /\ keepFeatured' = {}
        /\ UNCHANGED <<keepStars, keepQuarantined, keepRequest, keepTags, keepExcused>>
    BY <1>1 DEF Keep!BeginTool, Keep!ToolStep
  <2>2. KeepTypes' /\ TagsFollow'
    BY <2>1 DEF KeepInv, KeepTypes, TagsFollow
  <2>3. \A c : Keep!Place(c)' \in Nat
    <3>1. Keep!Visible' = Keep!Visible
      BY <2>1 DEF Keep!Visible
    <3> QED
      BY <2>2, <3>1, PlacesGrow DEF KeepInv
  <2>4. ReadingIsRight'
    BY <2>1, <2>3 DEF ReadingIsRight
  <2> QED
    BY <2>2, <2>4 DEF KeepInv
<1>2. ASSUME Keep!List PROVE KeepInv'
  <2>1. /\ keepTool = "list" /\ keepTool' = "tag"
        /\ UNCHANGED <<keepStars, keepQuarantined, keepRequest, keepTags, keepExcused,
                       keepOffset, keepFeatured, keepCrossed, keepShrunk>>
    BY <1>2 DEF Keep!List, Keep!ToolStep
  <2>2. Keep!Visible' = Keep!Visible
    BY <2>1 DEF Keep!Visible
  <2> QED
    BY <2>1, <2>2 DEF KeepInv, KeepTypes, TagsFollow, ReadingIsRight
<1>3. ASSUME Keep!ToolFails PROVE KeepInv'
  BY <1>3 DEF Keep!ToolFails, Keep!ToolStep, KeepInv, KeepTypes, TagsFollow, ReadingIsRight
<1> QED
  BY <1>1, <1>2, <1>3, FeatureKeeps, TagRequestedKeeps, ReadKeeps, QuarantineKeeps, TagKeeps
  DEF KeepNext

\* The other parts leave the retention alone.
LEMMA KeepStutters == ASSUME KeepInv, UNCHANGED RetentionVars PROVE KeepInv'
<1>1. Keep!Visible' = Keep!Visible /\ \A d : Keep!Place(d)' = Keep!Place(d)
  <2>1. Keep!Visible' = Keep!Visible
    BY DEF RetentionVars, Keep!Visible
  <2> QED
    BY <2>1 DEF Keep!Place
<1> QED
  BY <1>1 DEF RetentionVars, KeepInv, KeepTypes, TagsFollow, ReadingIsRight

\* The encoder begins a segment beyond the newest one.
LEMMA BeginSegmentKeeps == ASSUME HlsInv, Hls!BeginSegment PROVE HlsInv'
<1> DEFINE n == Hls!Newest
<1>1. IsNewest(n, DOMAIN hlsFiles) /\ n \in Nat
  BY NewestIsGreatest DEF HlsInv, DirectoryIsRight, IsNewest, Hls!Newest
<1>2. /\ DOMAIN hlsFiles' = DOMAIN hlsFiles \cup {n + 1}
      /\ hlsFiles'[n + 1] = "part"
      /\ \A s \in DOMAIN hlsFiles : s # n + 1 /\ hlsFiles'[s] = hlsFiles[s]
      /\ hlsFiles' \in [DOMAIN hlsFiles' -> SegmentStates]
      /\ \A s \in DOMAIN hlsFiles : hlsFiles[s] = "whole"
      /\ hlsPlaylist' = hlsPlaylist
      /\ hlsRecent' = hlsRecent \cup {n + 1}
  BY <1>1 DEF Hls!BeginSegment, Hls!With, HlsInv, DirectoryIsRight, SegmentStates, IsNewest
<1> HIDE DEF n
<1>3. DOMAIN hlsFiles' \subseteq Nat \ {0} /\ IsFiniteSet(DOMAIN hlsFiles')
  BY <1>1, <1>2, FS_AddElement DEF HlsInv, DirectoryIsRight
<1>4. Hls!Newest' = n + 1
  <2>1. IsNewest(n + 1, DOMAIN hlsFiles')
    BY <1>1, <1>2, <1>3 DEF IsNewest
  <2> QED
    BY <1>3, <2>1, NewestIsGreatest DEF Hls!Newest
<1>5. DirectoryIsRight'
  BY <1>1, <1>2, <1>3, <1>4 DEF HlsInv, DirectoryIsRight
<1> QED
  BY <1>1, <1>2, <1>4, <1>5, EncoderKeeps
  DEF n, Hls!BeginSegment, Hls!Mirror, Hls!remote, Hls!memory, HlsInv, DirectoryIsRight

\* The encoder finishes the newest segment.
LEMMA FinishSegmentKeeps == ASSUME HlsInv, Hls!FinishSegment PROVE HlsInv'
<1> DEFINE n == Hls!Newest
<1>1. IsNewest(n, DOMAIN hlsFiles) /\ n \in DOMAIN hlsFiles
  BY NewestIsGreatest
  DEF HlsInv, DirectoryIsRight, IsNewest, Hls!Newest, Hls!FinishSegment
<1>2. /\ DOMAIN hlsFiles' = DOMAIN hlsFiles
      /\ \A s \in DOMAIN hlsFiles : hlsFiles'[s] = IF s = n THEN "whole" ELSE hlsFiles[s]
      /\ hlsFiles' \in [DOMAIN hlsFiles' -> SegmentStates]
      /\ UNCHANGED <<hlsPlaylist, hlsRecent>>
  BY <1>1 DEF Hls!FinishSegment, Hls!With, HlsInv, DirectoryIsRight, SegmentStates
<1>3. Hls!Newest' = n
  BY <1>2 DEF Hls!Newest
<1> HIDE DEF n
<1>4. DirectoryIsRight'
  BY <1>1, <1>2, <1>3, Zenon DEF HlsInv, DirectoryIsRight, n
<1>5. n \in Nat /\ n <= n
  BY <1>1 DEF HlsInv, DirectoryIsRight
<1> QED
  BY <1>2, <1>3, <1>4, <1>5, EncoderKeeps
  DEF n, Hls!FinishSegment, Hls!Mirror, Hls!remote, Hls!memory

\* The encoder names the newest finished segments.
LEMMA ReplacePlaylistKeeps == ASSUME HlsInv, Hls!ReplacePlaylist PROVE HlsInv'
<1> DEFINE n == Hls!Newest
<1>1. IsNewest(n, DOMAIN hlsFiles) /\ n \in DOMAIN hlsFiles
  BY NewestIsGreatest
  DEF HlsInv, DirectoryIsRight, IsNewest, Hls!Newest, Hls!ReplacePlaylist
<1>2. /\ hlsFiles' = hlsFiles /\ hlsRecent' = hlsRecent /\ hlsFiles[n] = "whole"
      /\ hlsPlaylist' = {s \in DOMAIN hlsFiles : s > n - ListSize}
      /\ n \notin hlsPlaylist
  BY <1>1 DEF Hls!ReplacePlaylist
<1>3. Hls!Newest' = n
  BY <1>2 DEF Hls!Newest
<1> HIDE DEF n
<1>4. DirectoryIsRight'
  <2>1. \A s \in DOMAIN hlsFiles : s < n \/ s = n
    BY <1>1 DEF IsNewest, HlsInv, DirectoryIsRight
  <2>2. \A s \in DOMAIN hlsFiles : hlsFiles[s] = "whole"
    BY <1>2, <2>1 DEF n, HlsInv, DirectoryIsRight
  <2> QED
    BY <1>2, <1>3, <2>2 DEF HlsInv, DirectoryIsRight
<1>5. n \in Nat /\ n <= n
  BY <1>1 DEF HlsInv, DirectoryIsRight
<1>6. n \in hlsPlaylist'
  BY <1>1, <1>2, <1>5, StreamAssumption
<1> QED
  BY <1>2, <1>3, <1>4, <1>5, <1>6, EncoderKeeps
  DEF n, Hls!ReplacePlaylist, Hls!Mirror, Hls!remote, Hls!memory, Hls!NoList, HlsInv,
      DirectoryIsRight

\* The encoder removes a segment the playlist names no more.
LEMMA RemoveSegmentKeeps == ASSUME HlsInv, Hls!RemoveSegment PROVE HlsInv'
<1> DEFINE n == Hls!Newest
<1>1. IsNewest(n, DOMAIN hlsFiles) /\ n \in Nat
  BY NewestIsGreatest DEF HlsInv, DirectoryIsRight, IsNewest, Hls!Newest
<1>2. PICK s \in DOMAIN hlsFiles :
          s < n /\ s \notin hlsPlaylist /\ hlsFiles' = Hls!Less(hlsFiles, s)
  BY DEF Hls!RemoveSegment
<1>3. /\ DOMAIN hlsFiles' = DOMAIN hlsFiles \ {s}
      /\ \A t \in DOMAIN hlsFiles' : hlsFiles'[t] = hlsFiles[t]
      /\ hlsFiles' \in [DOMAIN hlsFiles' -> SegmentStates]
      /\ UNCHANGED <<hlsPlaylist, hlsRecent>>
  BY <1>2 DEF Hls!RemoveSegment, Hls!Less, HlsInv, DirectoryIsRight, SegmentStates
<1> HIDE DEF n
<1>4. DOMAIN hlsFiles' \subseteq Nat \ {0} /\ IsFiniteSet(DOMAIN hlsFiles')
  BY <1>3, FS_Subset DEF HlsInv, DirectoryIsRight
<1>5. Hls!Newest' = n
  <2>1. IsNewest(n, DOMAIN hlsFiles')
    BY <1>1, <1>2, <1>3, <1>4 DEF IsNewest, HlsInv, DirectoryIsRight
  <2> QED
    BY <1>4, <2>1, NewestIsGreatest DEF Hls!Newest
<1>6. DirectoryIsRight'
  BY <1>2, <1>3, <1>4, <1>5 DEF n, HlsInv, DirectoryIsRight
<1> QED
  BY <1>1, <1>3, <1>5, <1>6, EncoderKeeps
  DEF n, Hls!RemoveSegment, Hls!Mirror, Hls!remote, Hls!memory

\* While the encoder does nothing, the directory stays as it is.
LEMMA DirectoryStays ==
    ASSUME UNCHANGED <<hlsFiles, hlsPlaylist>>
    PROVE  Hls!Newest' = Hls!Newest /\ (DirectoryIsRight => DirectoryIsRight')
<1>1. Hls!Newest' = Hls!Newest
  BY DEF Hls!Newest
<1> QED
  BY <1>1 DEF DirectoryIsRight

\* A pass lists the directory.
LEMMA BeginPassKeeps == ASSUME HlsInv, Hls!BeginPass PROVE HlsInv'
<1>1. /\ hlsPc' = "playlist" /\ hlsListed' = DOMAIN hlsFiles /\ hlsTodo' = hlsListed'
      /\ UNCHANGED <<hlsFiles, hlsPlaylist, hlsBucket, hlsShown, hlsPublished, hlsNoted>>
  BY DEF Hls!BeginPass, Hls!dir, Hls!remote, Hls!memory
<1>2. Hls!Newest' = Hls!Newest /\ DirectoryIsRight'
  BY <1>1, DirectoryStays DEF HlsInv
<1>3. SeenSegments'
  <2>1. IsNewest(Hls!Newest, DOMAIN hlsFiles)
    BY NewestIsGreatest DEF HlsInv, DirectoryIsRight, Hls!Newest
  <2> QED
    BY <1>1, <1>2, <2>1 DEF HlsInv, SeenSegments, DirectoryIsRight, IsNewest
<1> QED
  BY <1>1, <1>2, <1>3 DEF HlsInv, MemoryIsRight, PassIsRight, Passing

\* What the playlist names is in the directory, finished.
LEMMA UploadPlaylistKeeps == ASSUME HlsInv, Hls!UploadPlaylist PROVE HlsInv'
<1>1. /\ hlsPc = "playlist" /\ hlsPc' = "segments"
      /\ hlsShown' = hlsPlaylist /\ hlsNoted' = hlsPlaylist
      /\ UNCHANGED <<hlsFiles, hlsPlaylist, hlsBucket, hlsPublished, hlsTodo, hlsListed,
                     hlsRecent>>
  BY DEF Hls!UploadPlaylist, Hls!Pass, Hls!dir, HlsInv, MemoryIsRight, Hls!NoList
<1>2. Hls!Newest' = Hls!Newest /\ DirectoryIsRight'
  BY <1>1, DirectoryStays DEF HlsInv
<1>3. SeenSegments'
  <2>1. IsNewest(Hls!Newest, DOMAIN hlsFiles)
    BY NewestIsGreatest DEF HlsInv, DirectoryIsRight, Hls!Newest
  <2> QED
    BY <1>1, <1>2, <2>1 DEF HlsInv, SeenSegments, DirectoryIsRight, IsNewest
<1>4. PassIsRight'
  BY <1>1 DEF HlsInv, PassIsRight, DirectoryIsRight, Passing
<1> QED
  BY <1>1, <1>2, <1>3, <1>4 DEF HlsInv, MemoryIsRight, Hls!NoList

\* A segment that is remembered as it is now was put as it is now.
LEMMA LookKeeps == ASSUME HlsInv, Hls!Look PROVE HlsInv'
<1> DEFINE s == Hls!Min(hlsTodo)
<1>1. /\ hlsPc = "segments" /\ s \in DOMAIN hlsFiles
      /\ \/ /\ s \in DOMAIN hlsPublished /\ hlsPublished[s] = hlsFiles[s]
            /\ hlsTodo' = hlsTodo \ {s} /\ UNCHANGED <<hlsPc, hlsStat>>
         \/ hlsPc' = "put" /\ hlsStat' = hlsFiles[s] /\ hlsTodo' = hlsTodo
      /\ UNCHANGED <<hlsFiles, hlsPlaylist, hlsBucket, hlsShown, hlsPublished, hlsNoted,
                     hlsListed, hlsRecent>>
  BY DEF Hls!Look, Hls!dir, Hls!remote, Hls!memory
<1>2. Hls!Newest' = Hls!Newest /\ DirectoryIsRight'
  BY <1>1, DirectoryStays DEF HlsInv
<1>3. IsNewest(Hls!Newest, DOMAIN hlsFiles) /\ s \in Nat
  BY <1>1, NewestIsGreatest DEF HlsInv, DirectoryIsRight, Hls!Newest
<1>4. SeenSegments'
  <2>1. CASE hlsPc' = "put"
    <3>1. hlsPc' = "put" /\ hlsStat' = hlsFiles[s] /\ Hls!Min(hlsTodo') = s
      BY <1>1, <2>1
    <3> HIDE DEF s
    <3> QED
      BY <1>1, <1>2, <1>3, <3>1 DEF HlsInv, SeenSegments, IsNewest
  <2>2. CASE hlsPc' # "put"
    BY <1>1, <1>2, <2>2 DEF HlsInv, SeenSegments
  <2> QED
    BY <2>1, <2>2
<1>5. MemoryIsRight'
  BY <1>1 DEF HlsInv, MemoryIsRight
<1> HIDE DEF s
<1>6. PassIsRight'
  BY <1>1 DEF HlsInv, PassIsRight, Passing, SeenSegments, MemoryIsRight
<1> QED
  BY <1>2, <1>4, <1>5, <1>6 DEF HlsInv

\* The body of a segment is read after its size and time, so it is no older.
LEMMA PutKeeps == ASSUME HlsInv, Hls!Put PROVE HlsInv'
<1> DEFINE s == Hls!Min(hlsTodo)
<1>1. /\ hlsPc = "put" /\ hlsPc' = "segments" /\ s \in DOMAIN hlsFiles
      /\ DOMAIN hlsBucket' = DOMAIN hlsBucket \cup {s}
      /\ DOMAIN hlsPublished' = DOMAIN hlsPublished \cup {s}
      /\ hlsBucket'[s] = hlsFiles[s] /\ hlsPublished'[s] = hlsStat
      /\ \A t \in DOMAIN hlsBucket : t # s => hlsBucket'[t] = hlsBucket[t]
      /\ \A t \in DOMAIN hlsPublished : t # s => hlsPublished'[t] = hlsPublished[t]
      /\ hlsTodo' = hlsTodo \ {s}
      /\ UNCHANGED <<hlsFiles, hlsPlaylist, hlsShown, hlsNoted, hlsListed, hlsRecent>>
  BY DEF Hls!Put, Hls!Pass, Hls!dir, Hls!With
<1>2. Hls!Newest' = Hls!Newest /\ DirectoryIsRight'
  BY <1>1, DirectoryStays DEF HlsInv
<1>3. /\ s \in Nat /\ s <= Hls!Newest
      /\ hlsStat = "whole" => hlsFiles[s] = "whole"
      /\ s \in hlsShown => hlsFiles[s] = "whole"
  BY <1>1 DEF HlsInv, SeenSegments
<1> HIDE DEF s
<1>4. SeenSegments'
  BY <1>1, <1>2, <1>3 DEF HlsInv, SeenSegments
<1>5. MemoryIsRight'
  BY <1>1, <1>3 DEF HlsInv, MemoryIsRight
<1>6. PassIsRight'
  BY <1>1, <1>3 DEF HlsInv, PassIsRight, Passing
<1> QED
  BY <1>2, <1>4, <1>5, <1>6 DEF HlsInv

\* A segment that is deleted was not listed.
LEMMA DeleteKeeps == ASSUME HlsInv, Hls!Delete PROVE HlsInv'
<1> DEFINE s == Hls!Min(Hls!Gone)
<1>1. s \in DOMAIN hlsPublished \ hlsListed
  <2>1. Hls!Gone \subseteq Nat /\ Hls!Gone # {}
    BY DEF Hls!Delete, Hls!Gone, HlsInv, SeenSegments
  <2> QED
    BY <2>1, LeastIsThere DEF Hls!Gone
<1>2. /\ hlsPc = "segments" /\ hlsPc' = "segments"
      /\ DOMAIN hlsBucket' = DOMAIN hlsBucket \ {s}
      /\ DOMAIN hlsPublished' = DOMAIN hlsPublished \ {s}
      /\ \A t \in DOMAIN hlsBucket' : hlsBucket'[t] = hlsBucket[t]
      /\ \A t \in DOMAIN hlsPublished' : hlsPublished'[t] = hlsPublished[t]
      /\ UNCHANGED <<hlsFiles, hlsPlaylist, hlsShown, hlsNoted, hlsTodo, hlsListed,
                     hlsRecent>>
  BY DEF Hls!Delete, Hls!dir, Hls!Less
<1> HIDE DEF s
<1>3. Hls!Newest' = Hls!Newest /\ DirectoryIsRight'
  BY <1>2, DirectoryStays DEF HlsInv
<1>4. SeenSegments' /\ MemoryIsRight'
  BY <1>2, <1>3 DEF HlsInv, SeenSegments, MemoryIsRight
<1>5. PassIsRight'
  BY <1>1, <1>2 DEF HlsInv, PassIsRight, Passing
<1> QED
  BY <1>3, <1>4, <1>5 DEF HlsInv

\* Every step of the stream keeps its invariant.
LEMMA HlsStep == ASSUME HlsInv, HlsNext PROVE HlsInv'
<1>1. ASSUME Hls!EndPass PROVE HlsInv'
  <2>1. /\ hlsPc = "segments" /\ hlsPc' = "rest" /\ hlsTodo = {} /\ hlsListed' = {}
        /\ UNCHANGED <<hlsFiles, hlsPlaylist, hlsBucket, hlsShown, hlsPublished, hlsNoted,
                       hlsTodo, hlsRecent>>
    BY <1>1 DEF Hls!EndPass, Hls!Pass, Hls!dir, Hls!remote, Hls!memory
  <2>2. Hls!Newest' = Hls!Newest /\ DirectoryIsRight'
    BY <2>1, DirectoryStays DEF HlsInv
  <2> QED
    BY <2>1, <2>2 DEF HlsInv, SeenSegments, MemoryIsRight, PassIsRight, Passing
<1>2. ASSUME Hls!Ends PROVE HlsInv'
  <2>1. /\ hlsPc' = "start" /\ hlsListed' = {} /\ hlsPublished' = Hls!NoFiles
        /\ hlsNoted' = Hls!NoList
        /\ UNCHANGED <<hlsFiles, hlsPlaylist, hlsBucket, hlsShown>>
    BY <1>2 DEF Hls!Ends, Hls!dir, Hls!remote
  <2>2. Hls!Newest' = Hls!Newest /\ DirectoryIsRight' /\ DOMAIN Hls!NoFiles = {}
    BY <2>1, DirectoryStays DEF HlsInv, Hls!NoFiles
  <2> QED
    BY <2>1, <2>2 DEF HlsInv, SeenSegments, MemoryIsRight, PassIsRight, Passing
<1> QED
  BY <1>1, <1>2, BeginSegmentKeeps, FinishSegmentKeeps, ReplacePlaylistKeeps,
     RemoveSegmentKeeps, BeginPassKeeps, UploadPlaylistKeeps, LookKeeps, PutKeeps,
     DeleteKeeps
  DEF HlsNext

\* The other parts leave the stream alone.
LEMMA HlsStutters == ASSUME HlsInv, UNCHANGED HlsVars PROVE HlsInv'
<1>1. UNCHANGED <<hlsFiles, hlsPlaylist, hlsBucket, hlsShown, hlsPublished, hlsNoted, hlsPc,
                  hlsStat, hlsTodo, hlsListed, hlsRecent>>
  BY DEF HlsVars
<1>2. Hls!Newest' = Hls!Newest /\ DirectoryIsRight' /\ Hls!Min(hlsTodo') = Hls!Min(hlsTodo)
  BY <1>1, DirectoryStays DEF HlsInv
<1> QED
  BY <1>1, <1>2 DEF HlsInv, SeenSegments, MemoryIsRight, PassIsRight

-----------------------------------------------------------------------------
\* Any segments, uploads that fail and processes that end; any stars, runs of the tool
\* and calls that fail: a player finds every segment that is named, and a recording is
\* tagged as its clip is starred (publish_once, feature_clip, tag_raw_audio_retention).
THEOREM BucketsAreRightAlways == OperationsSpec => []BucketsAreRight
<1> DEFINE Inv == /\ part = "hls" => HlsInv
                  /\ part = "retention" => KeepInv
<1>1. HostInit => Inv
  BY HlsInit, KeepInit DEF HostInit
<1>2. Inv /\ [HostNext]_allVars => Inv'
  <2> SUFFICES ASSUME Inv, [HostNext]_allVars PROVE Inv'
    OBVIOUS
  <2>1. ASSUME part' = "hls" PROVE HlsInv'
    <3>1. part = "hls" /\ (HlsNext \/ UNCHANGED HlsVars)
      BY <2>1 DEF HostNext, Only, allVars, HlsNext
    <3> QED
      BY <3>1, HlsStep, HlsStutters
  <2>2. ASSUME part' = "retention" PROVE KeepInv'
    <3>1. part = "retention" /\ (KeepNext \/ UNCHANGED RetentionVars)
      BY <2>2 DEF HostNext, Only, allVars, KeepNext
    <3> QED
      BY <3>1, KeepStep, KeepStutters
  <2> QED
    BY <2>1, <2>2
<1>3. Inv => BucketsAreRight
  <2>1. HlsInv => Hls!StreamIsWhole
    BY DEF HlsInv, PassIsRight, MemoryIsRight, Hls!StreamIsWhole
  <2>2. KeepInv => Keep!RetentionFollowsStars
    BY DEF KeepInv, KeepTypes, TagsFollow, Keep!RetentionFollowsStars
  <2> QED
    BY <2>1, <2>2 DEF BucketsAreRight
<1> QED
  BY <1>1, <1>2, <1>3, PTL DEF OperationsSpec
===============================================================================
