-------------------------------- MODULE Scorer --------------------------------
(***************************************************************************)
(* pkg/scorer as pure operators: the risk score of a dependency, the five  *)
(* candidates for the headline of a project, and the time bombs.           *)
(*                                                                         *)
(* The code computes with floats.  Here points are counted in hundredths   *)
(* and weights in percent, so every sum is exact; a half is rounded up as  *)
(* math.Round does.                                                        *)
(*                                                                         *)
(* A finding v is a record: sev, reach (Empty when no call graph was       *)
(* made), kev, epss (tenths, 0 for none), noSev (the severity lookup       *)
(* failed or no source has one), fixAge and age (days, None when not       *)
(* known), cve.                                                            *)
(* A dependency d is a record: direct, depth, testOnly and inBuild (Yes,   *)
(* No, or neither), vulns (a set of findings), maint and maintainer and    *)
(* resilience (records), typo (confidence in tenths), aigen, replace,      *)
(* pseudo, version, trusted.                                               *)
(***************************************************************************)
EXTENDS Integers, FiniteSets, FiniteSetsExt

None == -1

\* The empty string of the code: nothing was said.
Empty == ""

\* The three states of IsTestOnly and InBuild (pointers to a bool).
Yes == "yes"
No == "no"

Larger(x, y) == IF x > y THEN x ELSE y

-----------------------------------------------------------------------------
(* Tiers. *)

\* tierRank; 0 is Empty, a finding that has dropped out.
Tiers == <<"LOW", "MEDIUM", "HIGH", "CRITICAL">>
TierRank(t) == IF t = Empty THEN 0 ELSE CHOOSE i \in 1..4 : Tiers[i] = t

\* A tier n notches down (at Empty it stays), or one notch up.
Downgrade(t, n) == IF TierRank(t) <= n THEN Empty ELSE Tiers[TierRank(t) - n]
Promote(t) == IF t \in {Empty, "CRITICAL"} THEN t ELSE Tiers[TierRank(t) + 1]

EffectiveTier(v) == IF v.sev = "UNKNOWN" THEN "MEDIUM" ELSE v.sev

\* Empty reachability is not confirmed.
ConfirmedReachable(v) == v.reach = "called"

\* The tier before any downgrade: unknown but called counts as high.
ScoredSeverity(v) ==
  IF v.sev = "UNKNOWN" /\ ConfirmedReachable(v) THEN "HIGH" ELSE EffectiveTier(v)

\* How many notches the call graph takes off, and by how much it weighs.
ReachNotches(r) == CASE r = "imported" -> 1 [] r = "required" -> 2 [] OTHER -> 0
ReachTenths(r) == CASE r = "imported" -> 7 [] r = "required" -> 3 [] OTHER -> 10

\* EPSS promotes, a listing as exploited decides; neither brings a dropped finding back.
EPSSPromotes == 5
ThreatTier(t, v) ==
  IF t = Empty THEN Empty
  ELSE IF v.kev THEN "CRITICAL"
  ELSE IF v.epss >= EPSSPromotes THEN Promote(t) ELSE t

\* Mutant: a module that was not classified is discounted.
TestOnlyUnlessDenied(d) == d.testOnly # No
TestOnlyConfirmed(d) == d.testOnly = Yes
OutsideBuildConfirmed(d) == d.inBuild = No

FinalTier(d, v) ==
  LET reached == Downgrade(ScoredSeverity(v), ReachNotches(v.reach))
  IN  ThreatTier(IF TestOnlyConfirmed(d) THEN Downgrade(reached, 1) ELSE reached, v)

-----------------------------------------------------------------------------
(* The risk score of one dependency. *)

SeverityWeight(s) ==
  CASE s = "CRITICAL" -> 100 [] s = "HIGH" -> 80 [] s = "MEDIUM" -> 50
    [] s = "LOW" -> 25 [] OTHER -> 40

VulnWeight(v) == SeverityWeight(v.sev) * ReachTenths(v.reach) * 10
HighOrAboveWeight == SeverityWeight("HIGH") * ReachTenths("imported") * 10

\* The worst finding, five for each further high one, up to 15 for the likeliest.
VulnScore(vs) ==
  IF vs = {} THEN 0
  ELSE LET high == Cardinality({v \in vs : VulnWeight(v) >= HighOrAboveWeight})
           epss == Max({v.epss : v \in vs})
       IN  Min({10000, Max({VulnWeight(v) : v \in vs})
                         + 500 * Larger(high - 1, 0) + 150 * epss})

\* A low finding whose fix is old, or that is old and has none.
FixAgeFloor(v) ==
  IF v.sev # "LOW" THEN 0
  ELSE IF v.fixAge # None
       THEN CASE v.fixAge >= 365 -> 26 [] v.fixAge >= 180 -> 20 [] OTHER -> 0
       ELSE IF v.age # None /\ v.age >= 365 THEN 20 ELSE 0
LowFixAgeFloor(vs) == Max({0} \union {FixAgeFloor(v) : v \in vs})

\* The least score a dependency with findings may have, and the least level.
SeverityFloor(vs) ==
  LET linked == {v \in vs : v.reach # "required"}
      has(s) == \E v \in linked : v.sev = s
      blind(called) == \E v \in linked :
        v.sev = "UNKNOWN" /\ v.noSev /\ (ConfirmedReachable(v) <=> called)
      floor(f, l) == [floor |-> f, level |-> l]
  IN  CASE \E v \in vs : v.kev -> floor(76, 3)
        [] OTHER ->
      CASE has("CRITICAL") -> floor(51, 3)
        [] OTHER ->
      CASE has("HIGH") -> floor(51, 2)
        [] OTHER ->
      CASE has("MEDIUM") -> floor(26, 1)
        [] OTHER ->
      CASE blind(TRUE) -> floor(51, 2)
        [] OTHER ->
      CASE blind(FALSE) -> floor(26, 1)
        [] OTHER -> floor(LowFixAgeFloor(vs), 0)

\* What is known of a module's upkeep; the maintainer scan's archived flag is added to it.
Archived(d) == (d.maint.known /\ d.maint.archived) \/ d.maintainer.archived
MaintKnown(d) == d.maint.known \/ d.maintainer.archived
\* The newer of the last release and the last commit, when there is one.
MonthsInactive(d) ==
  IF ~d.maint.known THEN 0
  ELSE IF d.maint.activity = None THEN d.maint.release
       ELSE Min({d.maint.release, d.maint.activity})

MaintenanceScore(d) ==
  IF ~MaintKnown(d) THEN 3000
  ELSE IF Archived(d) \/ (d.maint.known /\ d.maint.deprecated) THEN 10000
  ELSE CASE MonthsInactive(d) < 6 -> 0 [] MonthsInactive(d) < 12 -> 2500
         [] MonthsInactive(d) < 24 -> 6000 [] OTHER -> 9000

DepthScore(d) == 2000 * Min({d.depth, 2})

MaintainerRiskScore(d) ==
  LET m == d.maintainer
  IN  CASE d.trusted -> 0
        [] ~d.trusted /\ ~m.asked -> 3000
        [] ~d.trusted /\ m.asked /\ ~m.available -> 0
        [] ~d.trusted /\ m.asked /\ m.available ->
             CASE m.bus = 0 -> 3000
               [] m.bus = 1 -> IF m.verified THEN 2500 ELSE 5000
               [] OTHER -> 0

MaturityScore(d) ==
  CASE d.trusted -> 0 [] OTHER ->
  CASE d.version = Empty -> 5000 [] d.version = "v0" -> 3000 [] OTHER -> 0

TyposquatBonus(d) == d.typo * 200
AIGenBonus(d) == d.aigen * 15
ResilienceBonus(d) ==
  IF d.resilience.asked /\ d.resilience.available /\ d.resilience.score < 30
  THEN (30 - d.resilience.score) * 20 ELSE 0
IntegrityBonus(d) ==
  CASE d.replace = "HIGH" -> 2000 [] d.replace = "MEDIUM" -> 800 [] OTHER -> 0
PseudoVersionBonus(d) ==
  CASE d.pseudo = "MEDIUM" -> 400 [] d.pseudo = "LOW" -> 200 [] OTHER -> 0

\* What could not be measured is left out of the sum and of the weights, in percent.
MaintainerExcluded(d) == d.maintainer.asked /\ ~d.maintainer.available
MeasuredWeight(d, scanned) ==
  15 + 10 + (IF scanned THEN 40 ELSE 0) + (IF MaintKnown(d) THEN 25 ELSE 0)
    + (IF MaintainerExcluded(d) THEN 0 ELSE 10)
MeasuredScore(d, scanned) ==
  15 * DepthScore(d) + 10 * MaturityScore(d)
    + (IF scanned THEN 40 * VulnScore(d.vulns) ELSE 0)
    + (IF MaintKnown(d) THEN 25 * MaintenanceScore(d) ELSE 0)
    + (IF MaintainerExcluded(d) THEN 0 ELSE 10 * MaintainerRiskScore(d))

WeightedScore(d, scanned) ==
  LET weight == MeasuredWeight(d, scanned)
      bonus == TyposquatBonus(d) + AIGenBonus(d) + ResilienceBonus(d)
                 + IntegrityBonus(d) + PseudoVersionBonus(d)
  IN  (MeasuredScore(d, scanned) + bonus * weight + 50 * weight) \div (100 * weight)

LevelFromScore(s) ==
  CASE s >= 76 -> 3 [] s >= 51 /\ s < 76 -> 2 [] s >= 26 /\ s < 51 -> 1 [] OTHER -> 0

RiskScore(d, scanned) ==
  LET floor == IF d.vulns = {} THEN 0 ELSE SeverityFloor(d.vulns).floor
  IN  Min({100, Larger(floor, WeightedScore(d, scanned))})

RiskLevel(d, scanned) ==
  LET numeric == LevelFromScore(RiskScore(d, scanned))
  IN  IF d.vulns = {} THEN numeric ELSE Larger(numeric, SeverityFloor(d.vulns).level)

-----------------------------------------------------------------------------
(* The headline: deps is a function from modules to dependencies.          *)

\* Every finding of the graph that still has a tier, as <<module, finding>>.
Counted(deps, t) ==
  {p \in UNION {{<<m, v>> : v \in deps[m].vulns} : m \in DOMAIN deps} :
     FinalTier(deps[p[1]], p[2]) = t}

\* Mutant: the medium findings are looked at before the high ones.
SeverityAdjustedSwapped(deps) ==
  LET n(t) == Cardinality(Counted(deps, t))
  IN  CASE n("CRITICAL") > 0 -> 95
        [] n("CRITICAL") = 0 /\ n("MEDIUM") > 0 -> 40
        [] n("CRITICAL") = 0 /\ n("MEDIUM") = 0 /\ n("HIGH") > 0 -> 70
        [] OTHER -> 0
SeverityAdjusted(deps) ==
  LET n(t) == Cardinality(Counted(deps, t))
  IN  CASE n("CRITICAL") > 0 -> 95
        [] OTHER ->
      CASE n("HIGH") >= 3 -> 85
        [] n("HIGH") \in 1..2 -> 70
        [] n("HIGH") = 0 /\ n("MEDIUM") > 0 -> 40
        [] n("HIGH") = 0 /\ n("MEDIUM") = 0 /\ n("LOW") > 0 -> 10
        [] OTHER -> 0

\* What can affect what is built: not confirmed test-only, not confirmed outside the build.
Built(deps) ==
  {m \in DOMAIN deps : ~TestOnlyConfirmed(deps[m]) /\ ~OutsideBuildConfirmed(deps[m])}

\* Nearest rank: the score that at least 95 of 100 built modules do not exceed.
P95(deps, scanned) ==
  LET scores == {<<m, RiskScore(deps[m], scanned)>> : m \in Built(deps)}
      rank == (95 * Cardinality(scores) + 99) \div 100
  IN  IF scores = {} THEN 0
      ELSE Min({p[2] : p \in {p \in scores :
                  Cardinality({q \in scores : q[2] <= p[2]}) >= rank}})

DirectFloor(deps, ms) == Max({0} \union {IF deps[m].direct THEN 60 ELSE 51 : m \in ms})

ArchivedFloor(deps) == DirectFloor(deps, {m \in Built(deps) : Archived(deps[m])})

FloorOf(v) ==
  LET t == EffectiveTier(v)
  IN  CASE v.reach \in {Empty, "called"} ->
             CASE t = "CRITICAL" -> 60 [] t = "HIGH" -> 55 [] OTHER -> 0
        [] v.reach = "imported" -> IF t \in {"CRITICAL", "HIGH"} THEN 40 ELSE 0
        [] OTHER -> IF t = "CRITICAL" THEN 40 ELSE 0
CVEFloor(deps) ==
  Max({0} \union UNION {{FloorOf(v) : v \in deps[m].vulns} :
                          m \in {m \in DOMAIN deps : ~TestOnlyConfirmed(deps[m])}})

IntegrityFloor(deps, mismatch) ==
  IF mismatch THEN 76
  ELSE DirectFloor(deps, {m \in DOMAIN deps : /\ ~TestOnlyConfirmed(deps[m])
                                              /\ deps[m].replace = "HIGH"})

Candidates(deps, scanned, mismatch) ==
  <<[name |-> "severity_adjusted", score |-> SeverityAdjusted(deps)],
    [name |-> "p95_dep_risk", score |-> P95(deps, scanned)],
    [name |-> "archived_floor", score |-> ArchivedFloor(deps)],
    [name |-> "cve_floor", score |-> CVEFloor(deps)],
    [name |-> "integrity_floor", score |-> IntegrityFloor(deps, mismatch)]>>

\* The highest; the first of equals.
SelectHeadline(cs) ==
  cs[Min({i \in DOMAIN cs : \A j \in DOMAIN cs : cs[j].score <= cs[i].score})]

\* The mean over the whole graph, weighted by the score itself; never low with a linked finding.
MeanRisk(deps, scanned) ==
  LET scores == {<<m, RiskScore(deps[m], scanned)>> : m \in DOMAIN deps}
      weights == MapThenSumSet(LAMBDA p : 100 + p[2], scores)
      sum == MapThenSumSet(LAMBDA p : p[2] * (100 + p[2]), scores)
      mean == (2 * sum + weights) \div (2 * weights)
      linked == \E m \in DOMAIN deps : \E v \in deps[m].vulns : v.reach # "required"
  IN  IF DOMAIN deps = {} THEN 0 ELSE IF linked THEN Larger(mean, 26) ELSE mean

Overall(deps, scanned, mismatch) == SelectHeadline(Candidates(deps, scanned, mismatch)).score
OverallLevel(deps, scanned, mismatch) ==
  IF ~scanned /\ DOMAIN deps # {} THEN "unknown"
  ELSE LevelFromScore(Overall(deps, scanned, mismatch))

-----------------------------------------------------------------------------
(* What the report says beside the numbers. *)

\* A finding that was downgraded although it is, or will likely be, exploited.
ManualReview == 9
\* Mutant: only findings of test-only modules are reviewed.
ReviewWarningsTestOnly(deps) ==
  {p \in UNION {{<<m, v>> : v \in deps[m].vulns} : m \in DOMAIN deps} :
     TestOnlyConfirmed(deps[p[1]]) /\ p[2].kev}

ReviewWarnings(deps) ==
  {p \in UNION {{<<m, v>> : v \in deps[m].vulns} : m \in DOMAIN deps} :
     LET d == deps[p[1]]
         v == p[2]
     IN  /\ TestOnlyConfirmed(d) \/ ReachNotches(v.reach) > 0
         /\ v.kev \/ v.epss >= ManualReview}

\* One entry for a CVE, whatever modules and identifiers it came under (whether it is listed
\* as exploited is a fact about the CVE); the first module in path order is named with it.
TimeBombs(deps) ==
  LET bomb(k, what) == [kind |-> k, of |-> what]
      ticking(v) == v.kev \/ EffectiveTier(v) = "CRITICAL"
  IN  {bomb("archived", m) : m \in {m \in Built(deps) : Archived(deps[m])}}
        \union UNION {{bomb(IF v.kev THEN "kev" ELSE "critical_cve", v.cve) :
                         v \in {v \in deps[m].vulns : ticking(v)}} : m \in Built(deps)}
=============================================================================
