-------------------------------- MODULE Judgement --------------------------------
(***************************************************************************)
(* The resolved graph, what is found out about its modules, and what the   *)
(* scorer and the policies make of both.  After Resolve, findings are      *)
(* published one at a time, are listed as exploited, and modules are       *)
(* archived: what a report says of the same project on later days.         *)
(***************************************************************************)
EXTENDS Resolver

CONSTANTS Findings,         \* the findings there may be, as Scorer has them
          Followed,         \* the projects that are followed after Resolve
          MaxNews           \* how many things may be found out

VARIABLES vulns,            \* [Modules -> SUBSET findings]
          archived,         \* modules that are archived
          news
vars == <<resolverVars, vulns, archived, news>>

P == INSTANCE Policy

\* What the scanner may say of a vulnerability.
Findable == [sev : {"LOW", "MEDIUM", "HIGH", "CRITICAL", "UNKNOWN"},
             reach : {P!Empty, "called", "imported", "required"}, kev : BOOLEAN, epss : 0..10,
             noSev : BOOLEAN, fixAge : Int, age : Int, cve : STRING]
ASSUME FindingsAssumption == Findings \subseteq Findable

Policies == {P!DefaultStrictPolicy, P!DefaultModeratePolicy}

\* A dependency as it is scored: what the resolver knows, and what was found out.
Scored(d, vs, arch) ==
  [direct |-> d.direct, depth |-> d.depth, testOnly |-> d.testOnly, inBuild |-> d.inBuild,
   vulns |-> vs,
   maint |-> [known |-> TRUE, archived |-> arch, deprecated |-> FALSE,
              release |-> 1, activity |-> P!None],
   maintainer |-> [asked |-> FALSE, available |-> FALSE, reason |-> P!Empty, bus |-> 0,
                   contributors |-> 0, verified |-> FALSE, archived |-> FALSE],
   resilience |-> [asked |-> FALSE, available |-> FALSE, score |-> 0],
   typo |-> 0, aigen |-> 0, replace |-> P!Empty, pseudo |-> "none", version |-> "v1",
   trusted |-> FALSE]

Deps(vs, arch) ==
  [m \in DOMAIN graph.deps |-> Scored(graph.deps[m], vs[m], m \in arch)]

\* The same with the verdicts that a complete listing of this project would give.
TrueDeps(vs, arch) ==
  LET prod == Compiled(project, FALSE)
      built == prod \union Compiled(project, TRUE)
  IN  [m \in DOMAIN graph.deps |->
         Scored([graph.deps[m] EXCEPT
                   !.testOnly = CASE m \in prod -> "no" [] m \in built \ prod -> "yes"
                                  [] OTHER -> "unknown",
                   !.inBuild = IF m \in built THEN "yes" ELSE "no"],
                vs[m], m \in arch)]

Evaluated(deps) ==
  [scored |-> TRUE, deps |-> deps, grade |-> [letter |-> "B", unread |-> 0],
   typosquats |-> {}, ci |-> P!None, redirects |-> {}, gosum |-> "true"]

Init ==
  /\ ResolverInit
  /\ vulns = [m \in Modules |-> {}]
  /\ archived = {}
  /\ news = 0

Resolving == ResolverNext /\ UNCHANGED <<vulns, archived, news>>

Publish(m, v) ==
  /\ v.cve \notin {w.cve : w \in vulns[m]}
  /\ vulns' = [vulns EXCEPT ![m] = @ \union {v}]
  /\ UNCHANGED archived

\* The catalog lists the vulnerability, or its probability of being exploited goes up.
Exploited(m, v) ==
  /\ v \in vulns[m]
  /\ \E w \in {[v EXCEPT !.kev = TRUE], [v EXCEPT !.epss = P!Larger(@, 9)]} :
       /\ w # v
       /\ vulns' = [vulns EXCEPT ![m] = (@ \ {v}) \union {w}]
  /\ UNCHANGED archived

Archive(m) ==
  /\ m \notin archived
  /\ archived' = archived \union {m}
  /\ UNCHANGED vulns

News ==
  /\ pc = "done"
  /\ project \in Followed
  /\ news < MaxNews
  /\ news' = news + 1
  /\ \E m \in DOMAIN graph.deps :
       \/ \E v \in Findings : Publish(m, v)
       \/ \E v \in vulns[m] : Exploited(m, v)
       \/ Archive(m)
  /\ UNCHANGED resolverVars

Next == Resolving \/ News
Spec == Init /\ [][Next]_vars

-----------------------------------------------------------------------------
(* What a verdict that was not given may cost.                             *)

\* No mistaken or missing verdict makes a module look better: with the verdicts that could be
\* given, every finding counts at least as much as with those of a complete listing, each floor
\* is at least as high, every time bomb is named and every policy at least as strict ("a
\* test-only discount MUST NOT fire on nil", graph.go 39-43; risk.go 1807-1812, 1834-1836).
\* The 95th percentile only in a graph of fewer than 20 modules, where it is the maximum: a
\* module that is wrongly left in a larger one may lower it.
BlindNeverAbsolves ==
  pc = "done" =>
    LET deps == Deps(vulns, archived)
        truth == TrueDeps(vulns, archived)
        given == P!Candidates(deps, TRUE, FALSE)
        real == P!Candidates(truth, TRUE, FALSE)
    IN  /\ \A m \in DOMAIN deps : \A v \in vulns[m] :
             P!TierRank(P!FinalTier(deps[m], v)) >= P!TierRank(P!FinalTier(truth[m], v))
        /\ \A i \in DOMAIN given :
             (given[i].name = "p95_dep_risk" => Cardinality(DOMAIN deps) < 20)
               => given[i].score >= real[i].score
        /\ P!TimeBombs(truth) \subseteq P!TimeBombs(deps)
        /\ \A p \in Policies :
             P!Evaluate(p, Evaluated(truth)) \subseteq P!Evaluate(p, Evaluated(deps))

\* A medium finding sets the floor of a module before a called one of unknown severity is
\* looked at, which would set a higher one (severityFloor).
MediumHidesUnknown(vs, ws) ==
  P!SeverityFloor(ws).floor < P!SeverityFloor(vs).floor
    /\ \E v \in vs : v.sev = "UNKNOWN" /\ v.noSev /\ v.reach = "called"
    /\ \E w \in ws \ vs : w.sev = "MEDIUM"

\* Bad news never makes a module's score, the headline or a policy's verdict better.
NoLower ==
  LET old == Deps(vulns, archived)
      new == Deps(vulns', archived')
      touched == {m \in DOMAIN old : new[m] # old[m]}
      hidden == {m \in touched : MediumHidesUnknown(vulns[m], vulns'[m])}
  IN  /\ \A m \in touched \ hidden :
           /\ P!RiskScore(new[m], TRUE) >= P!RiskScore(old[m], TRUE)
           /\ P!RiskLevel(new[m], TRUE) >= P!RiskLevel(old[m], TRUE)
      /\ hidden = {} => /\ P!Overall(new, TRUE, FALSE) >= P!Overall(old, TRUE, FALSE)
                        /\ P!OverallLevel(new, TRUE, FALSE) >= P!OverallLevel(old, TRUE, FALSE)
                        /\ P!MeanRisk(new, TRUE) >= P!MeanRisk(old, TRUE)
      /\ \A p \in Policies : P!Pass(p, Evaluated(new)) => P!Pass(p, Evaluated(old))
WorseNeverLowers == [][pc = "done" => NoLower]_vars

\* A finding that is listed as exploited counts as critical, or the report asks for a review of
\* it although its tier was lowered: no discount hides it (risk.go, the warnings of ScoreProject).
NothingSuppressedSilently ==
  pc = "done" =>
    LET deps == Deps(vulns, archived)
    IN  \A m \in DOMAIN deps : \A v \in vulns[m] :
          v.kev => \/ P!FinalTier(deps[m], v) = "CRITICAL"
                   \/ <<m, v>> \in P!ReviewWarnings(deps)
=============================================================================
