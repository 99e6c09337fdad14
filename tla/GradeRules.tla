----------------------------- MODULE GradeRules -----------------------------
(***************************************************************************)
(* The grading rules, version 2 (pkg/grade): from the rows of a scan to a  *)
(* letter, or to Pending when a check that did not run could change it.    *)
(*                                                                         *)
(* A finding is a record                                                   *)
(*   vuln      the vulnerability it is about: findings that share an       *)
(*             identifier, directly or through others, have the same one   *)
(*   id        its own identifier, a number: the lowest one represents a   *)
(*             group (Go advisories first, then alphabetical)              *)
(*   severity  "LOW" .. "CRITICAL", or "NONE" (unknown or not published)   *)
(*   failed    SeverityLookupFailed                                        *)
(*   reach     "called", "imported", "required", or "none" (undetermined)  *)
(*   exploited on the known-exploited catalog                              *)
(* a row is a record of flags (self, testOnly and notBuilt when confirmed, *)
(* archived for archived, deprecated or retracted, missing, unread) with a *)
(* set of findings, and an input is a set of rows with the scan's checks.  *)
(* Letters are their bands: 1 is A, 5 is F, 0 is no letter.  Texts, the    *)
(* deciding row and the notes are left out.                                *)
(***************************************************************************)
EXTENDS Integers, FiniteSets

Severities == {"LOW", "MEDIUM", "HIGH", "CRITICAL"}

CalledScore == [s \in Severities |->
  CASE s = "CRITICAL" -> 90 [] s = "HIGH" -> 70 [] s = "MEDIUM" -> 45
    [] s = "LOW" -> 15]

ImportedScore == [s \in Severities |->
  CASE s = "CRITICAL" -> 50 [] s = "HIGH" -> 49 [] s = "MEDIUM" -> 32
    [] s = "LOW" -> 11]

ImportedCap == 50
FurtherAdvisoryAdd == 5
ExploitedFloor == 76
TestOnlyCap == 50
UpkeepSelf == 35
\* Mutant: a dependency's archived score as high as the module's own.
UpkeepDependencyAsSelf == 35
UpkeepDependency == 20
UpkeepMinor == 10
TreeFScore == 76
TreeDScore == 51
TreeCalledFindings == 3
TreeImportedOrCalled == 5

Band(score) ==
  CASE score <= 10 -> 1
    [] score > 10 /\ score <= 25 -> 2
    [] score > 25 /\ score <= 50 -> 3
    [] score > 50 /\ score <= 75 -> 4
    [] score > 75 -> 5

NoLetter == 0

Larger(a, b) == IF a >= b THEN a ELSE b
Smaller(a, b) == IF a <= b THEN a ELSE b
Highest(S) == CHOOSE n \in S : \A k \in S : k <= n

-----------------------------------------------------------------------------
(* One finding.                                                            *)
SeverityOf(f) == IF f.severity = "NONE" THEN "MEDIUM" ELSE f.severity

HighOrCritical(f) == SeverityOf(f) \in {"HIGH", "CRITICAL"}

(* The module's own advisories count as called, and so does a finding whose*)
(* reachability is not determined; a dependency that is not compiled in is *)
(* graph-only.                                                             *)
TierOf(f, r) ==
  CASE r.self -> "called"
    [] ~r.self /\ (r.notBuilt \/ f.reach = "required") -> "graph"
    [] ~r.self /\ ~r.notBuilt /\ f.reach = "imported" -> "imported"
    [] OTHER -> "called"

InTier(r, tier) == {f \in r.findings : TierOf(f, r) = tier}

-----------------------------------------------------------------------------
(* One finding per vulnerability.  Every field takes the worst value of the*)
(* group, and a failed severity lookup matters only while no member has a  *)
(* severity.                                                               *)
SeverityRank == [s \in Severities \cup {"NONE"} |->
  CASE s = "CRITICAL" -> 4 [] s = "HIGH" -> 3 [] s = "MEDIUM" -> 2
    [] s = "LOW" -> 1 [] s = "NONE" -> 0]

ReachRank == [t \in {"called", "none", "imported", "required"} |->
  CASE t = "called" -> 4 [] t = "none" -> 3 [] t = "imported" -> 2
    [] t = "required" -> 1]

MergeGroup(G) ==
  LET worst == CHOOSE f \in G :
                 \A g \in G : SeverityRank[g.severity] <= SeverityRank[f.severity]
      reached == CHOOSE f \in G :
                 \A g \in G : ReachRank[g.reach] <= ReachRank[f.reach]
  IN [vuln |-> worst.vuln,
      id |-> CHOOSE i \in {f.id : f \in G} : \A f \in G : i <= f.id,
      severity |-> worst.severity,
      failed |-> worst.severity = "NONE" /\ \E f \in G : f.failed,
      reach |-> reached.reach,
      exploited |-> \E f \in G : f.exploited]

\* Mutant: nothing is merged.
MergeNothing(F) == F

MergeAdvisories(F) ==
  {MergeGroup({f \in F : f.vuln = v}) : v \in {f.vuln : f \in F}}

MergedRow(r) == [r EXCEPT !.findings = MergeAdvisories(@)]

-----------------------------------------------------------------------------
(* One row.                                                                *)
\* Mutant: an imported finding hides the called ones.
VulnScoreImported(r) ==
  LET called == InTier(r, "called")
      imported == InTier(r, "imported")
      score(F, table) == Highest({0} \cup {table[SeverityOf(f)] : f \in F})
  IN IF imported # {} THEN score(imported, ImportedScore)
     ELSE score(called, CalledScore)

VulnScore(r) ==
  LET called == InTier(r, "called")
      further == Cardinality({f \in called : HighOrCritical(f)})
      cs == Highest({0} \cup {CalledScore[SeverityOf(f)] : f \in called})
              + (IF further > 1 THEN (further - 1) * FurtherAdvisoryAdd ELSE 0)
      is == Highest({0} \cup {Smaller(ImportedScore[SeverityOf(f)], ImportedCap) :
                                f \in InTier(r, "imported")})
      worst == Smaller(Larger(cs, is), 100)
      full == IF \E f \in called : f.exploited
              THEN Larger(worst, ExploitedFloor) ELSE worst
  IN IF r.testOnly THEN Smaller(full \div 2, TestOnlyCap) ELSE full

\* The upkeep score an archived row has, and the one a missing row could have.
UpkeepIfArchived(r) ==
  IF r.self THEN UpkeepSelf
  ELSE IF r.testOnly \/ r.notBuilt THEN UpkeepMinor ELSE UpkeepDependency

UpkeepScore(r) == IF r.archived THEN UpkeepIfArchived(r) ELSE 0

RowScore(r) == Larger(VulnScore(r), UpkeepScore(r))

(* The row's own letter: none while what is missing could make it worse.   *)
RowLetter(r) ==
  IF /\ r.missing /\ ~r.archived
     /\ Band(UpkeepIfArchived(r)) > Band(RowScore(r))
  THEN NoLetter ELSE Band(RowScore(r))

-----------------------------------------------------------------------------
\* Mutant: without the count of called findings across the tree.
TreeScoreOfOne(in) ==
  LET counted == {r \in in.rows : ~r.testOnly}
      fails ==
        \/ in.mismatch
        \/ \E r \in counted : \E f \in InTier(r, "called") :
             f.exploited \/ SeverityOf(f) = "CRITICAL"
  IN IF fails THEN TreeFScore ELSE 0

(* The whole-tree rules, over the rows that are not confirmed test-only.   *)
TreeScore(in) ==
  LET counted == {r \in in.rows : ~r.testOnly}
      severe(tiers) ==
        UNION {{<<r.module, f.id>> : f \in
                  {g \in r.findings : HighOrCritical(g) /\ TierOf(g, r) \in tiers}}
               : r \in counted}
      fails ==
        \/ in.mismatch
        \/ \E r \in counted : \E f \in InTier(r, "called") :
             f.exploited \/ SeverityOf(f) = "CRITICAL"
        \/ Cardinality(severe({"called"})) >= TreeCalledFindings
  IN IF fails THEN TreeFScore
     ELSE IF Cardinality(severe({"called", "imported"})) >= TreeImportedOrCalled
          THEN TreeDScore ELSE 0

Score(in) == Highest({TreeScore(in)} \cup {RowScore(r) : r \in in.rows})

-----------------------------------------------------------------------------
(* Pending: a check that did not run and could change the letter.  The     *)
(* checks that block, and the one the result names.                        *)
CouldBeArchived(r, score) ==
  r.missing /\ Band(UpkeepIfArchived(r)) > Band(score)

PendingOrder ==
  <<"vulnerability_scan", "scan_incomplete", "called_pass", "checksum",
    "known_exploited", "module_status", "module_advisories",
    "dependency_maintenance">>

Blocks(check, in, score) ==
  CASE check = "vulnerability_scan" -> in.scanFailed
    [] check = "scan_incomplete" -> in.interrupted
    [] check = "called_pass" -> in.calledPassStale
    [] check = "checksum" ->
         in.checksumUnverified /\ Band(TreeFScore) > Band(score)
    [] check = "known_exploited" ->
         in.kevUnchecked > 0 /\ Band(TreeFScore) > Band(score)
    [] check = "module_status" ->
         \E r \in in.rows : r.self /\ CouldBeArchived(r, score)
    [] check = "module_advisories" -> in.selfAdvisoriesFailed
    [] check = "dependency_maintenance" ->
         \E r \in in.rows : ~r.self /\ CouldBeArchived(r, score)

PendingFor(in, score) ==
  LET blocking == {i \in DOMAIN PendingOrder : Blocks(PendingOrder[i], in, score)}
  IN IF blocking = {} THEN "none"
     ELSE PendingOrder[CHOOSE i \in blocking : \A j \in blocking : i <= j]

-----------------------------------------------------------------------------
(* The dependencies whose archived flag was not read and could change the  *)
(* letter.                                                                 *)
ArchivedUnread(in, score) ==
  {r.module : r \in
     {q \in in.rows : /\ ~q.self /\ q.unread
                      /\ Band(RowScore([q EXCEPT !.archived = TRUE])) > Band(score)}}

(* The grade without the estimate checks.                                  *)
GradeOnce(in) ==
  LET score == Score(in)
      pending == PendingFor(in, score)
  IN [letter |-> IF pending = "none" THEN Band(score) ELSE NoLetter,
      pending |-> pending,
      estimated |-> FALSE,
      unread |-> IF pending = "none" THEN ArchivedUnread(in, score) ELSE {}]

(* The input with the findings of F given one severity.                    *)
WithSeverity(in, sev, F) ==
  [in EXCEPT !.rows =
     {[r EXCEPT !.findings =
         {IF f \in F THEN [f EXCEPT !.severity = sev] ELSE f : f \in @}]
      : r \in @}]

IsEstimated(f) == f.severity = "NONE"

(* Whether the letter is another one when the severity of every finding of *)
(* F is low, or critical.                                                  *)
Differs(in, letter, F) ==
  \E sev \in {"LOW", "CRITICAL"} :
    GradeOnce(WithSeverity(in, sev, F)).letter # letter

(* The grade.                                                              *)
Grade(raw) ==
  LET in == [raw EXCEPT !.rows = {MergedRow(r) : r \in @}]
      res == GradeOnce(in)
      all == UNION {r.findings : r \in in.rows}
      failed == {f \in all : f.failed}
      estimated == {f \in all : IsEstimated(f)}
  IN IF res.pending # "none" THEN res
     ELSE IF failed # {} /\ Differs(in, res.letter, failed)
          THEN [res EXCEPT !.letter = NoLetter, !.pending = "severity_lookup"]
          ELSE [res EXCEPT !.estimated =
                  estimated # {} /\ Differs(in, res.letter, estimated)]

-----------------------------------------------------------------------------
(* CalledPassCanChangeLetter: whether the called pass, which can only turn *)
(* imported findings into called ones, could change the letter.  It reads  *)
(* the imported findings of each module alone, as direct dependencies whose*)
(* test-only status may go either way.                                     *)
OnlyImported(r, reach, testOnly) ==
  [r EXCEPT !.self = FALSE, !.testOnly = testOnly, !.notBuilt = FALSE,
            !.findings = {[f EXCEPT !.reach = reach] :
                            f \in {g \in @ : g.reach = "imported"}}]

\* Mutant: the rows' own scores are not compared.
CalledPassTreeOnly(rows) ==
  LET imported == {f \in UNION {r.findings : r \in rows} : f.reach = "imported"}
      treeBand(reach) ==
        Band(TreeScore([rows |-> {OnlyImported(r, reach, FALSE) : r \in rows},
                        mismatch |-> FALSE]))
  IN \/ \E f \in imported : f.exploited \/ IsEstimated(f)
     \/ treeBand("imported") # treeBand("called")

CalledPassCanChangeLetter(rows) ==
  LET imported == {f \in UNION {r.findings : r \in rows} : f.reach = "imported"}
      as(reach) == {OnlyImported(r, reach, FALSE) : r \in rows}
      treeBand(R) == Band(TreeScore([rows |-> R, mismatch |-> FALSE]))
  IN \/ \E f \in imported : f.exploited \/ IsEstimated(f)
     \/ \E r \in rows, t \in BOOLEAN :
          Band(VulnScore(OnlyImported(r, "imported", t)))
            # Band(VulnScore(OnlyImported(r, "called", t)))
     \/ treeBand(as("imported")) # treeBand(as("called"))
=============================================================================
