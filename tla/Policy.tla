-------------------------------- MODULE Policy --------------------------------
(***************************************************************************)
(* pkg/policy: the rules of a policy over the scored dependencies, the     *)
(* grade, the CI report and the integrity report.                          *)
(*                                                                         *)
(* A policy p is a record of the fields of Policy; a limit that is not set *)
(* is None, a list that is not set is {}.  What is evaluated, in, is a     *)
(* record: scored (FALSE when only a grade was passed), deps as in Scorer, *)
(* grade (letter Empty when it is Pending or was not made, with the number *)
(* of archived flags it was given without), typosquats (modules), ci (None *)
(* when not audited), redirects (modules of findings of that category) and *)
(* gosum.  A module's path stands for itself and its subdirectories, so an *)
(* entry of a list matches the modules under(entry) gives.                 *)
(***************************************************************************)
EXTENDS Scorer

Violation(rule, m, sev) == [rule |-> rule, module |-> m, severity |-> sev]
Errors(rule, ms) == {Violation(rule, m, "error") : m \in ms}
Project == "project"

Letters == <<"A", "B", "C", "D", "F">>
WorseLetter(x, y) ==
  LET at(l) == CHOOSE i \in 1..5 : Letters[i] = l IN at(x) > at(y)
IsLetter(l) == \E i \in 1..5 : Letters[i] = l

\* evalGrade: no letter fails unless it is allowed; the letter itself, and a letter at the
\* limit that rests on unread archived flags, fail; further from the limit they are warned of.
GradeViolations(p, g) ==
  LET max(sev) == {Violation("max_grade", Project, sev)}
  IN  CASE p.maxGrade = Empty -> {}
        [] p.maxGrade # Empty /\ ~IsLetter(p.maxGrade) -> max("error")
        [] OTHER ->
      CASE g.letter = Empty -> max(IF p.allowPending THEN "warning" ELSE "error")
        [] g.letter # Empty /\ WorseLetter(g.letter, p.maxGrade) -> max("error")
        [] OTHER ->
      IF g.unread = 0 THEN {}
      ELSE max(IF g.letter = p.maxGrade THEN "error" ELSE "warning")

\* The rules that look at one dependency d, m its path.
Breaks(p, in, m) ==
  LET d == in.deps[m]
      seen == MaintKnown(d) /\ ~OutsideBuildConfirmed(d)
  IN  {r \in {"no_known_vulns", "no_critical_vulns", "no_single_maintainer",
              "forbid_pseudo_versions", "no_unmaintained", "no_archived", "no_deprecated",
              "no_typosquatting", "blocked_module", "allowed_modules"} :
         CASE r = "no_known_vulns" -> p.noKnownVulns /\ d.vulns # {}
           [] r = "no_critical_vulns" ->
                p.noCriticalVulns /\ \E v \in d.vulns : v.sev \in {"CRITICAL", "HIGH"}
           [] r = "no_single_maintainer" ->
                /\ p.noSingleMaintainer
                /\ d.direct /\ d.maintainer.asked
                /\ d.maintainer.bus <= 1 /\ d.maintainer.contributors > 0
           [] r = "forbid_pseudo_versions" ->
                /\ p.forbidPseudoVersions
                /\ d.pseudo # "none"
                /\ ~TestOnlyConfirmed(d) /\ ~OutsideBuildConfirmed(d)
           [] r = "no_unmaintained" ->
                /\ p.noUnmaintainedMonths # None
                /\ seen
                /\ MonthsInactive(d) > p.noUnmaintainedMonths
           [] r = "no_archived" -> p.noArchived /\ seen /\ Archived(d)
           [] r = "no_deprecated" ->
                p.noDeprecated /\ seen /\ d.maint.known /\ d.maint.deprecated
           [] r = "no_typosquatting" -> p.noTyposquatting /\ m \in in.typosquats
           [] r = "blocked_module" -> m \in p.blocked
           [] OTHER -> p.allowed # {} /\ d.direct /\ m \notin p.allowed}

\* A checksum that was not verified is not one that does not match.
IntegrityViolations(p, in) ==
  (IF p.forbidReplaceRedirect THEN Errors("forbid_replace_redirect", in.redirects) ELSE {})
    \union (IF p.requireGoSum /\ in.gosum = "false"
            THEN Errors("require_gosum_verified", {Project}) ELSE {})

CIViolations(p, in) ==
  IF p.maxCI # None /\ in.ci # None /\ in.ci > p.maxCI
  THEN Errors("max_ci_score", {Project}) ELSE {}

\* The rules of the dependencies need scores; the grade alone may be evaluated.
Evaluate(p, in) ==
  GradeViolations(p, in.grade)
    \union (IF in.scored
            THEN (UNION {Errors(r, {m \in DOMAIN in.deps : r \in Breaks(p, in, m)}) :
                           r \in UNION {Breaks(p, in, m) : m \in DOMAIN in.deps}})
                   \union CIViolations(p, in) \union IntegrityViolations(p, in)
            ELSE {})

Pass(p, in) == \A v \in Evaluate(p, in) : v.severity # "error"

NoRules == [maxGrade |-> Empty, allowPending |-> FALSE, noKnownVulns |-> FALSE,
            noCriticalVulns |-> FALSE, noSingleMaintainer |-> FALSE,
            noUnmaintainedMonths |-> None, noArchived |-> FALSE, noDeprecated |-> FALSE,
            noTyposquatting |-> FALSE, allowed |-> {}, blocked |-> {}, maxCI |-> None,
            forbidReplaceRedirect |-> FALSE, requireGoSum |-> FALSE,
            forbidPseudoVersions |-> FALSE]

DefaultStrictPolicy ==
  [NoRules EXCEPT !.maxGrade = "B", !.noCriticalVulns = TRUE, !.noSingleMaintainer = TRUE,
                  !.noUnmaintainedMonths = 24, !.noArchived = TRUE, !.noTyposquatting = TRUE,
                  !.maxCI = 50, !.forbidReplaceRedirect = TRUE, !.requireGoSum = TRUE,
                  !.forbidPseudoVersions = TRUE]
DefaultModeratePolicy ==
  [NoRules EXCEPT !.maxGrade = "C", !.noCriticalVulns = TRUE, !.noArchived = TRUE]
=============================================================================
