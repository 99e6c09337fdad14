--------------------------- MODULE GradeKnowledge ---------------------------
(***************************************************************************)
(* What a grade says while some of its checks have not been answered, and  *)
(* what becomes of it as they are: gradeAll of pkg/runner builds the input *)
(* of the rules from what is known, and the same module is graded again,   *)
(* and analysed again, until everything is.                                *)
(*                                                                         *)
(* world is what is true of the module; open is the set of checks that got *)
(* no answer, each hiding a part of the world; report is the grade of what *)
(* is left.  The world does not change: every change of the report is due  *)
(* to a check that finally ran.                                            *)
(***************************************************************************)
EXTENDS GradeRules

CONSTANTS
  Self,      \* the module itself
  Scenes,    \* what may be true of it and its dependencies, and what a first scan may
             \* leave open: a set of [worlds, opens]
  Strict     \* StrictArchivedStatus

VARIABLES world, open, report

knowledgeVars == <<world, open, report>>

Findings(w) == DOMAIN w.moduleOf
Modules(w) == {Self} \cup w.deps

Checks(w) ==
  {<<k, "all">> : k \in {"scan", "mod verify", "catalog", "own advisories",
                         "called pass"}}
  \cup ({"severity", "published"} \X Findings(w))
  \cup ({"notices", "archived flag"} \X Modules(w))

(* deps are the dependencies, and testOnly and notBuilt those that the build *)
(* graph confirmed to be so; moduleOf and vulnOf say whose each advisory is  *)
(* and what it is about (equal for aliases), and cve which carry one.        *)
ASSUME KnowledgeAssumption ==
  /\ Strict \in BOOLEAN
  /\ \A scene \in Scenes : \A w \in scene.worlds :
       /\ Self \notin w.deps /\ IsFiniteSet(w.deps)
       /\ Findings(w) \subseteq Nat /\ IsFiniteSet(Findings(w))
       /\ w.moduleOf \in [Findings(w) -> Modules(w)]
       /\ w.exploited \subseteq w.cve /\ w.cve \subseteq Findings(w)
       /\ w.testOnly \cup w.notBuilt \subseteq w.deps
       /\ w.archived \cup w.deprecated \subseteq Modules(w)
       /\ w.sev \in [Findings(w) -> Severities \cup {"NONE"}]
       /\ w.reach \in [Findings(w) -> {"called", "imported", "required", "none"}]
       /\ scene.opens \subseteq SUBSET Checks(w)

Open(o, kind, subject) == <<kind, subject>> \in o

-----------------------------------------------------------------------------
(* What is known of a finding (FindingFromVuln).  A pass that was skipped  *)
(* leaves a called finding imported.                                       *)
FindingFromVuln(w, o, f) ==
  [vuln |-> w.vulnOf[f],
   id |-> f,
   severity |-> IF Open(o, "severity", f) \/ Open(o, "published", f)
                THEN "NONE" ELSE w.sev[f],
   failed |-> Open(o, "severity", f),
   reach |-> IF Open(o, "called pass", "all") /\ w.reach[f] = "called"
             THEN "imported" ELSE w.reach[f],
   exploited |-> f \in w.exploited /\ ~Open(o, "catalog", "all")]

FindingsOf(w, o, m) ==
  IF Open(o, IF m = Self THEN "own advisories" ELSE "scan", "all") THEN {}
  ELSE {FindingFromVuln(w, o, f) : f \in {g \in Findings(w) : w.moduleOf[g] = m}}

\* Mutant: the module itself is graded without its archived flag too.
RowOfLenient(w, o, m) ==
  LET flagFailed == Open(o, "archived flag", m)
      modCheckFailed == Open(o, "notices", m)
      archived == m \in w.archived /\ ~flagFailed
  IN [module |-> m, self |-> m = Self, testOnly |-> m \in w.testOnly,
      notBuilt |-> m \in w.notBuilt,
      archived |-> archived \/ (m \in w.deprecated /\ ~modCheckFailed),
      missing |-> ~archived /\ (modCheckFailed \/ (Strict /\ flagFailed)),
      unread |-> FALSE,
      findings |-> FindingsOf(w, o, m)]

(* What is known of a module's upkeep (upkeepOfRule; the module itself     *)
(* always under the strict rule).                                          *)
RowOf(w, o, m) ==
  LET flagFailed == Open(o, "archived flag", m)
      modCheckFailed == Open(o, "notices", m)
      archived == m \in w.archived /\ ~flagFailed
      deprecated == m \in w.deprecated /\ ~modCheckFailed
      strict == Strict \/ m = Self
  IN [module |-> m,
      self |-> m = Self,
      testOnly |-> m \in w.testOnly,
      notBuilt |-> m \in w.notBuilt,
      archived |-> archived \/ deprecated,
      missing |-> ~archived /\ (modCheckFailed \/ (strict /\ flagFailed)),
      unread |-> ~strict /\ ~archived /\ ~modCheckFailed /\ flagFailed,
      findings |-> FindingsOf(w, o, m)]

(* The findings that could be a known-exploited F and whose status was not *)
(* checked.                                                                *)
KevUnchecked(w, o) ==
  Cardinality({q \in Modules(w) \X w.cve :
    /\ Open(o, "catalog", "all")
    /\ q[1] \notin w.testOnly
    /\ \E g \in FindingsOf(w, o, q[1]) :
         g.id = q[2] /\ (q[1] = Self \/ g.reach \in {"called", "none"})})

(* The analysis skipped the called pass, and with today's facts it could   *)
(* change the letter.                                                      *)
StaleCalledPass(w, o) ==
  /\ Open(o, "called pass", "all")
  /\ CalledPassCanChangeLetter({RowOf(w, o, m) : m \in w.deps})

InputOf(w, o) ==
  [rows |-> {RowOf(w, o, m) : m \in Modules(w)},
   mismatch |-> w.mismatch /\ ~Open(o, "mod verify", "all"),
   scanFailed |-> Open(o, "scan", "all"),
   interrupted |-> FALSE,
   calledPassStale |-> StaleCalledPass(w, o),
   checksumUnverified |-> Open(o, "mod verify", "all"),
   kevUnchecked |-> KevUnchecked(w, o),
   selfAdvisoriesFailed |-> Open(o, "own advisories", "all")]

-----------------------------------------------------------------------------
(* A scan whose first analysis skips the called pass only because its own  *)
(* findings say it cannot matter (CalledPassAuto).                         *)
KnowledgeInit ==
  /\ \E scene \in Scenes : world \in scene.worlds /\ open \in scene.opens
  /\ ~(Open(open, "called pass", "all") /\ Open(open, "scan", "all"))
  /\ ~StaleCalledPass(world, open)
  /\ report = Grade(InputOf(world, open))

(* A check is made again, by the next grade or the next analysis, and this *)
(* time it is answered.                                                    *)
Answer(c) ==
  /\ c \in open
  /\ open' = open \ {c}
  /\ report' = Grade(InputOf(world, open'))
  /\ UNCHANGED world

KnowledgeNext == \E c \in Checks(world) : Answer(c)

KnowledgeSpec == KnowledgeInit /\ [][KnowledgeNext]_knowledgeVars

-----------------------------------------------------------------------------
(* A letter without a star and without a list of unread flags.             *)
Firm == report.letter # NoLetter /\ ~report.estimated /\ report.unread = {}

(* What the rules overlook.  The answer of a check may move a letter that   *)
(* was given without it, although the code counts the check as harmless, in *)
(* these cases and no others.                                              *)
Unknown(o, f) == Open(o, "severity", f) \/ Open(o, "published", f)
Aliases(w, f) ==
  {g \in Findings(w) \ {f} : w.moduleOf[g] = w.moduleOf[f] /\ w.vulnOf[g] = w.vulnOf[f]}

\* A listing whose severity is not known takes that of its aliases, and its own is higher.
HigherThanItsAliases(w, o, f) ==
  LET known == {SeverityRank[w.sev[g]] : g \in {h \in Aliases(w, f) : ~Unknown(o, h)}}
  IN (\E k \in known : k > 0) /\ \A k \in known : k < SeverityRank[w.sev[f]]

\* An exploited finding that KevUnchecked does not count: one of a test-only dependency, one
\* that is called under the name of an alias only, or one that the called pass was skipped for.
ExploitedUncounted(w, o) ==
  \E f \in w.exploited :
    \/ w.moduleOf[f] \in w.testOnly
    \/ w.moduleOf[f] \in w.deps /\ \E g \in Aliases(w, f) \ w.cve : w.reach[g] \in {"called", "none"}
    \/ /\ Open(o, "called pass", "all")
       /\ w.moduleOf[f] \in w.deps
       /\ \E g \in Aliases(w, f) \cup {f} : w.reach[g] \in {"called", "imported"}

\* A called finding that CalledPassCanChangeLetter does not see the weight of: the catalog is
\* not read, or an alias that is not imported makes it severe or exploited.
CalledUnweighed(w, o) ==
  \E f \in Findings(w) :
    /\ w.moduleOf[f] \in w.deps /\ w.reach[f] = "called"
    /\ \/ Open(o, "catalog", "all") /\ f \in w.cve
       \/ \E g \in Aliases(w, f) :
            /\ w.reach[g] = "required"
            /\ \/ ~Unknown(o, g) /\ w.sev[g] \in {"HIGH", "CRITICAL"}
               \/ g \in w.exploited

Overlooked(w, o, c) ==
  \/ c[1] \in {"severity", "published"} /\ HigherThanItsAliases(w, o, c[2])
  \/ c[1] = "catalog" /\ ExploitedUncounted(w, o)
  \/ c[1] = "called pass" /\ CalledUnweighed(w, o)

LetterKept ==
  Firm /\ (\A c \in open \ open' : ~Overlooked(world, open, c))
    => report'.letter = report.letter /\ Firm'
RowLettersKept ==
  \A m \in Modules(world) :
    LET before == RowOf(world, open, m)
        after == RowOf(world, open', m)
    IN /\ open \ open' \subseteq {"notices", "archived flag"} \X {m}
       /\ RowLetter(before) # NoLetter /\ ~before.unread
       => RowLetter(after) = RowLetter(before)

(* "A check that failed is never read as a clean result" (pending.go): a   *)
(* letter given while checks are missing, and not marked as depending on   *)
(* them, is the letter they all give when they are answered, in any order. *)
(* Nor is a dependency's own letter shown while the missing part of its    *)
(* upkeep could make it worse (gradeRow): reading it later confirms it.    *)
LetterStands == [][LetterKept /\ RowLettersKept]_knowledgeVars

(* "A false one is a promise that the letter is the same" (calledpass.go): *)
(* the report of an analysis that skipped the called pass is, with its star*)
(* and its list, the one the called pass gives.                            *)
SkippedPassIsHarmless ==
  [][/\ report.letter # NoLetter
     /\ open \ open' = {<<"called pass", "all">>}
     /\ ~CalledUnweighed(world, open)
     => report' = report]_knowledgeVars

(* "This letter may be one band better than it would be with the flag": a  *)
(* letter given without an archived flag is at most one band too good.     *)
UnreadCostsOneBand ==
  [][\A m \in world.deps :
       /\ open \ open' = {<<"archived flag", m>>}
       /\ report.letter # NoLetter
       => report'.letter \in {report.letter, report.letter + 1}]_knowledgeVars
=============================================================================
