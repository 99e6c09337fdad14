---------------------------- MODULE GradeShapes ----------------------------
(***************************************************************************)
(* The grading rules over every shape of a dependency tree: findings are   *)
(* added to the rows one by one and modules are archived, and the letter   *)
(* of each tree is compared with the letters of the trees next to it.      *)
(* Every check is answered here; GradeKnowledge is about the others.       *)
(*                                                                         *)
(* The findings are counted by kind, since only their kinds decide the     *)
(* letter.                                                                 *)
(***************************************************************************)
EXTENDS GradeRules

CONSTANTS
  Deps, TestOnly,  \* the dependencies, the confirmed test-only ones
  KindAt,          \* numbered kinds: severity, reachability, exploitation
  NewModule,       \* the second module of a dependency that is split
  MaxFindings      \* bound on the findings of the tree

ASSUME ShapesAssumption ==
  /\ IsFiniteSet(Deps) /\ TestOnly \subseteq Deps
  /\ NewModule \notin Deps
  /\ IsFiniteSet(DOMAIN KindAt) /\ DOMAIN KindAt \subseteq Nat
  /\ \A k \in DOMAIN KindAt :
       KindAt[k] \in [severity : Severities,
                     reach : {"called", "imported", "required", "none"},
                     exploited : BOOLEAN]
  /\ MaxFindings \in Nat

VARIABLES
  found,     \* how many findings of each kind each row has
  archived,  \* the archived dependencies
  letter     \* the letter of the tree

shapesVars == <<found, archived, letter>>

Kinds == DOMAIN KindAt

Slots(fd) == {s \in Deps \X Kinds \X (1..MaxFindings) : s[3] <= fd[s[1]][s[2]]}

-----------------------------------------------------------------------------
\* A finding of a kind, the n-th of its row; every slot holds a vulnerability of
\* its own.
FindingOf(k, n, vuln) ==
  [vuln |-> vuln, id |-> k * (MaxFindings + 1) + n,
   severity |-> KindAt[k].severity, failed |-> FALSE,
   reach |-> KindAt[k].reach, exploited |-> KindAt[k].exploited]

ShapeRows(fd, ar) ==
  {[module |-> d, self |-> FALSE, testOnly |-> d \in TestOnly,
    notBuilt |-> FALSE, archived |-> d \in ar, missing |-> FALSE,
    unread |-> FALSE,
    findings |-> {FindingOf(s[2], s[3], s) : s \in {t \in Slots(fd) : t[1] = d}}]
   : d \in Deps}

AllAnswered(rows) ==
  [rows |-> rows, mismatch |-> FALSE, scanFailed |-> FALSE,
   interrupted |-> FALSE, calledPassStale |-> FALSE,
   checksumUnverified |-> FALSE, kevUnchecked |-> 0,
   selfAdvisoriesFailed |-> FALSE]

LetterOf(rows) == Grade(AllAnswered(rows)).letter

Rows == ShapeRows(found, archived)

-----------------------------------------------------------------------------
ShapesInit ==
  /\ found = [d \in Deps |-> [k \in Kinds |-> 0]]
  /\ archived = {}
  /\ letter = LetterOf(Rows)

AddFinding(d, k) ==
  /\ Cardinality(Slots(found)) < MaxFindings
  /\ found' = [found EXCEPT ![d] = [found[d] EXCEPT ![k] = @ + 1]]
  /\ letter' = LetterOf(ShapeRows(found', archived))
  /\ UNCHANGED archived

Archive(d) ==
  /\ archived' = archived \cup {d}
  /\ letter' = LetterOf(ShapeRows(found, archived'))
  /\ UNCHANGED found

ShapesNext ==
  \/ \E d \in Deps, k \in Kinds : AddFinding(d, k)
  \/ \E d \in Deps \ archived : Archive(d)

ShapesSpec == ShapesInit /\ [][ShapesNext]_shapesVars

-----------------------------------------------------------------------------
(* One more vulnerability, or an archived module, never makes the letter   *)
(* better: table values, the bonus for further advisories, the two columns,*)
(* the floor, the halving and the whole-tree rules together.               *)
WorseNeverHelps == [][letter <= letter']_shapesVars

(* "Without a tree-wide count, splitting one risky dependency into several *)
(* small modules would turn an F into a D" (tree.go): with it, however the *)
(* findings of a dependency are shared out between two modules, the letter *)
(* is no better.                                                           *)
SplitNeverHelps ==
  LET rows == Rows
  IN \A r \in {q \in rows : ~q.testOnly} : \A part \in SUBSET r.findings :
       letter <= LetterOf({[r EXCEPT !.findings = part],
                           [r EXCEPT !.findings = @ \ part,
                                     !.module = NewModule]}
                          \cup (rows \ {r}))

(* A vulnerability counts once, however many databases list it: a second   *)
(* listing that says nothing worse leaves the letter alone.                *)
Weaker(j, k) ==
  /\ SeverityRank[KindAt[j].severity] <= SeverityRank[KindAt[k].severity]
  /\ ReachRank[KindAt[j].reach] <= ReachRank[KindAt[k].reach]
  /\ KindAt[j].exploited => KindAt[k].exploited

ListedTwiceCountsOnce ==
  LET rows == Rows
  IN \A r \in rows : \A f \in r.findings :
       \A j \in {k \in Kinds : Weaker(k, f.vuln[2])} :
         LET listed == [r EXCEPT !.findings = @ \cup {FindingOf(j, 0, f.vuln)}]
         IN LetterOf({listed} \cup (rows \ {r})) = letter
=============================================================================
