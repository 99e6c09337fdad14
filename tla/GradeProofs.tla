---------------------------- MODULE GradeProofs ----------------------------
(***************************************************************************)
(* Proofs about the grading rules over trees of findings (GradeShapes), for*)
(* any dependencies, kinds of findings and number of them:                 *)
(*   - one more vulnerability or an archived module never makes the letter *)
(*     better;                                                             *)
(*   - a vulnerability counts once, however many databases list it;        *)
(*   - nor does splitting a dependency into two modules make it better.    *)
(*                                                                         *)
(* A tree is compared with another row by row.  Covers(r, q): each finding *)
(* of r has one in q that weighs no less, in the same module; then q's     *)
(* score is no less (VulnScoreGrows, RowScoreGrows), whole-tree rules count*)
(* no less (TreeScoreGrows), and neither does the letter (ScoreGrows).     *)
(* Merging the listings of one vulnerability is shown to yield the worst of*)
(* them, whatever member a CHOOSE takes.                                   *)
(***************************************************************************)
EXTENDS GradeShapes, FiniteSetTheorems, WellFoundedInduction, TLAPS

-----------------------------------------------------------------------------
(* Numbers and counting.                                                   *)

(* The order of the numbers.                                               *)
Lower == {pair \in Nat \X Nat : pair[1] < pair[2]}

(* A set of numbers has a least one.                                       *)
LEMMA Least ==
  ASSUME NEW T \in SUBSET Nat, T # {}
  PROVE  \E x \in T : \A y \in T : x <= y
<1>1. IsWellFoundedOn(Lower, Nat)
  BY NatLessThanWellFounded DEF OpToRel, Lower
<1>2. PICK x \in T : \A y \in T : <<y, x>> \notin Lower
  BY <1>1, WFMin
<1>3. \A y \in T : y \in Nat /\ x \in Nat
  OBVIOUS
<1>4. \A y \in T : ~(y < x)
  BY <1>2, <1>3 DEF Lower
<1> QED
  BY <1>3, <1>4

(* A set of points has a greatest one, which Highest is.                   *)
LEMMA HighestIs ==
  ASSUME NEW n \in Nat, NEW S, S # {}, \A x \in S : x \in Nat /\ x <= n
  PROVE  Highest(S) \in S /\ Highest(S) \in Nat /\ \A x \in S : x <= Highest(S)
<1> DEFINE U == {k \in Nat : \A x \in S : x <= k}
<1>1. n \in U
  OBVIOUS
<1>2. PICK k \in U : \A l \in U : k <= l
  BY <1>1, Least
<1>3. k \in S
  <2> SUFFICES ASSUME k \notin S PROVE FALSE
    OBVIOUS
  <2>1. \A x \in S : x \in Nat /\ x <= k - 1
    OBVIOUS
  <2>2. PICK x \in S : TRUE
    OBVIOUS
  <2>3. k - 1 \in U
    BY <2>1, <2>2
  <2> QED
    BY <1>2, <2>3
<1>4. Highest(S) \in S /\ \A x \in S : x <= Highest(S)
  BY <1>3, Zenon DEF Highest
<1> QED
  BY <1>4

(* When every member of S is related to a member of T, and to no other's,  *)
(* T has as many.                                                          *)
LEMMA NoFewer ==
  ASSUME NEW S, NEW T, IsFiniteSet(T), NEW R,
         \A s \in S : \E t \in T : <<s, t>> \in R,
         \A s \in S, u \in S, t \in T : <<s, t>> \in R /\ <<u, t>> \in R => s = u
  PROVE  IsFiniteSet(S) /\ Cardinality(S) <= Cardinality(T)
<1> DEFINE f == [s \in S |-> CHOOSE t \in T : <<s, t>> \in R]
<1>1. \A s \in S : f[s] \in T /\ <<s, f[s]>> \in R
  OBVIOUS
<1>2. f \in Injection(S, T)
  BY <1>1 DEF Injection, IsInjective
<1> QED
  BY <1>2, FS_Injection

(* The values of a function over a finite set are finitely many.           *)
LEMMA ImageIsFinite ==
  ASSUME NEW f, IsFiniteSet(DOMAIN f)
  PROVE  IsFiniteSet({f[x] : x \in DOMAIN f}) /\ Cardinality({f[x] : x \in DOMAIN f}) <= Cardinality(DOMAIN f)
<1> DEFINE S == {f[x] : x \in DOMAIN f}
           R == {p \in S \X (DOMAIN f) : p[1] = f[p[2]]}
<1>1. \A s \in S : \E t \in DOMAIN f : <<s, t>> \in R
  OBVIOUS
<1>2. \A s \in S, u \in S, t \in DOMAIN f : <<s, t>> \in R /\ <<u, t>> \in R => s = u
  OBVIOUS
<1> QED
  BY <1>1, <1>2, NoFewer

(* The bands are in the order of the scores.                               *)
LEMMA Bands ==
  /\ \A a \in Nat : Band(a) \in 1..5
  /\ \A a, b \in Nat : a <= b => Band(a) <= Band(b)
BY DEF Band

(* The bands of two scores of 100 at most compare as the scores do.        *)
LEMMA BandsOfScores ==
  \A a, b \in 0..100 : a <= b => Band(a) <= Band(b)
BY Bands

(* The scores of the two tables and how they compare.                      *)
LEMMA Tables ==
  /\ \A s \in Severities : CalledScore[s] \in 15..90 /\ ImportedScore[s] \in 11..50
  /\ CalledScore["LOW"] = 15 /\ CalledScore["MEDIUM"] = 45
  /\ CalledScore["HIGH"] = 70 /\ CalledScore["CRITICAL"] = 90
  /\ ImportedScore["LOW"] = 11 /\ ImportedScore["MEDIUM"] = 32
  /\ ImportedScore["HIGH"] = 49 /\ ImportedScore["CRITICAL"] = 50
BY DEF CalledScore, ImportedScore, Severities

-----------------------------------------------------------------------------
(* Findings, rows and inputs of the rules, over any modules and any        *)
(* vulnerabilities.                                                        *)

Reaches == {"called", "imported", "required", "none"}

FindingsOver(V) ==
  [vuln : V, id : Nat, severity : Severities \cup {"NONE"}, failed : BOOLEAN,
   reach : Reaches, exploited : BOOLEAN]

RowsOver(M, V) ==
  {r \in [module : M, self : BOOLEAN, testOnly : BOOLEAN, notBuilt : BOOLEAN,
          archived : BOOLEAN, missing : BOOLEAN, unread : BOOLEAN,
          findings : SUBSET FindingsOver(V)] : IsFiniteSet(r.findings)}

(* No two findings of one vulnerability, or of one identifier.             *)
OneEach(F) == \A f \in F, g \in F : f.vuln = g.vuln \/ f.id = g.id => f = g

(* Rows of different modules.                                              *)
OfModules(R) == \A r \in R, q \in R : r.module = q.module => r = q

(* What the rules read of an input: the rows of a scan, once merged.       *)
Trees(M, V) ==
  {R \in SUBSET RowsOver(M, V) :
     IsFiniteSet(R) /\ OfModules(R) /\ \A r \in R : OneEach(r.findings)}

(* A finding counts with one of the severities.                            *)
LEMMA SeveritiesOf ==
  ASSUME NEW V, NEW f \in FindingsOver(V)
  PROVE  /\ SeverityOf(f) \in Severities
         /\ CalledScore[SeverityOf(f)] \in 15..90
         /\ ImportedScore[SeverityOf(f)] \in 11..50
         /\ HighOrCritical(f) <=> CalledScore[SeverityOf(f)] >= 70
         /\ SeverityOf(f) = "CRITICAL" <=> CalledScore[SeverityOf(f)] >= 90
         /\ HighOrCritical(f) <=> ImportedScore[SeverityOf(f)] >= 49
         /\ ImportedScore[SeverityOf(f)] <= CalledScore[SeverityOf(f)]
         /\ f.id \in Nat /\ f.vuln \in V /\ f.exploited \in BOOLEAN /\ f.failed \in BOOLEAN
<1>1. SeverityOf(f) \in Severities
  BY DEF SeverityOf, Severities, FindingsOver
<1>2. /\ f.id \in Nat /\ f.vuln \in V
  BY DEF FindingsOver
<1>3. f.exploited \in BOOLEAN /\ f.failed \in BOOLEAN
  BY DEF FindingsOver
<1> QED
  BY <1>1, <1>2, <1>3, Tables DEF HighOrCritical, Severities

(* The two columns are in one order.                                       *)
LEMMA Columns ==
  \A s, t \in Severities : CalledScore[s] <= CalledScore[t] <=> ImportedScore[s] <= ImportedScore[t]
BY Tables DEF Severities

(* The fields of a row.                                                    *)
LEMMA RowIs ==
  ASSUME NEW M, NEW V, NEW r \in RowsOver(M, V)
  PROVE  /\ r.module \in M /\ r.findings \subseteq FindingsOver(V) /\ IsFiniteSet(r.findings)
         /\ r.self \in BOOLEAN /\ r.testOnly \in BOOLEAN /\ r.notBuilt \in BOOLEAN
         /\ r.archived \in BOOLEAN /\ r.missing \in BOOLEAN /\ r.unread \in BOOLEAN
BY DEF RowsOver

(* Where a finding of a row counts.                                        *)
LEMMA TierIs ==
  ASSUME NEW V, NEW f \in FindingsOver(V), NEW r, r.self \in BOOLEAN, r.notBuilt \in BOOLEAN
  PROVE  /\ TierOf(f, r) = "called" <=> (r.self \/ (~r.notBuilt /\ f.reach \in {"called", "none"}))
         /\ TierOf(f, r) = "imported" <=> (~r.self /\ ~r.notBuilt /\ f.reach = "imported")
<1>1. f.reach \in Reaches
  BY DEF FindingsOver
<1>2. CASE r.self
  BY <1>2 DEF TierOf
<1>3. CASE ~r.self /\ r.notBuilt
  BY <1>3 DEF TierOf
<1>4. CASE ~r.self /\ ~r.notBuilt
  BY <1>1, <1>4 DEF TierOf, Reaches
<1> QED
  BY <1>2, <1>3, <1>4

-----------------------------------------------------------------------------
(* The score of a row.                                                     *)

Called(r) == InTier(r, "called")
Imported(r) == InTier(r, "imported")
Further(r) == Cardinality({f \in Called(r) : HighOrCritical(f)})

CalledPoints(r) == Highest({0} \cup {CalledScore[SeverityOf(f)] : f \in Called(r)})
Bonus(r) == IF Further(r) > 1 THEN (Further(r) - 1) * FurtherAdvisoryAdd ELSE 0
ImportedPoints(r) ==
  Highest({0} \cup {Smaller(ImportedScore[SeverityOf(f)], ImportedCap) : f \in Imported(r)})
Worst(r) == Smaller(Larger(CalledPoints(r) + Bonus(r), ImportedPoints(r)), 100)
Full(r) == IF \E f \in Called(r) : f.exploited THEN Larger(Worst(r), ExploitedFloor) ELSE Worst(r)

(* The score of a row by its parts.                                        *)
LEMMA VulnScoreParts ==
  ASSUME NEW r
  PROVE  VulnScore(r) = IF r.testOnly THEN Smaller(Full(r) \div 2, TestOnlyCap) ELSE Full(r)
BY DEF VulnScore, Full, Worst, ImportedPoints, Bonus, CalledPoints, Further, Called, Imported

(* What the findings of a row add up to.                                   *)
LEMMA RowPoints ==
  ASSUME NEW M, NEW V, NEW r \in RowsOver(M, V)
  PROVE  /\ CalledPoints(r) \in 0..90 /\ ImportedPoints(r) \in 0..50
         /\ Further(r) \in Nat /\ Bonus(r) \in Nat
         /\ IsFiniteSet({f \in Called(r) : HighOrCritical(f)})
         /\ \A f \in Called(r) : CalledScore[SeverityOf(f)] <= CalledPoints(r)
         /\ \A f \in Imported(r) : ImportedScore[SeverityOf(f)] <= ImportedPoints(r)
         /\ CalledPoints(r) = 0 \/ \E f \in Called(r) : CalledScore[SeverityOf(f)] = CalledPoints(r)
         /\ ImportedPoints(r) = 0
            \/ \E f \in Imported(r) : ImportedScore[SeverityOf(f)] = ImportedPoints(r)
<1>1. \A f \in Called(r) \cup Imported(r) : f \in r.findings /\ f \in FindingsOver(V)
  BY RowIs DEF Called, Imported, InTier
<1> DEFINE C == {0} \cup {CalledScore[SeverityOf(f)] : f \in Called(r)}
           I == {0} \cup {Smaller(ImportedScore[SeverityOf(f)], ImportedCap) : f \in Imported(r)}
<1>2. \A x \in C : x \in Nat /\ x <= 90
  BY <1>1, SeveritiesOf
<1>3. \A f \in Imported(r) : Smaller(ImportedScore[SeverityOf(f)], ImportedCap) = ImportedScore[SeverityOf(f)]
  BY <1>1, SeveritiesOf DEF Smaller, ImportedCap
<1>4. \A x \in I : x \in Nat /\ x <= 50
  BY <1>1, <1>3, SeveritiesOf
<1>5. Highest(C) \in C /\ Highest(C) \in Nat /\ \A x \in C : x <= Highest(C)
  <2> HIDE DEF C
  <2>1. C # {}
    BY DEF C
  <2> QED
    BY <2>1, <1>2, HighestIs
<1>6. Highest(I) \in I /\ Highest(I) \in Nat /\ \A x \in I : x <= Highest(I)
  <2> HIDE DEF I
  <2>1. I # {}
    BY DEF I
  <2> QED
    BY <2>1, <1>4, HighestIs
<1>7. CalledPoints(r) = Highest(C) /\ ImportedPoints(r) = Highest(I)
  BY DEF CalledPoints, ImportedPoints
<1>8. IsFiniteSet({f \in Called(r) : HighOrCritical(f)})
  <2>1. {f \in Called(r) : HighOrCritical(f)} \subseteq r.findings
    BY DEF Called, InTier
  <2> QED
    BY <2>1, RowIs, FS_Subset
<1>9. Further(r) \in Nat
  BY <1>8, FS_CardinalityType DEF Further
<1>10. Bonus(r) \in Nat
  BY <1>9 DEF Bonus, FurtherAdvisoryAdd
<1>11. \A f \in Called(r) : CalledScore[SeverityOf(f)] \in C
  OBVIOUS
<1>12. \A f \in Imported(r) : ImportedScore[SeverityOf(f)] \in I
  BY <1>3
<1>13. \A x \in C : x = 0 \/ \E f \in Called(r) : CalledScore[SeverityOf(f)] = x
  OBVIOUS
<1>14. \A x \in I : x = 0 \/ \E f \in Imported(r) : ImportedScore[SeverityOf(f)] = x
  BY <1>3
<1> HIDE DEF C, I
<1>15. CalledPoints(r) \in 0..90 /\ ImportedPoints(r) \in 0..50
  BY <1>2, <1>4, <1>5, <1>6, <1>7
<1> QED
  BY <1>5, <1>6, <1>7, <1>8, <1>9, <1>10, <1>11, <1>12, <1>13, <1>14, <1>15

(* The score of a row is at most 100, and no less than either column's.    *)
LEMMA VulnScoreIs ==
  ASSUME NEW M, NEW V, NEW r \in RowsOver(M, V)
  PROVE  /\ Worst(r) \in 0..100 /\ Full(r) \in 0..100 /\ VulnScore(r) \in 0..100
         /\ Worst(r) <= Full(r) /\ CalledPoints(r) <= Worst(r) /\ ImportedPoints(r) <= Worst(r)
<1> HIDE DEF Called, Imported, CalledPoints, ImportedPoints, Bonus
<1>0. CalledPoints(r) \in 0..90 /\ ImportedPoints(r) \in 0..50 /\ Bonus(r) \in Nat
  BY RowPoints
<1>1. Worst(r) \in 0..100 /\ CalledPoints(r) <= Worst(r) /\ ImportedPoints(r) <= Worst(r)
  BY <1>0 DEF Worst, Smaller, Larger
<1>2. Full(r) \in 0..100 /\ Worst(r) <= Full(r)
  BY <1>1 DEF Full, Larger, ExploitedFloor
<1>3. VulnScore(r) \in 0..100
  BY <1>2, VulnScoreParts DEF Smaller, TestOnlyCap
<1> QED
  BY <1>1, <1>2, <1>3

-----------------------------------------------------------------------------
(* One finding says no more than another does of the same vulnerability.   *)

Lighter(f, r, g, q) ==
  /\ f.vuln = g.vuln
  /\ CalledScore[SeverityOf(f)] <= CalledScore[SeverityOf(g)]
  /\ f \in Called(r) => g \in Called(q) /\ (f.exploited => g.exploited)
  /\ f \in Imported(r) => g \in Called(q) \cup Imported(q)

(* Every finding of r that counts has one in q that weighs no less.        *)
Covers(q, r) ==
  \A f \in Called(r) \cup Imported(r) : \E g \in q.findings : Lighter(f, r, g, q)

(* A row that says more scores no less.                                    *)
LEMMA VulnScoreGrows ==
  ASSUME NEW M, NEW V, NEW r \in RowsOver(M, V), NEW q \in RowsOver(M, V),
         OneEach(r.findings), q.testOnly = r.testOnly, Covers(q, r)
  PROVE  Full(r) <= Full(q) /\ VulnScore(r) <= VulnScore(q)
<1> DEFINE Points(w) ==
             /\ CalledPoints(w) \in 0..90 /\ ImportedPoints(w) \in 0..50
             /\ Further(w) \in Nat /\ Bonus(w) \in Nat
             /\ \A f \in Called(w) : CalledScore[SeverityOf(f)] <= CalledPoints(w)
             /\ \A f \in Imported(w) : ImportedScore[SeverityOf(f)] <= ImportedPoints(w)
<1>0. Points(r) /\ Points(q)
  BY RowPoints
<1>1. \A f \in Called(r) \cup Imported(r) : f \in r.findings /\ f \in FindingsOver(V)
  BY RowIs DEF Called, Imported, InTier
<1>2. \A g \in q.findings : g \in FindingsOver(V)
  BY RowIs
<1>3. CalledPoints(r) <= CalledPoints(q)
  <2>1. CASE CalledPoints(r) = 0
    BY <2>1, <1>0
  <2>2. CASE CalledPoints(r) # 0
    <3>1. PICK f \in Called(r) : CalledScore[SeverityOf(f)] = CalledPoints(r)
      BY <2>2, RowPoints
    <3>2. PICK g \in q.findings : Lighter(f, r, g, q)
      BY DEF Covers
    <3>3. g \in Called(q) /\ CalledScore[SeverityOf(g)] >= CalledPoints(r)
      BY <1>1, <1>2, <3>1, <3>2, SeveritiesOf DEF Lighter
    <3>4. CalledScore[SeverityOf(g)] <= CalledPoints(q)
      BY <1>0, <3>3, Zenon
    <3>5. CalledScore[SeverityOf(g)] \in 15..90 /\ CalledPoints(r) \in 0..90 /\ CalledPoints(q) \in 0..90
      BY <1>0, <1>2, <3>2, SeveritiesOf, Zenon
    <3> HIDE DEF Points
    <3> QED
      BY <3>3, <3>4, <3>5
  <2> QED
    BY <2>1, <2>2
<1>4. Larger(CalledPoints(r), ImportedPoints(r)) <= Larger(CalledPoints(q), ImportedPoints(q))
  <2>1. CASE ImportedPoints(r) = 0
    BY <2>1, <1>3, <1>0 DEF Larger
  <2>2. CASE ImportedPoints(r) # 0
    <3>1. PICK f \in Imported(r) : ImportedScore[SeverityOf(f)] = ImportedPoints(r)
      BY <2>2, RowPoints
    <3>2. PICK g \in q.findings : Lighter(f, r, g, q)
      BY DEF Covers
    <3>3. ImportedScore[SeverityOf(g)] >= ImportedPoints(r)
      BY <1>1, <1>2, <3>1, <3>2, SeveritiesOf, Columns DEF Lighter
    <3>4. CASE g \in Called(q)
      <4>1. CalledScore[SeverityOf(g)] <= CalledPoints(q)
        BY <3>4, <1>0
      <4>2. ImportedPoints(r) <= CalledPoints(q)
        BY <1>2, <3>3, <4>1, <1>0, SeveritiesOf
      <4> QED
        BY <1>3, <4>2, <1>0 DEF Larger
    <3>5. CASE g \in Imported(q)
      <4>1. ImportedScore[SeverityOf(g)] <= ImportedPoints(q)
        BY <3>5, <1>0
      <4>2. ImportedPoints(r) <= ImportedPoints(q)
        BY <1>2, <3>3, <4>1, <1>0, SeveritiesOf
      <4> QED
        BY <1>3, <4>2, <1>0 DEF Larger
    <3> QED
      BY <3>1, <3>2, <3>4, <3>5 DEF Lighter
  <2> QED
    BY <2>1, <2>2
<1>5. Further(r) <= Further(q)
  <2> DEFINE S == {f \in Called(r) : HighOrCritical(f)}
             T == {g \in Called(q) : HighOrCritical(g)}
             R == {p \in S \X T : p[1].vuln = p[2].vuln}
  <2>1. ASSUME NEW f \in S PROVE \E g \in T : <<f, g>> \in R
    <3>1. PICK g \in q.findings : Lighter(f, r, g, q)
      BY DEF Covers
    <3>2. g \in Called(q) /\ CalledScore[SeverityOf(f)] <= CalledScore[SeverityOf(g)] /\ f.vuln = g.vuln
      BY <3>1 DEF Lighter
    <3>3. HighOrCritical(g)
      BY <1>1, <1>2, <3>2, SeveritiesOf
    <3> QED
      BY <3>2, <3>3
  <2>2. \A f \in S, h \in S, g \in T : <<f, g>> \in R /\ <<h, g>> \in R => f = h
    BY <1>1 DEF OneEach
  <2>3. IsFiniteSet(T)
    BY RowPoints
  <2> HIDE DEF R
  <2>4. Cardinality(S) <= Cardinality(T)
    BY <2>1, <2>2, <2>3, NoFewer
  <2> QED
    BY <2>4 DEF Further
<1>6. Bonus(r) <= Bonus(q)
  BY <1>5, <1>0 DEF Bonus, FurtherAdvisoryAdd
<1>7. Worst(r) <= Worst(q)
  <2>1. /\ CalledPoints(r) \in Nat /\ Bonus(r) \in Nat /\ ImportedPoints(r) \in Nat
        /\ CalledPoints(q) \in Nat /\ Bonus(q) \in Nat /\ ImportedPoints(q) \in Nat
    BY <1>0
  <2> HIDE DEF Points
  <2>2. Smaller(Larger(CalledPoints(r) + Bonus(r), ImportedPoints(r)), 100)
          <= Smaller(Larger(CalledPoints(q) + Bonus(q), ImportedPoints(q)), 100)
    BY <1>3, <1>4, <1>6, <2>1 DEF Smaller, Larger
  <2> QED
    BY <2>2 DEF Worst
<1>8. (\E f \in Called(r) : f.exploited) => \E g \in Called(q) : g.exploited
  BY DEF Covers, Lighter
<1>9. Full(r) <= Full(q)
  BY <1>7, <1>8, VulnScoreIs DEF Full, Larger, ExploitedFloor
<1> QED
  BY <1>9, VulnScoreIs, VulnScoreParts DEF Smaller, TestOnlyCap

(* The upkeep of a row, and its score.                                     *)
LEMMA UpkeepIs ==
  ASSUME NEW r
  PROVE  UpkeepIfArchived(r) \in {10, 20, 35} /\ UpkeepScore(r) \in {0, 10, 20, 35}
BY DEF UpkeepScore, UpkeepIfArchived, UpkeepSelf, UpkeepMinor, UpkeepDependency

(* The two rows are of one kind of module.                                 *)
SameModule(q, r) ==
  /\ q.self = r.self /\ q.testOnly = r.testOnly /\ q.notBuilt = r.notBuilt
  /\ q.module = r.module

(* The score of a row with its upkeep.                                     *)
LEMMA RowScoreIs ==
  ASSUME NEW M, NEW V, NEW r \in RowsOver(M, V)
  PROVE  RowScore(r) \in 0..100 /\ VulnScore(r) <= RowScore(r) /\ UpkeepScore(r) <= RowScore(r)
BY VulnScoreIs, UpkeepIs DEF RowScore, Larger

(* A row that covers another and is archived if it is scores no less.      *)
LEMMA RowScoreGrows ==
  ASSUME NEW M, NEW V, NEW r \in RowsOver(M, V), NEW q \in RowsOver(M, V),
         OneEach(r.findings), q.testOnly = r.testOnly, Covers(q, r),
         q.self = r.self, q.notBuilt = r.notBuilt, r.archived => q.archived
  PROVE  RowScore(r) <= RowScore(q)
<1>1. UpkeepScore(r) <= UpkeepScore(q)
  BY UpkeepIs DEF UpkeepScore, UpkeepIfArchived, UpkeepSelf, UpkeepMinor, UpkeepDependency
<1>2. VulnScore(r) <= VulnScore(q)
  BY VulnScoreGrows
<1> QED
  BY <1>1, <1>2, UpkeepIs, VulnScoreIs DEF RowScore, Larger

-----------------------------------------------------------------------------
(* The whole-tree rules.                                                   *)

Counted(R) == {r \in R : ~r.testOnly}

SevereOf(r, tiers) == {g \in r.findings : HighOrCritical(g) /\ TierOf(g, r) \in tiers}

Severe(R, tiers) == UNION {{<<r.module, f.id>> : f \in SevereOf(r, tiers)} : r \in Counted(R)}

Fatal(R) == \E r \in Counted(R) : \E f \in Called(r) : f.exploited \/ SeverityOf(f) = "CRITICAL"

(* The whole-tree rules by the sets they count.                            *)
LEMMA TreeScoreParts ==
  ASSUME NEW in
  PROVE  TreeScore(in) =
           IF in.mismatch \/ Fatal(in.rows)
              \/ Cardinality(Severe(in.rows, {"called"})) >= TreeCalledFindings
           THEN TreeFScore
           ELSE IF Cardinality(Severe(in.rows, {"called", "imported"})) >= TreeImportedOrCalled
                THEN TreeDScore ELSE 0
BY Zenon DEF TreeScore, Severe, SevereOf, Counted, Fatal, Called

(* The whole-tree rules give one of three scores.                          *)
LEMMA TreeScoreIs ==
  ASSUME NEW in
  PROVE  TreeScore(in) \in {0, 51, 76}
<1>1. TreeScore(in) \in {0, TreeDScore, TreeFScore}
  BY TreeScoreParts
<1> QED
  BY <1>1 DEF TreeDScore, TreeFScore

(* The severe findings of a tree are finitely many.                        *)
LEMMA SevereIs ==
  ASSUME NEW M, NEW V, NEW R \in Trees(M, V), NEW tiers
  PROVE  /\ IsFiniteSet(Severe(R, tiers))
         /\ \A p : p \in Severe(R, tiers) <=>
                     \E r \in Counted(R) : \E f \in SevereOf(r, tiers) : p = <<r.module, f.id>>
<1> DEFINE pairs == [r \in Counted(R) |-> {<<r.module, f.id>> : f \in SevereOf(r, tiers)}]
           all == {pairs[r] : r \in DOMAIN pairs}
<1>1. R \in SUBSET RowsOver(M, V) /\ IsFiniteSet(R)
  BY DEF Trees
<1>2. IsFiniteSet(Counted(R))
  <2>1. Counted(R) \subseteq R
    BY DEF Counted
  <2> QED
    BY <1>1, <2>1, FS_Subset
<1>3. ASSUME NEW r \in Counted(R)
      PROVE  IsFiniteSet({<<r.module, f.id>> : f \in SevereOf(r, tiers)})
  <2> DEFINE pair == [f \in SevereOf(r, tiers) |-> <<r.module, f.id>>]
  <2>1. IsFiniteSet(r.findings)
    BY <1>1, RowIs DEF Counted
  <2>2. SevereOf(r, tiers) \subseteq r.findings
    BY DEF SevereOf
  <2>3. IsFiniteSet(SevereOf(r, tiers))
    BY <2>1, <2>2, FS_Subset
  <2>4. DOMAIN pair = SevereOf(r, tiers)
    OBVIOUS
  <2>5. {<<r.module, f.id>> : f \in SevereOf(r, tiers)} = {pair[f] : f \in DOMAIN pair}
    BY Zenon
  <2> HIDE DEF pair
  <2> QED
    BY <2>3, <2>4, <2>5, ImageIsFinite
<1>4. DOMAIN pairs = Counted(R)
  OBVIOUS
<1>5. \A s \in all : IsFiniteSet(s)
  BY <1>3
<1>6. Severe(R, tiers) = UNION all
  <2>1. {{<<r.module, f.id>> : f \in SevereOf(r, tiers)} : r \in Counted(R)} = all
    BY Zenon
  <2> HIDE DEF all
  <2> QED
    BY <2>1 DEF Severe
<1>7. IsFiniteSet(all)
  <2> HIDE DEF pairs
  <2> QED
    BY <1>2, <1>4, ImageIsFinite
<1>8. IsFiniteSet(Severe(R, tiers))
  <2> HIDE DEF all
  <2> QED
    BY <1>5, <1>6, <1>7, FS_UNION
<1>9. \A p : p \in Severe(R, tiers) <=>
               \E r \in Counted(R) : \E f \in SevereOf(r, tiers) : p = <<r.module, f.id>>
  BY DEF Severe
<1> QED
  BY <1>8, <1>9

(* A tree keeps what another says when each severe or exploited finding of *)
(* the other is in it, said no better, in a module that stands for the     *)
(* other's.                                                                *)
Keeps(Q, R, origin) ==
  \A r \in Counted(R) : \A f \in Called(r) \cup Imported(r) : HighOrCritical(f) \/ f.exploited =>
    \E q \in Counted(Q) : \E g \in q.findings :
      /\ q.module \in DOMAIN origin /\ origin[q.module] = r.module
      /\ Lighter(f, r, g, q)

(* A tree that keeps what another has, wherever it puts it, has as many    *)
(* severe findings.                                                        *)
LEMMA SevereGrows ==
  ASSUME NEW M, NEW V, NEW R \in Trees(M, V), NEW Q \in Trees(M, V), NEW origin,
         Keeps(Q, R, origin), NEW tiers \in {{"called"}, {"called", "imported"}}
  PROVE  Cardinality(Severe(R, tiers)) <= Cardinality(Severe(Q, tiers))
<1> DEFINE From(s, t, r, f, q, g) ==
             /\ s = <<r.module, f.id>> /\ t = <<q.module, g.id>>
             /\ f \in SevereOf(r, tiers) /\ g \in SevereOf(q, tiers)
             /\ q.module \in DOMAIN origin /\ origin[q.module] = r.module /\ f.vuln = g.vuln
           Rel == {p \in Severe(R, tiers) \X Severe(Q, tiers) :
                     \E r \in R, q \in Q : \E f \in r.findings, g \in q.findings :
                       From(p[1], p[2], r, f, q, g)}
<1>1. /\ \A r \in R : r \in RowsOver(M, V) /\ OneEach(r.findings)
      /\ \A r \in Q : r \in RowsOver(M, V) /\ OneEach(r.findings)
      /\ OfModules(R) /\ OfModules(Q)
  BY DEF Trees
<1>2. ASSUME NEW r, r \in R \/ r \in Q, NEW f
      PROVE  f \in SevereOf(r, tiers)
               <=> /\ f \in r.findings /\ HighOrCritical(f)
                   /\ \/ f \in Called(r)
                      \/ f \in Imported(r) /\ tiers = {"called", "imported"}
  <2>1. tiers = {"called"} \/ tiers = {"called", "imported"}
    OBVIOUS
  <2> QED
    BY <2>1 DEF SevereOf, Called, Imported, InTier
<1>3. ASSUME NEW s \in Severe(R, tiers) PROVE \E t \in Severe(Q, tiers) : <<s, t>> \in Rel
  <2>1. PICK r \in Counted(R) : \E f \in SevereOf(r, tiers) : s = <<r.module, f.id>>
    BY SevereIs
  <2>2. PICK f \in SevereOf(r, tiers) : s = <<r.module, f.id>>
    BY <2>1
  <2>3. r \in R /\ f \in r.findings /\ HighOrCritical(f) /\ f \in Called(r) \cup Imported(r)
    BY <1>2 DEF Counted
  <2>4. PICK q \in Counted(Q) : \E g \in q.findings :
          /\ q.module \in DOMAIN origin /\ origin[q.module] = r.module /\ Lighter(f, r, g, q)
    BY <2>3 DEF Keeps
  <2>5. PICK g \in q.findings :
          /\ q.module \in DOMAIN origin /\ origin[q.module] = r.module /\ Lighter(f, r, g, q)
    BY <2>4
  <2>6. q \in Q
    BY DEF Counted
  <2>7. HighOrCritical(g)
    <3>1. f \in FindingsOver(V) /\ g \in FindingsOver(V)
      BY <1>1, <2>3, <2>6, RowIs
    <3> QED
      BY <2>3, <2>5, <3>1, SeveritiesOf DEF Lighter
  <2>8. g \in SevereOf(q, tiers)
    BY <1>2, <2>2, <2>3, <2>5, <2>6, <2>7 DEF Lighter
  <2>9. <<q.module, g.id>> \in Severe(Q, tiers)
    BY <2>8, SevereIs
  <2>10. From(s, <<q.module, g.id>>, r, f, q, g)
    BY <2>2, <2>5, <2>8 DEF Lighter
  <2> HIDE DEF From
  <2>11. <<s, <<q.module, g.id>>>> \in Rel
    BY <2>3, <2>6, <2>9, <2>10
  <2> QED
    BY <2>9, <2>11
<1>4. ASSUME NEW s \in Severe(R, tiers), NEW u \in Severe(R, tiers), NEW t \in Severe(Q, tiers),
             <<s, t>> \in Rel, <<u, t>> \in Rel
      PROVE  s = u
  <2>1. PICK r \in R, q \in Q : \E f \in r.findings, g \in q.findings : From(s, t, r, f, q, g)
    BY <1>4 DEF Rel
  <2>2. PICK f \in r.findings, g \in q.findings : From(s, t, r, f, q, g)
    BY <2>1
  <2>3. PICK r2 \in R, q2 \in Q : \E f2 \in r2.findings, g2 \in q2.findings : From(u, t, r2, f2, q2, g2)
    BY <1>4 DEF Rel
  <2>4. PICK f2 \in r2.findings, g2 \in q2.findings : From(u, t, r2, f2, q2, g2)
    BY <2>3
  <2>5. q.module = q2.module /\ g.id = g2.id
    BY <2>2, <2>4
  <2>6. q = q2
    BY <1>1, <2>5 DEF OfModules
  <2>7. g = g2
    BY <1>1, <2>5, <2>6 DEF OneEach
  <2>8. r = r2
    BY <1>1, <2>2, <2>4, <2>6 DEF OfModules
  <2>9. f = f2
    BY <1>1, <2>2, <2>4, <2>7, <2>8 DEF OneEach
  <2> QED
    BY <2>2, <2>4, <2>8, <2>9
<1>5. IsFiniteSet(Severe(Q, tiers))
  BY SevereIs
<1> HIDE DEF Rel
<1> QED
  BY <1>3, <1>4, <1>5, NoFewer

(* Nor do the whole-tree rules give it less.                               *)
LEMMA TreeScoreGrows ==
  ASSUME NEW M, NEW V, NEW in, NEW up, in.rows \in Trees(M, V), up.rows \in Trees(M, V),
         NEW origin, Keeps(up.rows, in.rows, origin), in.mismatch => up.mismatch
  PROVE  TreeScore(in) <= TreeScore(up)
<1>1. Fatal(in.rows) => Fatal(up.rows)
  <2> SUFFICES ASSUME NEW r \in Counted(in.rows), NEW f \in Called(r),
                      f.exploited \/ SeverityOf(f) = "CRITICAL"
               PROVE  Fatal(up.rows)
    BY DEF Fatal
  <2>1. PICK q \in Counted(up.rows) : \E g \in q.findings : Lighter(f, r, g, q)
    BY DEF Keeps, HighOrCritical
  <2>2. PICK g \in q.findings : Lighter(f, r, g, q)
    BY <2>1
  <2>3. r \in RowsOver(M, V) /\ q \in RowsOver(M, V) /\ f \in r.findings
    BY DEF Counted, Trees, Called, InTier
  <2>4. f \in FindingsOver(V) /\ g \in FindingsOver(V)
    BY <2>3, RowIs
  <2>5. g \in Called(q) /\ (f.exploited => g.exploited)
    BY <2>2 DEF Lighter
  <2>6. SeverityOf(f) = "CRITICAL" => SeverityOf(g) = "CRITICAL"
    BY <2>2, <2>4, SeveritiesOf DEF Lighter
  <2> QED
    BY <2>5, <2>6 DEF Fatal
<1> DEFINE c(x) == Cardinality(Severe(x.rows, {"called"}))
           d(x) == Cardinality(Severe(x.rows, {"called", "imported"}))
<1>2. c(in) <= c(up) /\ d(in) <= d(up)
  BY SevereGrows
<1>3. c(in) \in Nat /\ c(up) \in Nat /\ d(in) \in Nat /\ d(up) \in Nat
  BY SevereIs, FS_CardinalityType
<1> HIDE DEF c, d
<1>4. \A x : TreeScore(x) = IF x.mismatch \/ Fatal(x.rows) \/ c(x) >= TreeCalledFindings
                            THEN TreeFScore
                            ELSE IF d(x) >= TreeImportedOrCalled THEN TreeDScore ELSE 0
  BY TreeScoreParts DEF c, d
<1> QED
  BY <1>1, <1>2, <1>3, <1>4
     DEF TreeCalledFindings, TreeFScore, TreeImportedOrCalled, TreeDScore

-----------------------------------------------------------------------------
(* The score of a tree.                                                    *)

(* The score is that of the tree or of a row, whichever is highest.        *)
LEMMA ScoreIs ==
  ASSUME NEW M, NEW V, NEW in, in.rows \in Trees(M, V)
  PROVE  /\ Score(in) \in 0..100 /\ TreeScore(in) \in 0..100 /\ TreeScore(in) <= Score(in)
         /\ \A r \in in.rows : RowScore(r) \in 0..100 /\ RowScore(r) <= Score(in)
         /\ Score(in) = TreeScore(in) \/ \E r \in in.rows : Score(in) = RowScore(r)
<1> DEFINE S == {TreeScore(in)} \cup {RowScore(r) : r \in in.rows}
<1>1. TreeScore(in) \in 0..100
  BY TreeScoreIs
<1>2. \A r \in in.rows : RowScore(r) \in 0..100
  BY RowScoreIs DEF Trees
<1>3. \A x \in S : x \in Nat /\ x <= 100
  BY <1>1, <1>2
<1>4. TreeScore(in) \in S /\ \A r \in in.rows : RowScore(r) \in S
  OBVIOUS
<1>5. \A x \in S : x = TreeScore(in) \/ \E r \in in.rows : x = RowScore(r)
  OBVIOUS
<1>6. Score(in) = Highest(S)
  BY DEF Score
<1> HIDE DEF S
<1>7. Highest(S) \in S /\ Highest(S) \in Nat /\ \A x \in S : x <= Highest(S)
  BY <1>3, <1>4, HighestIs
<1> QED
  BY <1>1, <1>2, <1>3, <1>4, <1>5, <1>6, <1>7

(* A tree whose rows and severe findings are matched scores no less.       *)
LEMMA ScoreGrows ==
  ASSUME NEW M, NEW V, NEW in, NEW up, in.rows \in Trees(M, V), up.rows \in Trees(M, V),
         NEW origin, Keeps(up.rows, in.rows, origin), in.mismatch => up.mismatch,
         \A r \in in.rows : RowScore(r) <= Score(up)
  PROVE  Score(in) <= Score(up)
<1>1. TreeScore(in) <= TreeScore(up)
  BY TreeScoreGrows
<1>2. CASE Score(in) = TreeScore(in)
  <2>1. TreeScore(in) \in 0..100 /\ TreeScore(up) \in 0..100
    <3>1. TreeScore(in) \in 0..100
      BY ScoreIs, Zenon
    <3> QED
      BY ScoreIs, <3>1, Zenon
  <2>2. Score(up) \in 0..100 /\ TreeScore(up) <= Score(up)
    BY ScoreIs, Zenon
  <2>3. ASSUME NEW a \in 0..100, NEW b \in 0..100, NEW c \in 0..100, a <= b, b <= c
        PROVE  a <= c
    BY ONLY <2>3
  <2>4. TreeScore(in) <= Score(up)
    BY <1>1, <2>1, <2>2, <2>3
  <2> QED
    BY <1>2, <2>4, Zenon
<1>3. CASE \E r \in in.rows : Score(in) = RowScore(r)
  BY <1>3
<1> QED
  BY <1>2, <1>3, ScoreIs

(* Row by row: the rows of the same modules, none of which says less.      *)
NoLess(q, r) == SameModule(q, r) /\ Covers(q, r) /\ (r.archived => q.archived)

(* So does a tree with a row that is no less for each row of the other.    *)
LEMMA ScoreGrowsByRows ==
  ASSUME NEW M, NEW V, NEW in, NEW up, in.rows \in Trees(M, V), up.rows \in Trees(M, V),
         in.mismatch => up.mismatch, \A r \in in.rows : \E q \in up.rows : NoLess(q, r)
  PROVE  Score(in) <= Score(up)
<1> DEFINE origin == [m \in M |-> m]
<1>1. Keeps(up.rows, in.rows, origin)
  <2> SUFFICES ASSUME NEW r \in Counted(in.rows), NEW f \in Called(r) \cup Imported(r)
               PROVE  \E q \in Counted(up.rows) : \E g \in q.findings :
                        /\ q.module \in DOMAIN origin /\ origin[q.module] = r.module
                        /\ Lighter(f, r, g, q)
    BY DEF Keeps
  <2>1. r \in in.rows /\ ~r.testOnly
    BY DEF Counted
  <2>2. PICK q \in up.rows : NoLess(q, r)
    BY <2>1
  <2>3. PICK g \in q.findings : Lighter(f, r, g, q)
    BY <2>2 DEF NoLess, Covers
  <2>4. q \in Counted(up.rows) /\ q.module = r.module
    BY <2>1, <2>2 DEF Counted, NoLess, SameModule
  <2>5. q.module \in M
    BY <2>2, RowIs DEF Trees
  <2> QED
    BY <2>3, <2>4, <2>5
<1>2. ASSUME NEW r \in in.rows PROVE RowScore(r) <= Score(up)
  <2>1. PICK q \in up.rows : NoLess(q, r)
    OBVIOUS
  <2>2. r \in RowsOver(M, V) /\ q \in RowsOver(M, V) /\ OneEach(r.findings)
    BY DEF Trees
  <2>3. RowScore(r) <= RowScore(q)
    BY <2>1, <2>2, RowScoreGrows DEF NoLess, SameModule
  <2>4. RowScore(q) \in 0..100 /\ RowScore(q) <= Score(up) /\ Score(up) \in 0..100
    BY <2>1, ScoreIs
  <2>5. RowScore(r) \in 0..100
    BY <2>2, RowScoreIs
  <2> QED
    BY <2>3, <2>4, <2>5
<1> HIDE DEF origin
<1> QED
  BY <1>1, <1>2, ScoreGrows

-----------------------------------------------------------------------------
(* Merging the listings of one vulnerability.                              *)

(* No two severities, and no two reachabilities, have the same rank.       *)
LEMMA Ranks ==
  /\ \A s \in Severities \cup {"NONE"} : SeverityRank[s] \in 0..4
  /\ \A s, t \in Severities \cup {"NONE"} : SeverityRank[s] = SeverityRank[t] => s = t
  /\ \A s \in Severities \cup {"NONE"} : SeverityRank[s] = 0 <=> s = "NONE"
  /\ \A t \in Reaches : ReachRank[t] \in 1..4
  /\ \A s, t \in Reaches : ReachRank[s] = ReachRank[t] => s = t
BY DEF SeverityRank, Severities, ReachRank, Reaches

(* The worst value of a group, with the lowest identifier.                 *)
LEMMA MergeGroupIs ==
  ASSUME NEW V, NEW G \in SUBSET FindingsOver(V), G # {}, \A f, g \in G : f.vuln = g.vuln
  PROVE  /\ MergeGroup(G) \in FindingsOver(V) /\ \A f \in G : MergeGroup(G).vuln = f.vuln
         /\ \E f \in G : MergeGroup(G).id = f.id
         /\ \A f \in G : MergeGroup(G).id <= f.id
         /\ \E f \in G : MergeGroup(G).severity = f.severity
         /\ \A f \in G : SeverityRank[f.severity] <= SeverityRank[MergeGroup(G).severity]
         /\ MergeGroup(G).failed = (MergeGroup(G).severity = "NONE" /\ \E f \in G : f.failed)
         /\ \E f \in G : MergeGroup(G).reach = f.reach
         /\ \A f \in G : ReachRank[f.reach] <= ReachRank[MergeGroup(G).reach]
         /\ MergeGroup(G).exploited = (\E f \in G : f.exploited)
<1> DEFINE Worse(f) == \A g \in G : SeverityRank[g.severity] <= SeverityRank[f.severity]
           Nearer(f) == \A g \in G : ReachRank[g.reach] <= ReachRank[f.reach]
           worst == CHOOSE f \in G : Worse(f)
           reached == CHOOSE f \in G : Nearer(f)
           ids == {f.id : f \in G}
           low == CHOOSE i \in ids : \A f \in G : i <= f.id
<1>1. \A f \in G : /\ f \in FindingsOver(V) /\ f.severity \in Severities \cup {"NONE"}
                   /\ f.reach \in Reaches /\ f.id \in Nat /\ f.vuln \in V
  BY DEF FindingsOver
<1>2. \E f \in G : Worse(f)
  <2> DEFINE ranks == {SeverityRank[f.severity] : f \in G}
  <2>1. ranks # {} /\ \A x \in ranks : x \in Nat /\ x <= 4
    BY <1>1, Ranks
  <2>2. \A f \in G : SeverityRank[f.severity] \in ranks
    OBVIOUS
  <2>3. \A x \in ranks : \E f \in G : x = SeverityRank[f.severity]
    OBVIOUS
  <2> HIDE DEF ranks
  <2>4. Highest(ranks) \in ranks /\ \A x \in ranks : x <= Highest(ranks)
    BY <2>1, HighestIs
  <2> QED
    BY <2>2, <2>3, <2>4
<1>3. \E f \in G : Nearer(f)
  <2> DEFINE ranks == {ReachRank[f.reach] : f \in G}
  <2>1. ranks # {} /\ \A x \in ranks : x \in Nat /\ x <= 4
    BY <1>1, Ranks
  <2>2. \A f \in G : ReachRank[f.reach] \in ranks
    OBVIOUS
  <2>3. \A x \in ranks : \E f \in G : x = ReachRank[f.reach]
    OBVIOUS
  <2> HIDE DEF ranks
  <2>4. Highest(ranks) \in ranks /\ \A x \in ranks : x <= Highest(ranks)
    BY <2>1, HighestIs
  <2> QED
    BY <2>2, <2>3, <2>4
<1>4. \E i \in ids : \A f \in G : i <= f.id
  <2>1. ids \in SUBSET Nat /\ ids # {}
    BY <1>1
  <2>2. \A f \in G : f.id \in ids
    OBVIOUS
  <2> HIDE DEF ids
  <2> QED
    BY <2>1, <2>2, Least
<1>5. worst \in G /\ Worse(worst)
  <2> HIDE DEF Worse
  <2> QED
    BY <1>2, Zenon
<1>6. reached \in G /\ Nearer(reached)
  <2> HIDE DEF Nearer
  <2> QED
    BY <1>3, Zenon
<1>7. low \in ids /\ \A f \in G : low <= f.id
  <2> HIDE DEF ids
  <2> QED
    BY <1>4, Zenon
<1>8. MergeGroup(G) =
        [vuln |-> worst.vuln, id |-> low, severity |-> worst.severity,
         failed |-> worst.severity = "NONE" /\ \E f \in G : f.failed,
         reach |-> reached.reach, exploited |-> \E f \in G : f.exploited]
  BY Zenon DEF MergeGroup
<1>9. \E f \in G : low = f.id
  BY <1>7
<1> HIDE DEF worst, reached, low, ids
<1>10. /\ worst.vuln \in V /\ low \in Nat /\ worst.severity \in Severities \cup {"NONE"}
       /\ reached.reach \in Reaches
  BY <1>1, <1>5, <1>6, <1>9
<1>11. MergeGroup(G) \in FindingsOver(V)
  BY <1>8, <1>10 DEF FindingsOver
<1>12. /\ \A f \in G : MergeGroup(G).vuln = f.vuln
       /\ MergeGroup(G).id = low /\ MergeGroup(G).severity = worst.severity
       /\ MergeGroup(G).reach = reached.reach
  BY <1>5, <1>8
<1>13. /\ MergeGroup(G).failed = (worst.severity = "NONE" /\ \E f \in G : f.failed)
       /\ MergeGroup(G).exploited = (\E f \in G : f.exploited)
  BY <1>8
<1> QED
  BY <1>5, <1>6, <1>7, <1>9, <1>11, <1>12, <1>13

GroupOf(F, v) == {f \in F : f.vuln = v}

(* Merging leaves one finding of each vulnerability that is listed.        *)
LEMMA MergeIs ==
  ASSUME NEW V, NEW F \in SUBSET FindingsOver(V), IsFiniteSet(F)
  PROVE  /\ MergeAdvisories(F) \subseteq FindingsOver(V)
         /\ IsFiniteSet(MergeAdvisories(F))
         /\ \A f \in F : MergeGroup(GroupOf(F, f.vuln)) \in MergeAdvisories(F)
         /\ \A f \in F : MergeGroup(GroupOf(F, f.vuln)).vuln = f.vuln
         /\ \A m \in MergeAdvisories(F) :
              m = MergeGroup(GroupOf(F, m.vuln)) /\ GroupOf(F, m.vuln) # {}
         /\ (\A f \in F, g \in F : f.id = g.id => f = g) => OneEach(MergeAdvisories(F))
<1> DEFINE merged == [v \in {f.vuln : f \in F} |-> MergeGroup(GroupOf(F, v))]
           vulnOf == [f \in F |-> f.vuln]
<1>1. MergeAdvisories(F) = {MergeGroup(GroupOf(F, v)) : v \in {f.vuln : f \in F}}
  BY Zenon DEF MergeAdvisories, GroupOf
<1>2. \A f \in F : GroupOf(F, f.vuln) \in SUBSET FindingsOver(V) /\ GroupOf(F, f.vuln) # {}
  BY DEF GroupOf
<1>3. ASSUME NEW f \in F
      PROVE  /\ MergeGroup(GroupOf(F, f.vuln)) \in FindingsOver(V)
             /\ MergeGroup(GroupOf(F, f.vuln)).vuln = f.vuln
             /\ \E g \in GroupOf(F, f.vuln) : MergeGroup(GroupOf(F, f.vuln)).id = g.id
  <2> DEFINE G == GroupOf(F, f.vuln)
  <2>1. G \in SUBSET FindingsOver(V) /\ G # {} /\ f \in G /\ \A g, h \in G : g.vuln = h.vuln
    BY <1>2 DEF GroupOf
  <2> HIDE DEF G
  <2>2. MergeGroup(G) \in FindingsOver(V) /\ MergeGroup(G).vuln = f.vuln /\ \E g \in G : MergeGroup(G).id = g.id
    BY <2>1, MergeGroupIs, Zenon
  <2> QED
    BY <2>2 DEF G
<1>4. \A f \in F : MergeGroup(GroupOf(F, f.vuln)) \in MergeAdvisories(F)
  BY <1>1
<1>5. \A m \in MergeAdvisories(F) : \E f \in F : m = MergeGroup(GroupOf(F, f.vuln))
  BY <1>1
<1>6. MergeAdvisories(F) \subseteq FindingsOver(V)
  BY <1>3, <1>5
<1>7. \A m \in MergeAdvisories(F) : m = MergeGroup(GroupOf(F, m.vuln)) /\ GroupOf(F, m.vuln) # {}
  BY <1>2, <1>3, <1>5
<1>8. IsFiniteSet(MergeAdvisories(F))
  <2>1. {f.vuln : f \in F} = {vulnOf[f] : f \in DOMAIN vulnOf}
    BY Zenon
  <2>2. DOMAIN vulnOf = F
    OBVIOUS
  <2>3. IsFiniteSet({f.vuln : f \in F})
    <3> HIDE DEF vulnOf
    <3> QED
      BY <2>1, <2>2, ImageIsFinite
  <2>4. MergeAdvisories(F) = {merged[v] : v \in DOMAIN merged}
    BY <1>1, Zenon
  <2>5. DOMAIN merged = {f.vuln : f \in F}
    OBVIOUS
  <2>6. IsFiniteSet(DOMAIN merged)
    BY <2>3, <2>5
  <2> HIDE DEF merged
  <2> QED
    BY <2>4, <2>6, ImageIsFinite
<1>9. ASSUME \A f \in F, g \in F : f.id = g.id => f = g
      PROVE  OneEach(MergeAdvisories(F))
  <2> SUFFICES ASSUME NEW m \in MergeAdvisories(F), NEW n \in MergeAdvisories(F),
                      m.vuln = n.vuln \/ m.id = n.id
               PROVE  m = n
    BY DEF OneEach
  <2>1. CASE m.vuln = n.vuln
    BY <1>7, <2>1
  <2>2. CASE m.id = n.id
    <3>1. ASSUME NEW k \in MergeAdvisories(F) PROVE \E g \in F : k.id = g.id /\ g.vuln = k.vuln
      <4>1. PICK f \in F : k = MergeGroup(GroupOf(F, f.vuln))
        BY <1>5
      <4>2. k.vuln = f.vuln
        BY <1>3, <4>1
      <4>3. PICK g \in GroupOf(F, f.vuln) : k.id = g.id
        BY <1>3, <4>1
      <4> QED
        BY <4>2, <4>3 DEF GroupOf
    <3>2. PICK f \in F : m.id = f.id /\ f.vuln = m.vuln
      BY <3>1
    <3>3. PICK g \in F : n.id = g.id /\ g.vuln = n.vuln
      BY <3>1
    <3> QED
      BY <1>7, <1>9, <2>2, <3>2, <3>3
  <2> QED
    BY <2>1, <2>2
<1> QED
  BY <1>3, <1>4, <1>6, <1>7, <1>8, <1>9

(* The rows before they are merged: a module's findings differ in their    *)
(* identifiers.                                                            *)
Scans(M, V) ==
  {R \in SUBSET RowsOver(M, V) :
     /\ IsFiniteSet(R) /\ OfModules(R)
     /\ \A r \in R : \A f \in r.findings, g \in r.findings : f.id = g.id => f = g}

Merged(R) == {MergedRow(r) : r \in R}

(* A merged row has the flags of the row.                                  *)
LEMMA MergedRowIs ==
  ASSUME NEW M, NEW V, NEW R \in Scans(M, V), NEW r \in R
  PROVE  /\ MergedRow(r) \in RowsOver(M, V) /\ OneEach(MergedRow(r).findings)
         /\ MergedRow(r).findings = MergeAdvisories(r.findings)
         /\ SameModule(MergedRow(r), r) /\ MergedRow(r).archived = r.archived
         /\ MergedRow(r).missing = r.missing /\ MergedRow(r).unread = r.unread
<1>1. /\ r \in RowsOver(M, V)
      /\ \A f \in r.findings, g \in r.findings : f.id = g.id => f = g
  BY DEF Scans
<1>2. r.findings \in SUBSET FindingsOver(V) /\ IsFiniteSet(r.findings)
  BY <1>1, RowIs
<1>3. /\ MergeAdvisories(r.findings) \subseteq FindingsOver(V)
      /\ IsFiniteSet(MergeAdvisories(r.findings)) /\ OneEach(MergeAdvisories(r.findings))
  BY <1>1, <1>2, MergeIs
<1>4. MergedRow(r) = [r EXCEPT !.findings = MergeAdvisories(r.findings)]
  BY DEF MergedRow
<1>5. /\ MergedRow(r).findings = MergeAdvisories(r.findings)
      /\ SameModule(MergedRow(r), r) /\ MergedRow(r).archived = r.archived
      /\ MergedRow(r).missing = r.missing /\ MergedRow(r).unread = r.unread
  BY <1>1, <1>4 DEF RowsOver, SameModule
<1>6. MergedRow(r) \in RowsOver(M, V)
  BY <1>1, <1>3, <1>4 DEF RowsOver
<1> QED
  BY <1>3, <1>5, <1>6

(* A merged scan is a tree.                                                *)
LEMMA MergedIs ==
  ASSUME NEW M, NEW V, NEW R \in Scans(M, V)
  PROVE  Merged(R) \in Trees(M, V)
<1> DEFINE merged == [r \in R |-> MergedRow(r)]
<1>1. IsFiniteSet(R) /\ OfModules(R)
  BY DEF Scans
<1>2. IsFiniteSet(Merged(R))
  <2>1. Merged(R) = {merged[r] : r \in DOMAIN merged}
    BY Zenon DEF Merged
  <2>2. DOMAIN merged = R
    OBVIOUS
  <2> HIDE DEF merged
  <2> QED
    BY <1>1, <2>1, <2>2, ImageIsFinite
<1>3. \A q \in Merged(R) : \E r \in R : q = MergedRow(r) /\ q.module = r.module
  BY MergedRowIs DEF Merged, SameModule
<1>4. OfModules(Merged(R))
  BY <1>1, <1>3 DEF OfModules
<1>5. Merged(R) \subseteq RowsOver(M, V) /\ \A q \in Merged(R) : OneEach(q.findings)
  BY <1>3, MergedRowIs
<1> QED
  BY <1>2, <1>4, <1>5 DEF Trees

(* A finding that nothing shares its vulnerability with is left as it is.  *)
LEMMA MergedAlone ==
  ASSUME NEW V, NEW F \in SUBSET FindingsOver(V), IsFiniteSet(F), OneEach(F),
         \A f \in F : f.failed => f.severity = "NONE"
  PROVE  MergeAdvisories(F) = F
<1>1. ASSUME NEW f \in F PROVE MergeGroup(GroupOf(F, f.vuln)) = f
  <2>1. GroupOf(F, f.vuln) = {f}
    BY DEF GroupOf, OneEach
  <2> DEFINE G == {f}
             m == MergeGroup(G)
  <2>2. G \in SUBSET FindingsOver(V) /\ G # {} /\ \A g, h \in G : g.vuln = h.vuln
    OBVIOUS
  <2>3. \A g \in G : g = f
    OBVIOUS
  <2>4. f \in G
    OBVIOUS
  <2> HIDE DEF G
  <2>5. /\ m \in FindingsOver(V) /\ \A g \in G : m.vuln = g.vuln
        /\ \E g \in G : m.id = g.id
        /\ \E g \in G : m.severity = g.severity
        /\ m.failed = (m.severity = "NONE" /\ \E g \in G : g.failed)
        /\ \E g \in G : m.reach = g.reach
        /\ m.exploited = (\E g \in G : g.exploited)
    BY <2>2, MergeGroupIs, Zenon
  <2> HIDE DEF m
  <2>6. m.vuln = f.vuln /\ m.id = f.id /\ m.severity = f.severity /\ m.reach = f.reach
    BY <2>3, <2>4, <2>5
  <2>7. f \in FindingsOver(V) /\ (f.failed => f.severity = "NONE")
    OBVIOUS
  <2>8. m.failed = f.failed
    <3>1. m.failed \in BOOLEAN /\ f.failed \in BOOLEAN
      BY <2>5, <2>7 DEF FindingsOver
    <3>2. m.failed <=> f.failed
      BY <2>3, <2>4, <2>5, <2>6, <2>7
    <3> QED
      BY <3>1, <3>2
  <2>9. m.exploited = f.exploited
    <3>1. m.exploited \in BOOLEAN /\ f.exploited \in BOOLEAN
      BY <2>5, <2>7 DEF FindingsOver
    <3>2. m.exploited <=> f.exploited
      BY <2>3, <2>4, <2>5
    <3> QED
      BY <3>1, <3>2
  <2>10. \A g \in FindingsOver(V) :
           g = [vuln |-> g.vuln, id |-> g.id, severity |-> g.severity, failed |-> g.failed,
                reach |-> g.reach, exploited |-> g.exploited]
    BY DEF FindingsOver
  <2>11. m = f
    BY <2>5, <2>6, <2>7, <2>8, <2>9, <2>10
  <2> QED
    BY <2>1, <2>11 DEF G, m
<1>2. \A m \in MergeAdvisories(F) :
        m = MergeGroup(GroupOf(F, m.vuln)) /\ GroupOf(F, m.vuln) # {}
  BY MergeIs
<1>3. \A f \in F : MergeGroup(GroupOf(F, f.vuln)) \in MergeAdvisories(F)
  BY MergeIs
<1>4. \A m \in MergeAdvisories(F) : \E f \in F : f.vuln = m.vuln
  BY <1>2 DEF GroupOf
<1> QED
  BY <1>1, <1>2, <1>3, <1>4

-----------------------------------------------------------------------------
(* The letter of a tree when every check is answered.                      *)

(* Nothing is pending when no check blocks.                                *)
LEMMA PendingIs ==
  ASSUME NEW in, NEW score, \A i \in DOMAIN PendingOrder : ~Blocks(PendingOrder[i], in, score)
  PROVE  PendingFor(in, score) = "none"
BY DEF PendingFor

(* AllAnswered with its FALSE as a parameter.                              *)
AnsweredBy(no, rows) ==
  [rows |-> rows, mismatch |-> no, scanFailed |-> no, interrupted |-> no,
   calledPassStale |-> no, checksumUnverified |-> no, kevUnchecked |-> 0,
   selfAdvisoriesFailed |-> no]

(* The input of other rows, when everything is answered.                   *)
LEMMA OtherRows ==
  ASSUME NEW R, NEW S
  PROVE  [AllAnswered(R) EXCEPT !.rows = S] = AllAnswered(S)
<1>1. \A no, rows : [AnsweredBy(no, rows) EXCEPT !.rows = S] = AnsweredBy(no, S)
  BY DEF AnsweredBy
<1>2. [AnsweredBy(FALSE, R) EXCEPT !.rows = S] = AnsweredBy(FALSE, S)
  BY <1>1, Zenon
<1> QED
  BY <1>2, Zenon DEF AllAnswered, AnsweredBy

(* The letter of a scan in which every check is answered is the band of    *)
(* its score.                                                              *)
LEMMA LetterIs ==
  ASSUME NEW M, NEW V, NEW R \in Scans(M, V),
         \A r \in R : ~r.missing /\ \A f \in r.findings : ~f.failed
  PROVE  LetterOf(R) = Band(Score(AllAnswered(Merged(R))))
<1> DEFINE raw == AllAnswered(R)
           in == AllAnswered(Merged(R))
           all == UNION {r.findings : r \in in.rows}
           failed == {f \in all : f.failed}
           estimated == {f \in all : IsEstimated(f)}
           res == GradeOnce(in)
<1>1. in = [raw EXCEPT !.rows = {MergedRow(r) : r \in @}]
  <2>1. raw.rows = R
    BY DEF AllAnswered
  <2>2. [raw EXCEPT !.rows = {MergedRow(r) : r \in @}] = [raw EXCEPT !.rows = Merged(R)]
    BY <2>1, Zenon DEF Merged
  <2> QED
    BY <2>2, OtherRows
<1>2. \A q \in Merged(R) : ~q.missing /\ \A m \in q.findings : ~m.failed
  <2> SUFFICES ASSUME NEW r \in R, NEW m \in MergedRow(r).findings
               PROVE  ~m.failed
    BY MergedRowIs DEF Merged
  <2>1. r.findings \in SUBSET FindingsOver(V) /\ IsFiniteSet(r.findings)
    BY RowIs DEF Scans
  <2> DEFINE G == GroupOf(r.findings, m.vuln)
  <2>2. m = MergeGroup(G) /\ G # {}
    BY <2>1, MergedRowIs, MergeIs
  <2>3. G \in SUBSET FindingsOver(V) /\ (\A f, g \in G : f.vuln = g.vuln) /\ \A f \in G : f \in r.findings
    BY <2>1 DEF GroupOf
  <2> HIDE DEF G
  <2>4. MergeGroup(G).failed = (MergeGroup(G).severity = "NONE" /\ \E f \in G : f.failed)
    BY <2>2, <2>3, MergeGroupIs, Zenon
  <2> QED
    BY <2>2, <2>3, <2>4, MergedRowIs
<1>3. failed = {}
  BY <1>2 DEF AllAnswered
<1>4. \A i \in DOMAIN PendingOrder : ~Blocks(PendingOrder[i], in, Score(in))
  <2>1. /\ in.scanFailed = FALSE /\ in.interrupted = FALSE /\ in.calledPassStale = FALSE
        /\ in.checksumUnverified = FALSE /\ in.kevUnchecked = 0
        /\ in.selfAdvisoriesFailed = FALSE /\ in.rows = Merged(R)
    BY DEF AllAnswered
  <2> HIDE DEF in
  <2>2. /\ ~Blocks("vulnerability_scan", in, Score(in)) /\ ~Blocks("scan_incomplete", in, Score(in))
        /\ ~Blocks("called_pass", in, Score(in)) /\ ~Blocks("checksum", in, Score(in))
        /\ ~Blocks("known_exploited", in, Score(in)) /\ ~Blocks("module_advisories", in, Score(in))
    BY <2>1 DEF Blocks
  <2>3. ~Blocks("module_status", in, Score(in)) /\ ~Blocks("dependency_maintenance", in, Score(in))
    BY <1>2, <2>1 DEF Blocks, CouldBeArchived
  <2> QED
    BY <2>2, <2>3 DEF PendingOrder
<1>5. res.pending = "none" /\ res.letter = Band(Score(in))
  <2> HIDE DEF in
  <2>1. PendingFor(in, Score(in)) = "none"
    BY <1>4, PendingIs
  <2> QED
    BY <2>1 DEF GradeOnce
<1>6. Grade(raw) = [res EXCEPT !.estimated = estimated # {} /\ Differs(in, res.letter, estimated)]
  <2> HIDE DEF raw, in
  <2>1. Grade(raw) = IF res.pending # "none" THEN res
                     ELSE IF failed # {} /\ Differs(in, res.letter, failed)
                          THEN [res EXCEPT !.letter = NoLetter, !.pending = "severity_lookup"]
                          ELSE [res EXCEPT !.estimated = estimated # {} /\ Differs(in, res.letter, estimated)]
    BY <1>1, Zenon DEF Grade
  <2> QED
    BY <1>3, <1>5, <2>1, Zenon
<1>7. Grade(raw).letter = res.letter
  BY <1>6 DEF GradeOnce
<1> QED
  BY <1>5, <1>7 DEF LetterOf

(* A tree in which nothing is listed twice is graded as it is.             *)
Whole(M, V) ==
  {R \in Trees(M, V) : \A r \in R : ~r.missing /\ \A f \in r.findings : ~f.failed}

(* The letter of a tree in which every check is answered.                  *)
LEMMA WholeIs ==
  ASSUME NEW M, NEW V, NEW R \in Whole(M, V)
  PROVE  /\ R \in Trees(M, V) /\ AllAnswered(R).rows = R /\ ~AllAnswered(R).mismatch
         /\ Score(AllAnswered(R)) \in 0..100
         /\ LetterOf(R) = Band(Score(AllAnswered(R)))
<1>1. R \in Trees(M, V) /\ \A r \in R : ~r.missing /\ \A f \in r.findings : ~f.failed
  BY DEF Whole
<1>2. R \in Scans(M, V)
  BY <1>1 DEF Trees, Scans, OneEach
<1>3. ASSUME NEW r \in R PROVE MergedRow(r) = r
  <2>1. r \in RowsOver(M, V) /\ OneEach(r.findings)
    BY <1>1 DEF Trees
  <2>2. r.findings \in SUBSET FindingsOver(V) /\ IsFiniteSet(r.findings)
    BY <2>1, RowIs
  <2>3. MergeAdvisories(r.findings) = r.findings
    BY <1>1, <2>1, <2>2, MergedAlone
  <2>4. MergedRow(r) = [r EXCEPT !.findings = MergeAdvisories(r.findings)]
    BY DEF MergedRow
  <2> QED
    BY <2>1, <2>3, <2>4 DEF RowsOver
<1>4. Merged(R) = R
  BY <1>3 DEF Merged
<1>5. LetterOf(R) = Band(Score(AllAnswered(R)))
  BY <1>1, <1>2, <1>4, LetterIs
<1>6. AllAnswered(R).rows = R /\ ~AllAnswered(R).mismatch
  BY DEF AllAnswered
<1>7. Score(AllAnswered(R)) \in 0..100
  BY <1>1, <1>6, ScoreIs
<1> QED
  BY <1>1, <1>5, <1>6, <1>7

-----------------------------------------------------------------------------
(* The rows of a shape.                                                    *)

Places == Deps \X Kinds \X (1..MaxFindings)
Here == Deps \cup {NewModule}

(* Two kinds number no finding alike.                                      *)
LEMMA Numbered ==
  ASSUME NEW k \in Nat, NEW j \in Nat, NEW n \in 0..MaxFindings, NEW m \in 0..MaxFindings,
         k * (MaxFindings + 1) + n = j * (MaxFindings + 1) + m
  PROVE  k = j /\ n = m
<1> DEFINE N == MaxFindings + 1
<1>1. N \in Nat /\ n < N /\ m < N
  BY ShapesAssumption
<1>2. ASSUME NEW a \in Nat, NEW b \in Nat, a < b PROVE a * N + N <= b * N
  <2> HIDE DEF N
  <2>1. PICK e \in Nat : b = a + 1 + e
    <3>1. b - a - 1 \in Nat /\ b = a + 1 + (b - a - 1)
      BY <1>2
    <3> QED
      BY <3>1
  <2>2. b * N = a * N + N + e * N /\ e * N \in Nat /\ a * N \in Nat
    BY <1>1, <2>1
  <2> QED
    BY <1>1, <2>2
<1>3. k * N \in Nat /\ j * N \in Nat /\ k * N + n = j * N + m
  BY <1>1
<1> HIDE DEF N
<1>4. ~(k < j) /\ ~(j < k)
  BY <1>1, <1>2, <1>3
<1>5. k = j
  BY <1>4
<1> QED
  BY <1>3, <1>5

(* A finding of the tree.                                                  *)
LEMMA FindingIs ==
  ASSUME NEW k \in Kinds, NEW n \in 0..MaxFindings, NEW v \in Places
  PROVE  /\ FindingOf(k, n, v) \in FindingsOver(Places)
         /\ FindingOf(k, n, v).vuln = v /\ FindingOf(k, n, v).id = k * (MaxFindings + 1) + n
         /\ FindingOf(k, n, v).severity = KindAt[k].severity
         /\ FindingOf(k, n, v).severity \in Severities
         /\ FindingOf(k, n, v).reach = KindAt[k].reach
         /\ FindingOf(k, n, v).exploited = KindAt[k].exploited
         /\ FindingOf(k, n, v).failed = FALSE
<1>1. k \in Nat /\ MaxFindings \in Nat
      /\ KindAt[k] \in [severity : Severities, reach : {"called", "imported", "required", "none"},
                        exploited : BOOLEAN]
  BY ShapesAssumption DEF Kinds
<1>2. k * (MaxFindings + 1) + n \in Nat
  BY <1>1
<1>3. /\ KindAt[k].severity \in Severities /\ KindAt[k].reach \in Reaches
      /\ KindAt[k].exploited \in BOOLEAN
  BY <1>1 DEF Reaches
<1> QED
  <2> HIDE DEF Places
  <2> QED
    BY <1>2, <1>3 DEF FindingOf, FindingsOver

RowFor(fd, ar, d) ==
  [module |-> d, self |-> FALSE, testOnly |-> d \in TestOnly,
   notBuilt |-> FALSE, archived |-> d \in ar, missing |-> FALSE, unread |-> FALSE,
   findings |-> {FindingOf(s[2], s[3], s) : s \in {t \in Slots(fd) : t[1] = d}}]

(* The row of a dependency.                                                *)
LEMMA RowForIs ==
  ASSUME NEW fd, NEW ar, NEW d \in Deps
  PROVE  /\ RowFor(fd, ar, d) \in RowsOver(Here, Places)
         /\ RowFor(fd, ar, d).module = d /\ ~RowFor(fd, ar, d).self
         /\ (RowFor(fd, ar, d).testOnly <=> d \in TestOnly) /\ ~RowFor(fd, ar, d).notBuilt
         /\ (RowFor(fd, ar, d).archived <=> d \in ar) /\ ~RowFor(fd, ar, d).missing
         /\ OneEach(RowFor(fd, ar, d).findings)
         /\ \A f : f \in RowFor(fd, ar, d).findings <=>
                     \E s \in Slots(fd) : s[1] = d /\ f = FindingOf(s[2], s[3], s)
<1> DEFINE mine == {t \in Slots(fd) : t[1] = d}
           finding == [s \in mine |-> FindingOf(s[2], s[3], s)]
           F == {FindingOf(s[2], s[3], s) : s \in mine}
<1>1. \A s \in Slots(fd) : /\ s \in Places /\ s[1] \in Deps /\ s[2] \in Kinds
                           /\ s[3] \in 1..MaxFindings /\ s = <<s[1], s[2], s[3]>>
  BY DEF Slots, Places
<1>2. ASSUME NEW s \in mine PROVE FindingOf(s[2], s[3], s) \in FindingsOver(Places)
  <2>1. s \in Places /\ s[2] \in Kinds /\ s[3] \in 0..MaxFindings
    BY <1>1
  <2> QED
    BY <2>1, FindingIs
<1>3. IsFiniteSet(Places)
  <2>1. IsFiniteSet(1..MaxFindings)
    BY ShapesAssumption, FS_Interval
  <2>2. IsFiniteSet(Deps) /\ IsFiniteSet(Kinds)
    BY ShapesAssumption DEF Kinds
  <2>3. IsFiniteSet(Deps \X Kinds)
    BY <2>2, FS_Product
  <2>4. IsFiniteSet((Deps \X Kinds) \X (1..MaxFindings))
    BY <2>1, <2>3, FS_Product
  <2> DEFINE T == (Deps \X Kinds) \X (1..MaxFindings)
             R == {p \in Places \X T : p[1] = <<p[2][1][1], p[2][1][2], p[2][2]>>}
  <2>5. ASSUME NEW s \in Places PROVE \E t \in T : <<s, t>> \in R
    <3>1. s = <<s[1], s[2], s[3]>> /\ s[1] \in Deps /\ s[2] \in Kinds /\ s[3] \in 1..MaxFindings
      BY DEF Places
    <3>2. <<<<s[1], s[2]>>, s[3]>> \in T
      BY <3>1
    <3> QED
      BY <3>1, <3>2
  <2>6. \A s \in Places, u \in Places, t \in T : <<s, t>> \in R /\ <<u, t>> \in R => s = u
    BY DEF Places
  <2> HIDE DEF R
  <2> QED
    BY <2>4, <2>5, <2>6, NoFewer
<1>4. IsFiniteSet(F)
  <2>1. F = {finding[s] : s \in DOMAIN finding}
    BY Zenon
  <2>2. mine \subseteq Places
    BY <1>1
  <2>3. IsFiniteSet(DOMAIN finding)
    BY <1>3, <2>2, FS_Subset
  <2> HIDE DEF finding
  <2> QED
    BY <2>1, <2>3, ImageIsFinite
<1>5. OneEach(F)
  <2> SUFFICES ASSUME NEW s \in mine, NEW t \in mine,
                      \/ FindingOf(s[2], s[3], s).vuln = FindingOf(t[2], t[3], t).vuln
                      \/ FindingOf(s[2], s[3], s).id = FindingOf(t[2], t[3], t).id
               PROVE  s = t
    BY DEF OneEach
  <2>1. /\ s[2] \in Kinds /\ s[3] \in 0..MaxFindings /\ s = <<d, s[2], s[3]>> /\ s \in Places
        /\ t[2] \in Kinds /\ t[3] \in 0..MaxFindings /\ t = <<d, t[2], t[3]>> /\ t \in Places
    BY <1>1
  <2>2. /\ FindingOf(s[2], s[3], s).vuln = s /\ FindingOf(t[2], t[3], t).vuln = t
        /\ FindingOf(s[2], s[3], s).id = s[2] * (MaxFindings + 1) + s[3]
        /\ FindingOf(t[2], t[3], t).id = t[2] * (MaxFindings + 1) + t[3]
    BY <2>1, FindingIs
  <2>3. s[2] \in Nat /\ t[2] \in Nat
    BY <2>1, ShapesAssumption DEF Kinds
  <2>4. CASE FindingOf(s[2], s[3], s).id = FindingOf(t[2], t[3], t).id
    <3>1. s[2] * (MaxFindings + 1) + s[3] = t[2] * (MaxFindings + 1) + t[3]
      BY <2>2, <2>4
    <3>2. s[2] = t[2] /\ s[3] = t[3]
      BY <2>1, <2>3, <3>1, Numbered
    <3> QED
      BY <2>1, <3>2
  <2> QED
    BY <2>2, <2>4
<1>6. RowFor(fd, ar, d) = [module |-> d, self |-> FALSE, testOnly |-> d \in TestOnly,
                           notBuilt |-> FALSE, archived |-> d \in ar, missing |-> FALSE,
                           unread |-> FALSE, findings |-> F]
  BY Zenon DEF RowFor
<1>7. \A f : f \in F <=> \E s \in Slots(fd) : s[1] = d /\ f = FindingOf(s[2], s[3], s)
  OBVIOUS
<1>8. F \in SUBSET FindingsOver(Places)
  BY <1>2
<1> HIDE DEF F
<1>9. RowFor(fd, ar, d) \in RowsOver(Here, Places)
  BY <1>4, <1>6, <1>8 DEF RowsOver, Here
<1>10. RowFor(fd, ar, d).findings = F
  BY <1>6
<1>11. /\ RowFor(fd, ar, d).module = d /\ ~RowFor(fd, ar, d).self
       /\ RowFor(fd, ar, d).testOnly = (d \in TestOnly) /\ ~RowFor(fd, ar, d).notBuilt
       /\ RowFor(fd, ar, d).archived = (d \in ar) /\ ~RowFor(fd, ar, d).missing
  BY <1>6
<1> QED
  BY <1>5, <1>7, <1>9, <1>10, <1>11

(* The rows are a tree, in which every check is answered.                  *)
LEMMA ShapeRowsIs ==
  ASSUME NEW fd, NEW ar
  PROVE  /\ \A d \in Deps : RowFor(fd, ar, d) \in ShapeRows(fd, ar)
         /\ \A r \in ShapeRows(fd, ar) : r.module \in Deps /\ r = RowFor(fd, ar, r.module)
         /\ ShapeRows(fd, ar) \in Whole(Here, Places)
<1> DEFINE row == [d \in Deps |-> RowFor(fd, ar, d)]
<1>1. ShapeRows(fd, ar) = {RowFor(fd, ar, d) : d \in Deps}
  BY Zenon DEF ShapeRows, RowFor
<1>2. \A r \in ShapeRows(fd, ar) : r.module \in Deps /\ r = RowFor(fd, ar, r.module)
  BY <1>1, RowForIs
<1>3. IsFiniteSet(ShapeRows(fd, ar))
  <2>1. ShapeRows(fd, ar) = {row[d] : d \in DOMAIN row}
    BY <1>1, Zenon
  <2>2. IsFiniteSet(DOMAIN row)
    BY ShapesAssumption
  <2> HIDE DEF row
  <2> QED
    BY <2>1, <2>2, ImageIsFinite
<1>4. OfModules(ShapeRows(fd, ar))
  BY <1>2 DEF OfModules
<1>5. \A r \in ShapeRows(fd, ar) :
        r \in RowsOver(Here, Places) /\ OneEach(r.findings) /\ ~r.missing
  BY <1>2, RowForIs
<1>6. ASSUME NEW d \in Deps, NEW f \in RowFor(fd, ar, d).findings PROVE ~f.failed
  <2>1. PICK s \in Slots(fd) : s[1] = d /\ f = FindingOf(s[2], s[3], s)
    BY RowForIs
  <2>2. s \in Places /\ s[2] \in Kinds /\ s[3] \in 0..MaxFindings
    BY DEF Slots, Places
  <2> QED
    BY <2>1, <2>2, FindingIs
<1> QED
  BY <1>1, <1>2, <1>3, <1>4, <1>5, <1>6 DEF Whole, Trees

ShapesInv ==
  /\ found \in [Deps -> [Kinds -> Nat]]
  /\ letter = LetterOf(Rows)

(* The letter is always the one of the tree.                               *)
LEMMA ShapesInvHolds == ShapesSpec => []ShapesInv
<1>1. ShapesInit => ShapesInv
  BY DEF ShapesInit, ShapesInv
<1>2. ShapesInv /\ [ShapesNext]_shapesVars => ShapesInv'
  <2> SUFFICES ASSUME ShapesInv, [ShapesNext]_shapesVars PROVE ShapesInv'
    OBVIOUS
  <2>1. ASSUME NEW d \in Deps, NEW k \in Kinds, AddFinding(d, k) PROVE ShapesInv'
    <3>1. found \in [Deps -> [Kinds -> Nat]] /\ found[d] \in [Kinds -> Nat]
      BY DEF ShapesInv
    <3>2. [found[d] EXCEPT ![k] = found[d][k] + 1] \in [Kinds -> Nat]
      BY <3>1
    <3>3. found' \in [Deps -> [Kinds -> Nat]]
      BY <2>1, <3>1, <3>2 DEF AddFinding
    <3>4. letter' = LetterOf(Rows')
      BY <2>1 DEF AddFinding, Rows
    <3> QED
      BY <3>3, <3>4 DEF ShapesInv
  <2>2. ASSUME NEW d \in Deps \ archived, Archive(d) PROVE ShapesInv'
    BY <2>2 DEF Archive, ShapesInv, Rows
  <2>3. CASE UNCHANGED shapesVars
    BY <2>3 DEF shapesVars, ShapesInv, Rows
  <2> QED
    BY <2>1, <2>2, <2>3 DEF ShapesNext
<1> QED
  BY <1>1, <1>2, PTL DEF ShapesSpec

(* A tree with more findings and more archived modules is no better.       *)
LEMMA MoreFindings ==
  ASSUME NEW fd, NEW more, Slots(fd) \subseteq Slots(more), NEW ar, NEW br, ar \subseteq br
  PROVE  LetterOf(ShapeRows(fd, ar)) <= LetterOf(ShapeRows(more, br))
<1> DEFINE in == AllAnswered(ShapeRows(fd, ar))
           up == AllAnswered(ShapeRows(more, br))
<1>1. /\ ShapeRows(fd, ar) \in Whole(Here, Places)
      /\ ShapeRows(more, br) \in Whole(Here, Places)
  BY ShapeRowsIs
<1>2. /\ in.rows \in Trees(Here, Places) /\ in.rows = ShapeRows(fd, ar) /\ ~in.mismatch
      /\ up.rows \in Trees(Here, Places) /\ up.rows = ShapeRows(more, br)
      /\ Score(in) \in Nat /\ Score(up) \in Nat
      /\ LetterOf(ShapeRows(fd, ar)) = Band(Score(in))
      /\ LetterOf(ShapeRows(more, br)) = Band(Score(up))
  BY <1>1, WholeIs
<1>3. ASSUME NEW r \in in.rows PROVE \E q \in up.rows : NoLess(q, r)
  <2> DEFINE d == r.module
             q == RowFor(more, br, d)
  <2>1. d \in Deps /\ r = RowFor(fd, ar, d)
    BY <1>2, ShapeRowsIs
  <2> HIDE DEF d
  <2>2. q \in up.rows
    BY <1>2, <2>1, ShapeRowsIs
  <2>3. r.findings \subseteq q.findings
    BY <2>1, RowForIs
  <2>4. /\ ~r.self /\ ~q.self /\ r.testOnly = q.testOnly /\ ~r.notBuilt /\ ~q.notBuilt
        /\ r.module = d /\ q.module = d /\ (r.archived => q.archived)
        /\ r \in RowsOver(Here, Places) /\ q \in RowsOver(Here, Places)
    <3>1. /\ ~r.self /\ (r.testOnly <=> d \in TestOnly) /\ ~r.notBuilt /\ r.module = d
          /\ (r.archived <=> d \in ar) /\ r \in RowsOver(Here, Places)
      BY <2>1, RowForIs
    <3>2. /\ ~q.self /\ (q.testOnly <=> d \in TestOnly) /\ ~q.notBuilt /\ q.module = d
          /\ (q.archived <=> d \in br) /\ q \in RowsOver(Here, Places)
      BY <2>1, RowForIs
    <3>3. r.archived => q.archived
      BY <3>1, <3>2
    <3>4. r.testOnly = q.testOnly
      BY <3>1, <3>2, RowIs
    <3> QED
      BY <3>1, <3>2, <3>3, <3>4
  <2>5. r.self = q.self /\ r.notBuilt = q.notBuilt
    BY <2>4, RowIs
  <2>6. \A f \in r.findings : f \in FindingsOver(Places)
    BY <2>4, RowIs
  <2>7. Covers(q, r)
    <3> SUFFICES ASSUME NEW f \in Called(r) \cup Imported(r)
                 PROVE  \E g \in q.findings : Lighter(f, r, g, q)
      BY DEF Covers
    <3>1. f \in r.findings /\ f \in FindingsOver(Places)
      BY <2>6 DEF Called, Imported, InTier
    <3>2. TierOf(f, r) = TierOf(f, q)
      BY <2>4 DEF TierOf
    <3>3. CalledScore[SeverityOf(f)] <= CalledScore[SeverityOf(f)]
      BY <3>1, SeveritiesOf
    <3>4. Lighter(f, r, f, q)
      BY <2>3, <3>1, <3>2, <3>3 DEF Lighter, Called, Imported, InTier
    <3> QED
      BY <2>3, <3>1, <3>4
  <2> QED
    BY <2>2, <2>4, <2>5, <2>7 DEF NoLess, SameModule
<1> HIDE DEF in, up
<1>4. Score(in) <= Score(up)
  BY <1>2, <1>3, ScoreGrowsByRows
<1> QED
  BY <1>2, <1>4, Bands

(* No step makes the letter better.                                        *)
LEMMA WorseStep == ShapesInv /\ ShapesInv' /\ [ShapesNext]_shapesVars => letter <= letter'
<1> SUFFICES ASSUME ShapesInv, ShapesInv', [ShapesNext]_shapesVars PROVE letter <= letter'
  OBVIOUS
<1>1. letter = LetterOf(ShapeRows(found, archived)) /\ letter' = LetterOf(ShapeRows(found', archived'))
  BY DEF ShapesInv, Rows
<1>2. archived \subseteq archived'
  BY DEF ShapesNext, AddFinding, Archive, shapesVars
<1>3. Slots(found) \subseteq Slots(found')
  <2>1. ASSUME NEW d \in Deps, NEW k \in Kinds, AddFinding(d, k) PROVE Slots(found) \subseteq Slots(found')
    <3>1. found \in [Deps -> [Kinds -> Nat]]
      BY DEF ShapesInv
    <3>2. found' = [found EXCEPT ![d] = [found[d] EXCEPT ![k] = found[d][k] + 1]]
      BY <2>1 DEF AddFinding
    <3>3. \A e \in Deps, l \in Kinds : found[e][l] \in Nat /\ found'[e][l] \in {found[e][l], found[e][l] + 1}
      BY <3>1, <3>2
    <3>4. \A s \in Slots(found) : s[1] \in Deps /\ s[2] \in Kinds /\ s[3] \in 1..MaxFindings
      BY DEF Slots
    <3>5. ASSUME NEW s \in Slots(found) PROVE s[3] <= found'[s[1]][s[2]]
      <4>1. s[3] <= found[s[1]][s[2]]
        BY DEF Slots
      <4> QED
        BY <3>3, <3>4, <4>1
    <3> QED
      BY <3>5 DEF Slots
  <2>2. CASE UNCHANGED found
    BY <2>2
  <2> QED
    BY <2>1, <2>2 DEF ShapesNext, Archive, shapesVars
<1> QED
  BY <1>1, <1>2, <1>3, MoreFindings

(* One more vulnerability, or an archived module, never makes the letter   *)
(* better, of any tree.                                                    *)
THEOREM WorseNeverHelpsHolds == ShapesSpec => WorseNeverHelps
<1>1. ShapesInv /\ ShapesInv' /\ [ShapesNext]_shapesVars => [letter <= letter']_shapesVars
  BY WorseStep
<1> QED
  BY <1>1, ShapesInvHolds, PTL DEF ShapesSpec, WorseNeverHelps

(* A finding of a shape.                                                   *)
LEMMA InShape ==
  ASSUME NEW fd, NEW ar, NEW r \in ShapeRows(fd, ar), NEW f \in r.findings
  PROVE  /\ r \in RowsOver(Here, Places) /\ OneEach(r.findings) /\ r.module \in Deps
         /\ f \in FindingsOver(Places) /\ f.severity \in Severities /\ ~f.failed
         /\ f.vuln \in Places /\ f.vuln[2] \in Kinds
         /\ f.severity = KindAt[f.vuln[2]].severity /\ f.reach = KindAt[f.vuln[2]].reach
         /\ f.exploited = KindAt[f.vuln[2]].exploited
         /\ \E n \in 1..MaxFindings : f.id = f.vuln[2] * (MaxFindings + 1) + n
<1>1. /\ r.module \in Deps /\ r = RowFor(fd, ar, r.module)
      /\ r \in RowsOver(Here, Places) /\ OneEach(r.findings)
  BY ShapeRowsIs, RowForIs
<1>2. PICK s \in Slots(fd) : f = FindingOf(s[2], s[3], s)
  BY <1>1, RowForIs
<1>3. s \in Places /\ s[2] \in Kinds /\ s[3] \in 0..MaxFindings /\ s[3] \in 1..MaxFindings
  BY DEF Slots, Places
<1>4. /\ f.vuln = s /\ f.severity = KindAt[s[2]].severity /\ f.severity \in Severities
      /\ f.reach = KindAt[s[2]].reach /\ f.exploited = KindAt[s[2]].exploited /\ f.failed = FALSE
      /\ f.id = s[2] * (MaxFindings + 1) + s[3] /\ f \in FindingsOver(Places)
  BY <1>2, <1>3, FindingIs
<1> QED
  BY <1>1, <1>3, <1>4

(* A group in which one finding says the most says what that one does.     *)
LEMMA MostOf ==
  ASSUME NEW V, NEW G \in SUBSET FindingsOver(V), NEW f \in G,
         \A g \in G : /\ g.vuln = f.vuln
                      /\ SeverityRank[g.severity] <= SeverityRank[f.severity]
                      /\ ReachRank[g.reach] <= ReachRank[f.reach]
                      /\ g.exploited => f.exploited
  PROVE  /\ MergeGroup(G) \in FindingsOver(V)
         /\ MergeGroup(G).vuln = f.vuln /\ MergeGroup(G).severity = f.severity
         /\ MergeGroup(G).reach = f.reach /\ (MergeGroup(G).exploited <=> f.exploited)
<1> DEFINE m == MergeGroup(G)
<1>1. G # {} /\ \A g, h \in G : g.vuln = h.vuln
  OBVIOUS
<1>2. /\ m \in FindingsOver(V) /\ \A g \in G : m.vuln = g.vuln
      /\ \E g \in G : m.severity = g.severity
      /\ \A g \in G : SeverityRank[g.severity] <= SeverityRank[m.severity]
      /\ \E g \in G : m.reach = g.reach
      /\ \A g \in G : ReachRank[g.reach] <= ReachRank[m.reach]
      /\ m.exploited = (\E g \in G : g.exploited)
  BY <1>1, MergeGroupIs, Zenon
<1> HIDE DEF m
<1>3. \A g \in G : g.severity \in Severities \cup {"NONE"} /\ g.reach \in Reaches
  BY DEF FindingsOver
<1>4. m.severity = f.severity
  <2>1. PICK g \in G : m.severity = g.severity
    BY <1>2
  <2>2. SeverityRank[g.severity] <= SeverityRank[f.severity]
        /\ SeverityRank[f.severity] <= SeverityRank[g.severity]
    BY <1>2, <2>1
  <2> QED
    BY <1>3, <2>1, <2>2, Ranks
<1>5. m.reach = f.reach
  <2>1. PICK g \in G : m.reach = g.reach
    BY <1>2
  <2>2. ReachRank[g.reach] <= ReachRank[f.reach] /\ ReachRank[f.reach] <= ReachRank[g.reach]
    BY <1>2, <2>1
  <2> QED
    BY <1>3, <2>1, <2>2, Ranks
<1>6. m.exploited <=> f.exploited
  BY <1>2
<1> QED
  BY <1>2, <1>4, <1>5, <1>6 DEF m

(* Two findings that differ in their identifier or their failed lookup.    *)
Alike(f, g) ==
  f.vuln = g.vuln /\ f.severity = g.severity /\ f.reach = g.reach /\ (f.exploited <=> g.exploited)

(* Rows with like findings cover one another.                              *)
LEMMA AlikeCovers ==
  ASSUME NEW M, NEW V, NEW r \in RowsOver(M, V), NEW q \in RowsOver(M, V), SameModule(q, r),
         \A f \in r.findings : \E g \in q.findings : Alike(f, g)
  PROVE  Covers(q, r)
<1> SUFFICES ASSUME NEW f \in Called(r) \cup Imported(r) PROVE \E g \in q.findings : Lighter(f, r, g, q)
  BY DEF Covers
<1>1. f \in r.findings /\ f \in FindingsOver(V)
  BY RowIs DEF Called, Imported, InTier
<1>2. PICK g \in q.findings : Alike(f, g)
  BY <1>1
<1>3. TierOf(f, r) = TierOf(g, q)
  BY <1>2 DEF TierOf, Alike, SameModule
<1>4. SeverityOf(f) = SeverityOf(g)
  BY <1>2 DEF SeverityOf, Alike
<1>5. CalledScore[SeverityOf(f)] <= CalledScore[SeverityOf(g)]
  BY <1>1, <1>4, SeveritiesOf
<1>6. Lighter(f, r, g, q)
  BY <1>1, <1>2, <1>3, <1>5 DEF Lighter, Alike, Called, Imported, InTier
<1> QED
  BY <1>6

(* Trees that match one another row by row have one score.                 *)
LEMMA SameByRows ==
  ASSUME NEW M, NEW V, NEW R \in Trees(M, V), NEW Q \in Trees(M, V),
         \A r \in R : \E q \in Q : NoLess(q, r), \A q \in Q : \E r \in R : NoLess(r, q)
  PROVE  Score(AllAnswered(R)) = Score(AllAnswered(Q))
<1>1. /\ AllAnswered(R).rows = R /\ ~AllAnswered(R).mismatch
      /\ AllAnswered(Q).rows = Q /\ ~AllAnswered(Q).mismatch
  BY DEF AllAnswered
<1> DEFINE in == AllAnswered(R)
           up == AllAnswered(Q)
<1> HIDE DEF in, up
<1>2. /\ in.rows = R /\ ~in.mismatch /\ up.rows = Q /\ ~up.mismatch
  BY <1>1 DEF in, up
<1>3. Score(in) <= Score(up)
  BY <1>2, ScoreGrowsByRows
<1>4. Score(up) <= Score(in)
  BY <1>2, ScoreGrowsByRows
<1>5. Score(in) \in Nat /\ Score(up) \in Nat
  BY <1>2, ScoreIs
<1> QED
  BY <1>3, <1>4, <1>5 DEF in, up

(* A row is no less than itself.                                           *)
LEMMA NoLessThanItself ==
  ASSUME NEW M, NEW V, NEW r \in RowsOver(M, V)
  PROVE  NoLess(r, r)
<1>1. SameModule(r, r) /\ \A f \in r.findings : Alike(f, f)
  BY DEF SameModule, Alike
<1> QED
  BY <1>1, AlikeCovers DEF NoLess

(* A second listing that says nothing worse leaves the letter alone.       *)
LEMMA ListedTwice ==
  ASSUME NEW fd, NEW ar, NEW r \in ShapeRows(fd, ar), NEW f \in r.findings,
         NEW j \in Kinds, Weaker(j, f.vuln[2])
  PROVE  LetterOf({[r EXCEPT !.findings = @ \cup {FindingOf(j, 0, f.vuln)}]}
                  \cup (ShapeRows(fd, ar) \ {r}))
           = LetterOf(ShapeRows(fd, ar))
<1> DEFINE R == ShapeRows(fd, ar)
           x == FindingOf(j, 0, f.vuln)
           F == r.findings \cup {x}
           listed == [r EXCEPT !.findings = @ \cup {x}]
           Q == {listed} \cup (R \ {r})
<1>1. R \in Whole(Here, Places) /\ R \in Trees(Here, Places)
  BY ShapeRowsIs, WholeIs
<1>2. /\ r \in RowsOver(Here, Places) /\ OneEach(r.findings) /\ IsFiniteSet(R)
      /\ r.findings \in SUBSET FindingsOver(Places) /\ IsFiniteSet(r.findings)
  BY InShape, RowIs, <1>1 DEF Trees
<1>3. 0 \in 0..MaxFindings /\ f.vuln \in Places
  BY InShape, ShapesAssumption
<1>4. /\ x \in FindingsOver(Places) /\ x.vuln = f.vuln /\ x.id = j * (MaxFindings + 1) + 0
      /\ x.severity = KindAt[j].severity /\ x.severity \in Severities /\ x.reach = KindAt[j].reach
      /\ x.exploited = KindAt[j].exploited /\ ~x.failed
  BY <1>3, FindingIs
<1>5. /\ SeverityRank[x.severity] <= SeverityRank[f.severity]
      /\ ReachRank[x.reach] <= ReachRank[f.reach] /\ (x.exploited => f.exploited)
  BY <1>4, InShape DEF Weaker
<1>6. ASSUME NEW g \in r.findings PROVE g.id # x.id
  <2>1. PICK n \in 1..MaxFindings : g.id = g.vuln[2] * (MaxFindings + 1) + n
    BY InShape
  <2>2. g.vuln[2] \in Nat /\ j \in Nat /\ n \in 0..MaxFindings /\ n # 0
    BY InShape, ShapesAssumption DEF Kinds
  <2> QED
    BY <1>3, <1>4, <2>1, <2>2, Numbered
<1>7. F \in SUBSET FindingsOver(Places) /\ IsFiniteSet(F)
  BY <1>2, <1>4, FS_AddElement
<1>8. \A g \in F, h \in F : g.id = h.id => g = h
  BY <1>2, <1>6 DEF OneEach
<1>9. /\ listed = [r EXCEPT !.findings = F] /\ listed.findings = F /\ listed.module = r.module
      /\ listed \in RowsOver(Here, Places) /\ ~listed.missing /\ SameModule(listed, r)
      /\ listed.archived = r.archived
  <2>1. listed = [r EXCEPT !.findings = F]
    OBVIOUS
  <2>2. ~r.missing
    BY <1>1 DEF Whole
  <2> HIDE DEF F, listed
  <2> QED
    BY <1>2, <1>7, <2>1, <2>2 DEF RowsOver, SameModule
<1> HIDE DEF F, listed, x
<1>10. Q \in Scans(Here, Places)
  <2>1. IsFiniteSet(Q)
    <3>1. IsFiniteSet(R \ {r})
      BY <1>2, FS_RemoveElement
    <3>2. Q = (R \ {r}) \cup {listed}
      OBVIOUS
    <3> HIDE DEF Q
    <3> QED
      BY <3>1, <3>2, FS_AddElement
  <2>2. OfModules(Q)
    <3>1. \A q, w \in R : q.module = w.module => q = w
      BY <1>1 DEF OfModules, Trees
    <3>2. \A q \in Q : q = listed \/ (q \in R /\ q # r)
      BY Zenon
    <3>3. r \in R /\ listed.module = r.module
      BY <1>9
    <3> HIDE DEF Q
    <3>4. ASSUME NEW q \in Q, NEW w \in Q, q.module = w.module PROVE q = w
      BY <3>1, <3>2, <3>3, <3>4
    <3> QED
      BY <3>4 DEF OfModules
  <2>3. Q \subseteq RowsOver(Here, Places)
    BY <1>1, <1>9 DEF Trees
  <2>4. \A q \in Q : \A g \in q.findings, h \in q.findings : g.id = h.id => g = h
    BY <1>1, <1>8, <1>9 DEF Trees, OneEach
  <2> QED
    BY <2>1, <2>2, <2>3, <2>4 DEF Scans
<1>11. \A q \in Q : ~q.missing /\ \A g \in q.findings : ~g.failed
  <2>1. \A g \in F : ~g.failed
    BY <1>1, <1>4 DEF F, Whole
  <2> QED
    BY <1>1, <1>9, <2>1 DEF Whole
<1>12. listed \in Q /\ (\A q \in R \ {r} : q \in Q) /\ \A q \in Q : q = listed \/ q \in R \ {r}
  OBVIOUS
<1> HIDE DEF Q
<1>13. LetterOf(Q) = Band(Score(AllAnswered(Merged(Q))))
  BY <1>10, <1>11, LetterIs
<1>14. Merged(Q) \in Trees(Here, Places)
  BY <1>10, MergedIs
<1>15. ASSUME NEW g \in r.findings
       PROVE  /\ MergeGroup(GroupOf(F, g.vuln)) \in MergeAdvisories(F)
              /\ Alike(g, MergeGroup(GroupOf(F, g.vuln))) /\ Alike(MergeGroup(GroupOf(F, g.vuln)), g)
  <2> DEFINE G == GroupOf(F, g.vuln)
  <2>1. MergeGroup(G) \in MergeAdvisories(F)
    BY <1>7, MergeIs DEF F
  <2>2. G \in SUBSET FindingsOver(Places) /\ g \in G
    BY <1>7 DEF GroupOf, F
  <2>3. \A h \in G : h = g \/ (h = x /\ g = f)
    BY <1>2, <1>4 DEF GroupOf, F, OneEach
  <2>4. g.severity \in Severities \cup {"NONE"} /\ g.reach \in Reaches /\ g \in FindingsOver(Places)
    BY <1>2 DEF FindingsOver
  <2>5. SeverityRank[g.severity] <= SeverityRank[g.severity] /\ ReachRank[g.reach] <= ReachRank[g.reach]
    BY <2>4, Ranks
  <2> HIDE DEF G
  <2>6. \A h \in G : /\ h.vuln = g.vuln
                     /\ SeverityRank[h.severity] <= SeverityRank[g.severity]
                     /\ ReachRank[h.reach] <= ReachRank[g.reach]
                     /\ h.exploited => g.exploited
    BY <1>4, <1>5, <2>3, <2>5
  <2>7. /\ MergeGroup(G).vuln = g.vuln /\ MergeGroup(G).severity = g.severity
        /\ MergeGroup(G).reach = g.reach /\ (MergeGroup(G).exploited <=> g.exploited)
    BY <2>2, <2>6, MostOf
  <2> QED
    BY <2>1, <2>7 DEF Alike, G
<1>16. \A m \in MergeAdvisories(F) : \E g \in r.findings : m = MergeGroup(GroupOf(F, g.vuln))
  <2> SUFFICES ASSUME NEW m \in MergeAdvisories(F)
               PROVE  \E g \in r.findings : m = MergeGroup(GroupOf(F, g.vuln))
    OBVIOUS
  <2>1. m = MergeGroup(GroupOf(F, m.vuln)) /\ GroupOf(F, m.vuln) # {}
    BY <1>7, MergeIs
  <2>2. PICK h \in F : h.vuln = m.vuln
    BY <2>1 DEF GroupOf
  <2>3. \E g \in r.findings : g.vuln = h.vuln
    BY <1>4 DEF F
  <2> QED
    BY <2>1, <2>2, <2>3
<1>17. MergedRow(listed) \in Merged(Q) /\ NoLess(MergedRow(listed), r) /\ NoLess(r, MergedRow(listed))
  <2> DEFINE q == MergedRow(listed)
  <2>1. listed \in Q
    BY <1>12
  <2>2. /\ q \in RowsOver(Here, Places) /\ q.findings = MergeAdvisories(F)
        /\ SameModule(q, listed) /\ q.archived = listed.archived
    <3>1. /\ MergedRow(listed) \in RowsOver(Here, Places)
          /\ MergedRow(listed).findings = MergeAdvisories(listed.findings)
          /\ SameModule(MergedRow(listed), listed)
          /\ MergedRow(listed).archived = listed.archived
      BY <1>10, <2>1, MergedRowIs
    <3> QED
      BY <1>9, <3>1
  <2>3. q \in Merged(Q)
    BY <2>1 DEF Merged
  <2> HIDE DEF q
  <2>4. SameModule(q, r) /\ SameModule(r, q) /\ q.archived = r.archived
    BY <1>9, <2>2 DEF SameModule
  <2>5. Covers(q, r)
    BY <1>2, <1>15, <2>2, <2>4, AlikeCovers
  <2>6. Covers(r, q)
    BY <1>2, <1>15, <1>16, <2>2, <2>4, AlikeCovers
  <2> QED
    BY <2>3, <2>4, <2>5, <2>6 DEF NoLess, q
<1>18. ASSUME NEW q \in R \ {r} PROVE q \in Merged(Q) /\ MergedRow(q) = q
  <2>1. q \in RowsOver(Here, Places) /\ OneEach(q.findings) /\ \A g \in q.findings : ~g.failed
    BY <1>1 DEF Whole, Trees
  <2>2. q.findings \in SUBSET FindingsOver(Places) /\ IsFiniteSet(q.findings)
    BY <2>1, RowIs
  <2>3. MergeAdvisories(q.findings) = q.findings
    BY <2>1, <2>2, MergedAlone
  <2>4. MergedRow(q) = [q EXCEPT !.findings = MergeAdvisories(q.findings)]
    BY DEF MergedRow
  <2>5. MergedRow(q) = q
    BY <2>1, <2>3, <2>4 DEF RowsOver
  <2> QED
    BY <1>12, <2>5 DEF Merged
<1>19. \A q \in R : \E m \in Merged(Q) : NoLess(m, q)
  BY <1>1, <1>17, <1>18, NoLessThanItself DEF Trees
<1>20. \A m \in Merged(Q) : \E q \in R : NoLess(q, m)
  <2> SUFFICES ASSUME NEW q \in Q PROVE \E p \in R : NoLess(p, MergedRow(q))
    BY DEF Merged
  <2>1. CASE q = listed
    BY <1>17, <2>1
  <2>2. CASE q \in R \ {r}
    BY <1>1, <1>18, <2>2, NoLessThanItself DEF Trees
  <2> QED
    BY <1>12, <2>1, <2>2
<1>21. Score(AllAnswered(R)) = Score(AllAnswered(Merged(Q)))
  <2> HIDE DEF R
  <2> QED
    BY <1>1, <1>14, <1>19, <1>20, SameByRows
<1>22. LetterOf(R) = Band(Score(AllAnswered(R)))
  BY <1>1, WholeIs
<1>23. LetterOf(Q) = LetterOf(R)
  BY <1>13, <1>21, <1>22
<1> QED
  BY <1>23 DEF Q, listed, x

(* A vulnerability counts once, however many databases list it.            *)
THEOREM ListedTwiceHolds == ShapesSpec => []ListedTwiceCountsOnce
<1>1. ShapesInv => ListedTwiceCountsOnce
  <2> SUFFICES ASSUME ShapesInv, NEW r \in Rows, NEW f \in r.findings,
                      NEW j \in Kinds, Weaker(j, f.vuln[2])
               PROVE  LetterOf({[r EXCEPT !.findings = @ \cup {FindingOf(j, 0, f.vuln)}]}
                               \cup (Rows \ {r})) = letter
    BY Zenon DEF ListedTwiceCountsOnce
  <2> QED
    BY ListedTwice DEF ShapesInv, Rows
<1> QED
  BY <1>1, ShapesInvHolds, PTL

(* A row's score is no less than that of any finding of it.                *)
LEMMA PointsCount ==
  ASSUME NEW M, NEW V, NEW r \in RowsOver(M, V), ~r.testOnly
  PROVE  /\ \A f \in Called(r) : CalledScore[SeverityOf(f)] <= RowScore(r)
         /\ \A f \in Imported(r) : ImportedScore[SeverityOf(f)] <= RowScore(r)
<1>1. /\ \A f \in Called(r) : CalledScore[SeverityOf(f)] <= CalledPoints(r)
      /\ \A f \in Imported(r) : ImportedScore[SeverityOf(f)] <= ImportedPoints(r)
      /\ CalledPoints(r) \in 0..90 /\ ImportedPoints(r) \in 0..50
  BY RowPoints
<1>2. /\ Worst(r) \in Nat /\ Full(r) \in Nat /\ Worst(r) <= Full(r)
      /\ CalledPoints(r) <= Worst(r) /\ ImportedPoints(r) <= Worst(r) /\ VulnScore(r) = Full(r)
  BY VulnScoreIs, VulnScoreParts
<1>3. VulnScore(r) <= RowScore(r) /\ RowScore(r) \in Nat
  BY RowScoreIs
<1>4. CalledPoints(r) <= RowScore(r) /\ ImportedPoints(r) <= RowScore(r)
  BY <1>1, <1>2, <1>3
<1>5. ASSUME NEW f \in Called(r) PROVE CalledScore[SeverityOf(f)] <= RowScore(r)
  <2>1. f \in FindingsOver(V)
    BY RowIs DEF Called, InTier
  <2>2. CalledScore[SeverityOf(f)] \in 15..90
    BY <2>1, SeveritiesOf
  <2> QED
    BY <1>1, <1>3, <1>4, <2>2
<1>6. ASSUME NEW f \in Imported(r) PROVE ImportedScore[SeverityOf(f)] <= RowScore(r)
  <2>1. f \in FindingsOver(V)
    BY RowIs DEF Imported, InTier
  <2>2. ImportedScore[SeverityOf(f)] \in 11..50
    BY <2>1, SeveritiesOf
  <2> QED
    BY <1>1, <1>3, <1>4, <2>2
<1> QED
  BY <1>5, <1>6

(* What a row weighs by itself when the tree is no F: the points of one of *)
(* its findings, or 75, which is a D as those of its worst finding are.    *)
LEMMA OwnWeight ==
  ASSUME NEW M, NEW V, NEW in, in.rows \in Trees(M, V), TreeScore(in) # TreeFScore,
         NEW r \in in.rows, ~r.testOnly, VulnScore(r) # 0
  PROVE  \/ \E f \in Called(r) : Band(VulnScore(r)) = Band(CalledScore[SeverityOf(f)])
         \/ \E f \in Imported(r) : Band(VulnScore(r)) = Band(ImportedScore[SeverityOf(f)])
<1>1. /\ ~Fatal(in.rows) /\ ~(Cardinality(Severe(in.rows, {"called"})) >= TreeCalledFindings)
  BY TreeScoreParts
<1>2. r \in RowsOver(M, V) /\ OneEach(r.findings) /\ r \in Counted(in.rows)
  BY DEF Trees, Counted
<1>3. \A f \in Called(r) : f \in FindingsOver(V) /\ f \in r.findings /\ ~f.exploited /\ SeverityOf(f) # "CRITICAL"
  BY <1>1, <1>2, RowIs DEF Fatal, Called, InTier
<1>4. /\ CalledPoints(r) \in 0..90 /\ ImportedPoints(r) \in 0..50 /\ Further(r) \in Nat
      /\ CalledPoints(r) = 0 \/ \E f \in Called(r) : CalledScore[SeverityOf(f)] = CalledPoints(r)
      /\ ImportedPoints(r) = 0
         \/ \E f \in Imported(r) : ImportedScore[SeverityOf(f)] = ImportedPoints(r)
      /\ \A f \in Called(r) : CalledScore[SeverityOf(f)] <= CalledPoints(r)
      /\ IsFiniteSet({f \in Called(r) : HighOrCritical(f)})
  BY <1>2, RowPoints
<1>5. Further(r) <= 2
  <2> DEFINE S == {f \in Called(r) : HighOrCritical(f)}
             T == Severe(in.rows, {"called"})
             Rel == {p \in S \X T : p[2] = <<r.module, p[1].id>>}
  <2>1. IsFiniteSet(T) /\ Cardinality(T) \in Nat
    BY SevereIs, FS_CardinalityType
  <2>2. ASSUME NEW f \in S PROVE \E t \in T : <<f, t>> \in Rel
    <3>1. f \in SevereOf(r, {"called"})
      BY DEF SevereOf, Called, InTier
    <3>2. <<r.module, f.id>> \in T
      BY <1>2, <3>1, SevereIs
    <3> HIDE DEF T
    <3> QED
      BY <3>2
  <2>3. \A f \in S, g \in S, t \in T : <<f, t>> \in Rel /\ <<g, t>> \in Rel => f = g
    <3> HIDE DEF T
    <3> QED
      BY <1>2, <1>3 DEF OneEach
  <2> HIDE DEF Rel, T
  <2>4. Cardinality(S) <= Cardinality(T)
    BY <2>1, <2>2, <2>3, NoFewer
  <2>5. ~(Cardinality(T) >= 3)
    BY <1>1 DEF TreeCalledFindings, T
  <2> QED
    BY <1>4, <2>1, <2>4, <2>5 DEF Further
<1>6. Further(r) > 1 => CalledPoints(r) = 70
  <2> SUFFICES ASSUME Further(r) > 1 PROVE CalledPoints(r) = 70
    OBVIOUS
  <2>1. {f \in Called(r) : HighOrCritical(f)} # {}
    BY FS_EmptySet DEF Further
  <2>2. PICK f \in Called(r) : HighOrCritical(f)
    BY <2>1
  <2>3. CalledPoints(r) >= 70
    BY <1>3, <1>4, <2>2, SeveritiesOf
  <2>4. PICK g \in Called(r) : CalledScore[SeverityOf(g)] = CalledPoints(r)
    BY <1>4, <2>3
  <2>5. SeverityOf(g) \in {"LOW", "MEDIUM", "HIGH"}
    BY <1>3, SeveritiesOf DEF Severities
  <2> QED
    BY <2>3, <2>4, <2>5, Tables
<1>7. VulnScore(r) = Smaller(Larger(CalledPoints(r) + Bonus(r), ImportedPoints(r)), 100)
  BY <1>3, VulnScoreParts DEF Full, Worst
<1>8. (Further(r) <= 1 /\ Bonus(r) = 0) \/ (Further(r) = 2 /\ Bonus(r) = 5)
  BY <1>4, <1>5 DEF Bonus, FurtherAdvisoryAdd
<1>9. \/ VulnScore(r) = ImportedPoints(r)
      \/ VulnScore(r) = CalledPoints(r)
      \/ VulnScore(r) = 75 /\ CalledPoints(r) = 70
  BY <1>4, <1>6, <1>7, <1>8 DEF Smaller, Larger
<1>10. Band(75) = Band(70)
  BY DEF Band
<1> QED
  BY <1>4, <1>9, <1>10

(* However the findings of a dependency are shared out.                    *)
LEMMA SplitInTwo ==
  ASSUME NEW fd, NEW ar, NEW r \in ShapeRows(fd, ar), ~r.testOnly, NEW part \in SUBSET r.findings
  PROVE  LetterOf(ShapeRows(fd, ar))
           <= LetterOf({[r EXCEPT !.findings = part],
                        [r EXCEPT !.findings = @ \ part, !.module = NewModule]}
                       \cup (ShapeRows(fd, ar) \ {r}))
<1> DEFINE R == ShapeRows(fd, ar)
           rest == r.findings \ part
           a == [r EXCEPT !.findings = part]
           b == [r EXCEPT !.findings = @ \ part, !.module = NewModule]
           Q == {a, b} \cup (R \ {r})
           in == AllAnswered(R)
           up == AllAnswered(Q)
<1>1. R \in Whole(Here, Places) /\ R \in Trees(Here, Places)
  BY ShapeRowsIs, WholeIs
<1>2. /\ r \in RowsOver(Here, Places) /\ OneEach(r.findings) /\ IsFiniteSet(R)
      /\ IsFiniteSet(r.findings) /\ ~r.missing /\ \A f \in r.findings : ~f.failed
  BY InShape, RowIs, <1>1 DEF Trees, Whole
<1>3. /\ a \in RowsOver(Here, Places) /\ a.findings = part /\ a.module = r.module
      /\ a.self = r.self /\ a.testOnly = r.testOnly /\ a.notBuilt = r.notBuilt
      /\ a.archived = r.archived /\ ~a.missing
  <2>1. IsFiniteSet(part)
    BY <1>2, FS_Subset
  <2> QED
    BY <1>2, <2>1 DEF RowsOver
<1>4. /\ b \in RowsOver(Here, Places) /\ b.findings = rest /\ b.module = NewModule
      /\ b.self = r.self /\ b.testOnly = r.testOnly /\ b.notBuilt = r.notBuilt
      /\ b.archived = r.archived /\ ~b.missing
  <2>1. IsFiniteSet(rest)
    BY <1>2, FS_Subset
  <2> QED
    BY <1>2, <2>1 DEF RowsOver, Here
<1>5. \A q \in R : q.module \in Deps /\ q.module # NewModule
  BY ShapeRowsIs, ShapesAssumption
<1>6. a \in Q /\ b \in Q /\ (\A q \in R \ {r} : q \in Q) /\ \A q \in Q : q = a \/ q = b \/ q \in R \ {r}
  OBVIOUS
<1>7. IsFiniteSet(Q)
  <2>1. IsFiniteSet(R \ {r})
    BY <1>2, FS_RemoveElement
  <2>2. IsFiniteSet((R \ {r}) \cup {a})
    BY <2>1, FS_AddElement
  <2>3. IsFiniteSet(((R \ {r}) \cup {a}) \cup {b})
    BY <2>2, FS_AddElement
  <2>4. Q = ((R \ {r}) \cup {a}) \cup {b}
    BY Zenon
  <2> QED
    BY <2>3, <2>4
<1> HIDE DEF a, b, Q
<1>8. Q \in Trees(Here, Places)
  <2>1. Q \subseteq RowsOver(Here, Places)
    BY <1>1, <1>3, <1>4, <1>6 DEF Trees
  <2>2. OfModules(Q)
    BY <1>1, <1>3, <1>4, <1>5, <1>6 DEF OfModules, Trees
  <2>3. \A q \in Q : OneEach(q.findings)
    BY <1>1, <1>2, <1>3, <1>4, <1>6 DEF OneEach, Trees
  <2> QED
    BY <1>7, <2>1, <2>2, <2>3 DEF Trees
<1>9. Q \in Whole(Here, Places)
  BY <1>1, <1>2, <1>3, <1>4, <1>6, <1>8 DEF Whole
<1>10. /\ in.rows = R /\ ~in.mismatch /\ Score(in) \in 0..100
       /\ up.rows = Q /\ ~up.mismatch /\ Score(up) \in 0..100
       /\ LetterOf(R) = Band(Score(in)) /\ LetterOf(Q) = Band(Score(up))
  BY <1>1, <1>9, WholeIs
<1> HIDE DEF in, up, R
<1>11. ASSUME NEW f \in r.findings
       PROVE  \E q \in Q : /\ f \in q.findings /\ TierOf(f, q) = TierOf(f, r) /\ ~q.testOnly
                           /\ q.module = r.module \/ q.module = NewModule
  <2>1. CASE f \in part
    BY <1>3, <1>6, <2>1 DEF TierOf
  <2>2. CASE f \notin part
    BY <1>4, <1>6, <2>2 DEF TierOf
  <2> QED
    BY <2>1, <2>2
<1>12. TreeScore(in) <= TreeScore(up)
  <2> DEFINE origin == [m \in Here |-> IF m = NewModule THEN r.module ELSE m]
  <2>1. Keeps(Q, R, origin)
    <3> SUFFICES ASSUME NEW p \in Counted(R), NEW f \in Called(p) \cup Imported(p)
                 PROVE  \E q \in Counted(Q) : \E g \in q.findings :
                          /\ q.module \in DOMAIN origin /\ origin[q.module] = p.module
                          /\ Lighter(f, p, g, q)
      BY DEF Keeps
    <3>1. p \in R /\ ~p.testOnly /\ f \in p.findings /\ p \in RowsOver(Here, Places)
      BY <1>1 DEF Counted, Called, Imported, InTier, Trees
    <3>2. f \in FindingsOver(Places)
      BY <3>1, RowIs
    <3>3. PICK q \in Q : /\ f \in q.findings /\ TierOf(f, q) = TierOf(f, p) /\ ~q.testOnly
                         /\ q.module = p.module \/ (p = r /\ q.module = NewModule)
      BY <1>6, <1>11, <3>1
    <3>4. q \in Counted(Q)
      BY <3>3 DEF Counted
    <3>5. q.module \in Here /\ origin[q.module] = p.module
      BY <1>5, <3>1, <3>3 DEF Here
    <3>6. CalledScore[SeverityOf(f)] <= CalledScore[SeverityOf(f)]
      BY <3>2, SeveritiesOf
    <3>7. Lighter(f, p, f, q)
      BY <3>3, <3>6 DEF Lighter, Called, Imported, InTier
    <3> QED
      BY <3>3, <3>4, <3>5, <3>7
  <2> HIDE DEF origin
  <2> QED
    BY <1>1, <1>8, <1>10, <2>1, TreeScoreGrows
<1>13. /\ TreeScore(in) \in 0..100 /\ TreeScore(up) \in 0..100 /\ TreeScore(up) <= Score(up)
       /\ \A q \in Q : RowScore(q) \in 0..100 /\ RowScore(q) <= Score(up)
       /\ Score(in) = TreeScore(in) \/ \E q \in R : Score(in) = RowScore(q)
  BY <1>1, <1>8, <1>10, ScoreIs
<1>14. CASE TreeScore(in) = TreeFScore
  <2>1. Score(up) >= 76
    BY <1>10, <1>12, <1>13, <1>14 DEF TreeFScore
  <2>2. Band(Score(up)) = 5 /\ Band(Score(in)) \in 1..5
    BY <1>10, <2>1, Bands DEF Band
  <2> QED
    BY <1>10, <2>2 DEF Q, R, a, b
<1>15. CASE TreeScore(in) # TreeFScore
  <2>1. ASSUME Score(in) = TreeScore(in) PROVE Band(Score(in)) <= Band(Score(up))
    <3>1. Score(in) <= Score(up)
      BY <1>10, <1>12, <1>13, <2>1
    <3> QED
      BY <1>10, <3>1, BandsOfScores, Zenon
  <2>2. ASSUME NEW q \in R \ {r}, Score(in) = RowScore(q) PROVE Band(Score(in)) <= Band(Score(up))
    <3>1. Score(in) <= Score(up)
      BY <1>6, <1>13, <2>2
    <3> QED
      BY <1>10, <3>1, BandsOfScores, Zenon
  <2>3. ASSUME Score(in) = RowScore(r) PROVE Band(Score(in)) <= Band(Score(up))
    <3>1. UpkeepScore(r) <= Score(up)
      <4>1. UpkeepScore(a) = UpkeepScore(r)
        BY <1>3 DEF UpkeepScore, UpkeepIfArchived
      <4>2. UpkeepScore(a) <= RowScore(a) /\ RowScore(a) <= Score(up) /\ RowScore(a) \in 0..100
        BY <1>3, <1>6, <1>13, RowScoreIs
      <4> QED
        BY <1>10, <4>1, <4>2, UpkeepIs
    <3>2. Band(VulnScore(r)) <= Band(Score(up))
      <4>1. CASE VulnScore(r) = 0
        BY <1>10, <4>1, Bands
      <4>2. ASSUME NEW f \in Called(r), Band(VulnScore(r)) = Band(CalledScore[SeverityOf(f)])
            PROVE  Band(VulnScore(r)) <= Band(Score(up))
        <5>1. f \in r.findings /\ TierOf(f, r) = "called"
          BY DEF Called, InTier
        <5>2. PICK q \in Q : f \in q.findings /\ TierOf(f, q) = "called" /\ ~q.testOnly
          BY <1>11, <5>1
        <5>3. q \in RowsOver(Here, Places) /\ f \in Called(q) /\ f \in FindingsOver(Places)
          BY <1>8, <5>2, RowIs DEF Called, InTier, Trees
        <5>4. CalledScore[SeverityOf(f)] <= RowScore(q) /\ CalledScore[SeverityOf(f)] \in 15..90
          BY <5>2, <5>3, PointsCount, SeveritiesOf
        <5>5. CalledScore[SeverityOf(f)] <= Score(up)
          BY <1>10, <1>13, <5>4
        <5>6. Band(CalledScore[SeverityOf(f)]) <= Band(Score(up))
          <6>1. CalledScore[SeverityOf(f)] \in Nat /\ Score(up) \in Nat
            BY <1>10, <5>4
          <6> QED
            BY <5>5, <6>1, Bands, Zenon
        <5> QED
          BY <4>2, <5>6, Zenon
      <4>3. ASSUME NEW f \in Imported(r), Band(VulnScore(r)) = Band(ImportedScore[SeverityOf(f)])
            PROVE  Band(VulnScore(r)) <= Band(Score(up))
        <5>1. f \in r.findings /\ TierOf(f, r) = "imported"
          BY DEF Imported, InTier
        <5>2. PICK q \in Q : f \in q.findings /\ TierOf(f, q) = "imported" /\ ~q.testOnly
          BY <1>11, <5>1
        <5>3. q \in RowsOver(Here, Places) /\ f \in Imported(q) /\ f \in FindingsOver(Places)
          BY <1>8, <5>2, RowIs DEF Imported, InTier, Trees
        <5>4. ImportedScore[SeverityOf(f)] <= RowScore(q) /\ ImportedScore[SeverityOf(f)] \in 11..50
          BY <5>2, <5>3, PointsCount, SeveritiesOf
        <5>5. ImportedScore[SeverityOf(f)] <= Score(up)
          BY <1>10, <1>13, <5>4
        <5>6. Band(ImportedScore[SeverityOf(f)]) <= Band(Score(up))
          <6>1. ImportedScore[SeverityOf(f)] \in Nat /\ Score(up) \in Nat
            BY <1>10, <5>4
          <6> QED
            BY <5>5, <6>1, Bands, Zenon
        <5> QED
          BY <4>3, <5>6, Zenon
      <4> QED
        <5>1. r \in in.rows /\ in.rows \in Trees(Here, Places)
          BY <1>1, <1>10 DEF R
        <5> QED
          BY <1>15, <4>1, <4>2, <4>3, <5>1, OwnWeight
    <3>3. RowScore(r) = VulnScore(r) \/ RowScore(r) = UpkeepScore(r)
      BY DEF RowScore, Larger
    <3>4. Band(UpkeepScore(r)) <= Band(Score(up))
      BY <1>10, <3>1, UpkeepIs, Bands
    <3> QED
      BY <2>3, <3>2, <3>3, <3>4
  <2>4. Band(Score(in)) <= Band(Score(up))
    BY <1>10, <1>13, <2>1, <2>2, <2>3
  <2> QED
    BY <1>10, <2>4 DEF Q, R, a, b
<1> QED
  BY <1>14, <1>15

(* Sharing out a dependency's findings between two modules never makes the *)
(* letter better.                                                          *)
THEOREM SplitNeverHelpsHolds == ShapesSpec => []SplitNeverHelps
<1>1. ShapesInv => SplitNeverHelps
  <2> SUFFICES ASSUME ShapesInv, NEW r \in {q \in Rows : ~q.testOnly}, NEW part \in SUBSET r.findings
               PROVE  letter <= LetterOf({[r EXCEPT !.findings = part],
                                          [r EXCEPT !.findings = @ \ part, !.module = NewModule]}
                                         \cup (Rows \ {r}))
    BY Zenon DEF SplitNeverHelps
  <2> QED
    BY SplitInTwo DEF ShapesInv, Rows
<1> QED
  BY <1>1, ShapesInvHolds, PTL
=============================================================================
