--------------------------- MODULE KnowledgeProofs ---------------------------
(***************************************************************************)
(* Proofs about a grade while its checks are answered (GradeKnowledge), for*)
(* any worlds with finitely many dependencies and advisories, any checks   *)
(* that a first scan leaves open and any order of the answers:             *)
(*   - a letter without a star or a list is the one that the answers give, *)
(*     and a called pass that was skipped changes nothing of the report,   *)
(*     but for the answers that the rules overlook (Overlooked);           *)
(*   - an archived flag that was not read costs one band at most.          *)
(*                                                                         *)
(* The grade reads what is known several times: as it is, and with the     *)
(* severities that are not known, or whose lookup failed, taken for low and*)
(* for critical (Reading; GradeKnown says what becomes of the readings).   *)
(* An answer is compared with what was known before it, reading by reading:*)
(*   - no answer lowers the score of a reading that takes no severity for  *)
(*     less (BandsRise);                                                   *)
(*   - none raises its band, if it moves no finding up but light ones, from*)
(*     the imported to the called tier, and archives nothing dearer        *)
(*     (BandsHold; the points of the two tiers are in one band).           *)
(* A severity that is answered lies between the two readings of the        *)
(* estimate check (ReadBetween), and for the other checks the same reading *)
(* serves before and after.  What the checks that block a grade made sure  *)
(* of gives the second premise (SteadyKept, UpkeepKept), and no answer     *)
(* makes a check block that did not (QuietStays).                          *)
(***************************************************************************)
EXTENDS GradeKnowledge, GradeProofs

-----------------------------------------------------------------------------
(* What a grade rests on.                                                  *)

(* No check blocks a letter of this band.                                  *)
QuietAt(in, L) ==
  /\ ~in.scanFailed /\ ~in.interrupted /\ ~in.calledPassStale /\ ~in.selfAdvisoriesFailed
  /\ L < 5 => ~in.checksumUnverified /\ ~(in.kevUnchecked > 0)
  /\ \A r \in in.rows : r.missing => ~(Band(UpkeepIfArchived(r)) > L)

(* The input has no check pending when none of them blocks the band.       *)
LEMMA QuietIs ==
  ASSUME NEW in, NEW score \in Nat
  PROVE  PendingFor(in, score) = "none" <=> QuietAt(in, Band(score))
<1>1. Band(score) \in 1..5 /\ Band(TreeFScore) = 5
  BY Bands DEF Band, TreeFScore
<1>2. /\ Blocks("vulnerability_scan", in, score) <=> in.scanFailed
      /\ Blocks("scan_incomplete", in, score) <=> in.interrupted
      /\ Blocks("called_pass", in, score) <=> in.calledPassStale
      /\ Blocks("checksum", in, score) <=> in.checksumUnverified /\ 5 > Band(score)
      /\ Blocks("known_exploited", in, score) <=> in.kevUnchecked > 0 /\ 5 > Band(score)
      /\ Blocks("module_status", in, score)
           <=> \E r \in in.rows : r.self /\ r.missing /\ Band(UpkeepIfArchived(r)) > Band(score)
      /\ Blocks("module_advisories", in, score) <=> in.selfAdvisoriesFailed
      /\ Blocks("dependency_maintenance", in, score)
           <=> \E r \in in.rows : ~r.self /\ r.missing /\ Band(UpkeepIfArchived(r)) > Band(score)
  BY <1>1 DEF Blocks, CouldBeArchived
<1> DEFINE blocking == {i \in DOMAIN PendingOrder : Blocks(PendingOrder[i], in, score)}
<1>3. DOMAIN PendingOrder = 1..8 /\ \A i \in DOMAIN PendingOrder : PendingOrder[i] # "none"
  BY DEF PendingOrder
<1>4. blocking = {} <=> QuietAt(in, Band(score))
  <2>1. blocking = {} <=> \A i \in 1..8 : ~Blocks(PendingOrder[i], in, score)
    BY <1>3
  <2>2. (\A i \in 1..8 : ~Blocks(PendingOrder[i], in, score))
          <=> /\ ~Blocks("vulnerability_scan", in, score) /\ ~Blocks("scan_incomplete", in, score)
              /\ ~Blocks("called_pass", in, score) /\ ~Blocks("checksum", in, score)
              /\ ~Blocks("known_exploited", in, score) /\ ~Blocks("module_status", in, score)
              /\ ~Blocks("module_advisories", in, score)
              /\ ~Blocks("dependency_maintenance", in, score)
    BY DEF PendingOrder
  <2> HIDE DEF blocking
  <2> QED
    BY <1>1, <1>2, <2>1, <2>2 DEF QuietAt
<1>5. blocking # {} => (CHOOSE i \in blocking : \A j \in blocking : i <= j) \in blocking
  <2> SUFFICES ASSUME blocking # {} PROVE \E i \in blocking : \A j \in blocking : i <= j
    BY Zenon
  <2>1. blocking \in SUBSET Nat
    BY <1>3
  <2> QED
    BY <2>1, Least
<1>6. PendingFor(in, score) = IF blocking = {} THEN "none"
                              ELSE PendingOrder[CHOOSE i \in blocking : \A j \in blocking : i <= j]
  BY DEF PendingFor
<1> QED
  BY <1>3, <1>4, <1>5, <1>6

(* The grade without the estimate checks has this letter.                  *)
LEMMA OnceIs ==
  ASSUME NEW in, Score(in) \in Nat
  PROVE  /\ GradeOnce(in).pending = "none" <=> QuietAt(in, Band(Score(in)))
         /\ GradeOnce(in).letter = IF QuietAt(in, Band(Score(in))) THEN Band(Score(in)) ELSE NoLetter
         /\ GradeOnce(in).unread = IF QuietAt(in, Band(Score(in)))
                                   THEN ArchivedUnread(in, Score(in)) ELSE {}
BY QuietIs DEF GradeOnce

FailedOf(in) == {f \in UNION {r.findings : r \in in.rows} : f.failed}
EstimatedOf(in) == {f \in UNION {r.findings : r \in in.rows} : IsEstimated(f)}
MergedInput(raw) == [raw EXCEPT !.rows = {MergedRow(r) : r \in @}]

(* The grade, of the merged input and the two checks of its severities.    *)
LEMMA GradeIs ==
  ASSUME NEW raw, NEW in, in = MergedInput(raw), Score(in) \in Nat
  PROVE  Grade(raw) =
           IF ~QuietAt(in, Band(Score(in))) THEN GradeOnce(in)
           ELSE IF FailedOf(in) # {} /\ Differs(in, Band(Score(in)), FailedOf(in))
                THEN [GradeOnce(in) EXCEPT !.letter = NoLetter, !.pending = "severity_lookup"]
                ELSE [GradeOnce(in) EXCEPT !.estimated =
                        EstimatedOf(in) # {} /\ Differs(in, Band(Score(in)), EstimatedOf(in))]
<1> DEFINE res == GradeOnce(in)
<1>1. Grade(raw) = IF res.pending # "none" THEN res
                   ELSE IF FailedOf(in) # {} /\ Differs(in, res.letter, FailedOf(in))
                        THEN [res EXCEPT !.letter = NoLetter, !.pending = "severity_lookup"]
                        ELSE [res EXCEPT !.estimated = EstimatedOf(in) # {} /\ Differs(in, res.letter, EstimatedOf(in))]
  BY Zenon DEF Grade, FailedOf, EstimatedOf, MergedInput
<1>2. /\ res.pending = "none" <=> QuietAt(in, Band(Score(in)))
      /\ QuietAt(in, Band(Score(in))) => res.letter = Band(Score(in))
  BY OnceIs
<1> QED
  BY <1>1, <1>2, Zenon

LEMMA FieldsOfGrade ==
  ASSUME NEW in, NEW letters, NEW pend, NEW est
  PROVE  /\ [GradeOnce(in) EXCEPT !.letter = letters, !.pending = pend].letter = letters
         /\ [GradeOnce(in) EXCEPT !.estimated = est].letter = GradeOnce(in).letter
         /\ [GradeOnce(in) EXCEPT !.estimated = est].estimated = est
         /\ [GradeOnce(in) EXCEPT !.estimated = est].unread = GradeOnce(in).unread
<1> DEFINE G(no) == [letter |-> GradeOnce(in).letter, pending |-> GradeOnce(in).pending,
                     estimated |-> no, unread |-> GradeOnce(in).unread]
<1>1. \A no : /\ [G(no) EXCEPT !.letter = letters, !.pending = pend].letter = letters
              /\ [G(no) EXCEPT !.estimated = est].letter = GradeOnce(in).letter
              /\ [G(no) EXCEPT !.estimated = est].estimated = est
              /\ [G(no) EXCEPT !.estimated = est].unread = GradeOnce(in).unread
  OBVIOUS
<1>2. GradeOnce(in) = G(FALSE)
  BY DEF GradeOnce
<1> HIDE DEF G
<1> QED
  BY <1>1, <1>2, Zenon

-----------------------------------------------------------------------------
(* Trees compared by their bands.                                          *)

(* A light finding that the called pass moves to the next tier.            *)
Moved(f, x, g, y) ==
  /\ f.vuln = g.vuln /\ SeverityOf(f) = SeverityOf(g) /\ SeverityOf(f) \in {"LOW", "MEDIUM"}
  /\ ~f.exploited /\ f \in Called(x) /\ g \in Imported(y)

(* Each finding of x that counts has one in y that weighs no less, or one  *)
(* that was moved.                                                         *)
Tallies(y, x) ==
  \A f \in Called(x) \cup Imported(x) : \E g \in y.findings : Lighter(f, x, g, y) \/ Moved(f, x, g, y)

(* The points of a moved finding are in one band before and after, halved  *)
(* or not.                                                                 *)
LEMMA MovedBands ==
  ASSUME NEW a \in 0..100, NEW b \in 0..100, a <= b \/ (a = 15 /\ b >= 11) \/ (a = 45 /\ b >= 32)
  PROVE  /\ Band(a) <= Band(b)
         /\ Band(Smaller(a \div 2, TestOnlyCap)) <= Band(Smaller(b \div 2, TestOnlyCap))
<1>1. CASE a <= b
  <2>1. a \div 2 <= b \div 2 /\ a \div 2 \in Nat /\ b \div 2 \in Nat
    BY <1>1
  <2>2. /\ Smaller(a \div 2, TestOnlyCap) \in Nat /\ Smaller(b \div 2, TestOnlyCap) \in Nat
        /\ Smaller(a \div 2, TestOnlyCap) <= Smaller(b \div 2, TestOnlyCap)
    BY <2>1 DEF Smaller, TestOnlyCap
  <2> QED
    BY <1>1, <2>2, Bands
<1>2. CASE a = 15 /\ b >= 11
  <2>1. a \div 2 = 7 /\ b \div 2 >= 5 /\ b \div 2 \in Nat
    BY <1>2
  <2> QED
    BY <1>2, <2>1 DEF Band, Smaller, TestOnlyCap
<1>3. CASE a = 45 /\ b >= 32
  <2>1. a \div 2 = 22 /\ b \div 2 >= 16 /\ b \div 2 \in Nat
    BY <1>3
  <2> QED
    BY <1>3, <2>1 DEF Band, Smaller, TestOnlyCap
<1> QED
  BY <1>1, <1>2, <1>3

(* A row that another tallies is in no higher a band.                      *)
LEMMA VulnBandGrows ==
  ASSUME NEW M, NEW V, NEW x \in RowsOver(M, V), NEW y \in RowsOver(M, V),
         OneEach(x.findings), y.testOnly = x.testOnly, Tallies(y, x)
  PROVE  Band(VulnScore(x)) <= Band(VulnScore(y))
<1> DEFINE Mv == {f \in Called(x) : ~\E g \in y.findings : Lighter(f, x, g, y)}
           rest == x.findings \ Mv
           z == [x EXCEPT !.findings = rest]
<1>1. /\ z \in RowsOver(M, V) /\ z.findings = rest /\ z.self = x.self /\ z.testOnly = x.testOnly
      /\ z.notBuilt = x.notBuilt /\ OneEach(z.findings)
  <2>1. IsFiniteSet(rest) /\ rest \in SUBSET FindingsOver(V) /\ OneEach(rest)
    BY RowIs, FS_Subset DEF OneEach
  <2> HIDE DEF rest
  <2> QED
    BY <2>1 DEF RowsOver
<1>2. \A f : TierOf(f, z) = TierOf(f, x)
  BY <1>1 DEF TierOf
<1>3. Called(z) = Called(x) \ Mv
  BY <1>1, <1>2 DEF Called, InTier
<1>4. Imported(z) = Imported(x) /\ \A f \in Imported(x) : f \notin Called(x)
  BY <1>1, <1>2 DEF Called, Imported, InTier
<1>5. \A f \in Mv : f \in Called(x) /\ \E g \in y.findings : Moved(f, x, g, y)
  BY DEF Tallies
<1> HIDE DEF z, Mv
<1>6. Covers(y, z)
  BY <1>3, <1>4 DEF Covers, Tallies, Lighter, Moved, Mv
<1>7. Full(z) <= Full(y)
  BY <1>1, <1>6, VulnScoreGrows
<1>8. \A f \in Called(x) : f \in FindingsOver(V)
  BY RowIs DEF Called, InTier
<1>9. \A f \in Mv : f \in Called(x) /\ ~f.exploited /\ ~HighOrCritical(f)
  BY <1>5 DEF Moved, HighOrCritical
<1>10. Further(z) = Further(x)
  <2>1. {f \in Called(z) : HighOrCritical(f)} = {f \in Called(x) : HighOrCritical(f)}
    BY <1>3, <1>9
  <2> QED
    BY <2>1 DEF Further
<1>11. Bonus(z) = Bonus(x) /\ ImportedPoints(z) = ImportedPoints(x)
  BY <1>4, <1>10 DEF Bonus, ImportedPoints
<1>12. (\E f \in Called(z) : f.exploited) <=> \E f \in Called(x) : f.exploited
  BY <1>3, <1>9
<1>13. /\ Full(x) \in 0..100 /\ Full(y) \in 0..100 /\ Full(z) \in 0..100
       /\ Worst(z) \in 0..100 /\ Worst(z) <= Full(z) /\ ImportedPoints(z) <= Worst(z)
       /\ ImportedPoints(y) <= Full(y) /\ ImportedPoints(y) \in 0..50
       /\ CalledPoints(x) \in 0..90 /\ CalledPoints(z) \in 0..90 /\ ImportedPoints(x) \in 0..50
       /\ Worst(x) \in 0..100
  <2>1. \A r \in RowsOver(M, V) :
          /\ Worst(r) \in 0..100 /\ Full(r) \in 0..100 /\ Worst(r) <= Full(r)
          /\ ImportedPoints(r) <= Worst(r)
          /\ ImportedPoints(r) \in 0..50 /\ CalledPoints(r) \in 0..90
    BY VulnScoreIs, RowPoints
  <2>2. \A a, b, c \in 0..100 : a <= b /\ b <= c => a <= c
    OBVIOUS
  <2>3. \A r \in RowsOver(M, V) : ImportedPoints(r) \in 0..100 /\ ImportedPoints(r) <= Full(r)
    BY <2>1, <2>2
  <2> QED
    BY <1>1, <2>1, <2>3
<1>14. Full(x) <= Full(y) \/ (Full(x) = 15 /\ Full(y) >= 11) \/ (Full(x) = 45 /\ Full(y) >= 32)
  <2>1. CASE CalledPoints(x) = CalledPoints(z)
    <3>1. Full(x) = Full(z)
      BY <1>11, <1>12, <2>1 DEF Full, Worst
    <3> QED
      BY <1>7, <3>1, <1>13
  <2>2. CASE CalledPoints(x) # CalledPoints(z)
    <3>1. CalledPoints(x) # 0 /\ CalledPoints(z) <= CalledPoints(x)
      <4>1. CalledPoints(z) = 0 \/ \E f \in Called(z) : CalledScore[SeverityOf(f)] = CalledPoints(z)
        BY <1>1, RowPoints
      <4>2. \A f \in Called(x) : CalledScore[SeverityOf(f)] <= CalledPoints(x)
        BY RowPoints
      <4>3. CalledPoints(z) <= CalledPoints(x)
        BY <1>3, <1>13, <4>1, <4>2
      <4> QED
        BY <1>13, <2>2, <4>3
    <3>2. PICK f \in Called(x) : CalledScore[SeverityOf(f)] = CalledPoints(x)
      BY <3>1, RowPoints
    <3>3. f \in Mv
      <4>1. SUFFICES ASSUME f \in Called(z) PROVE FALSE
        BY <1>3
      <4>2. CalledScore[SeverityOf(f)] <= CalledPoints(z)
        BY <1>1, <4>1, RowPoints
      <4> QED
        BY <1>13, <2>2, <3>1, <3>2, <4>2
    <3>4. PICK g \in y.findings : Moved(f, x, g, y)
      BY <1>5, <3>3
    <3>5. /\ g \in Imported(y) /\ SeverityOf(f) = SeverityOf(g)
          /\ SeverityOf(f) = "LOW" \/ SeverityOf(f) = "MEDIUM"
      BY <3>4 DEF Moved
    <3>6. ImportedScore[SeverityOf(g)] <= ImportedPoints(y)
      BY <3>5, RowPoints
    <3>7. \/ CalledPoints(x) = 15 /\ ImportedPoints(y) >= 11
          \/ CalledPoints(x) = 45 /\ ImportedPoints(y) >= 32
      BY <3>2, <3>5, <3>6, Tables
    <3>8. \A h \in Called(x) : ~HighOrCritical(h)
      <4>1. \A h \in Called(x) : CalledScore[SeverityOf(h)] <= CalledPoints(x)
        BY RowPoints
      <4> QED
        BY <1>8, <3>7, <4>1, SeveritiesOf
    <3>9. Bonus(x) = 0
      <4>1. {h \in Called(x) : HighOrCritical(h)} = {}
        BY <3>8
      <4>2. Further(x) = 0
        BY <4>1, FS_EmptySet DEF Further
      <4> QED
        BY <4>2 DEF Bonus
    <3>10. Worst(x) = Larger(CalledPoints(x), ImportedPoints(x))
      BY <1>13, <3>9 DEF Worst, Larger, Smaller
    <3>11. ImportedPoints(x) <= Full(z)
      BY <1>11, <1>13
    <3>12. CASE \E h \in Called(x) : h.exploited
      <4>1. Full(x) = 76
        BY <1>13, <3>10, <3>12, <3>7 DEF Full, Larger, ExploitedFloor
      <4>2. Full(z) >= 76
        BY <1>12, <1>13, <3>12 DEF Full, Larger, ExploitedFloor
      <4> QED
        BY <1>7, <1>13, <4>1, <4>2
    <3>13. CASE ~\E h \in Called(x) : h.exploited
      <4>1. Full(x) = Larger(CalledPoints(x), ImportedPoints(x))
        BY <3>10, <3>13 DEF Full
      <4>2. ImportedPoints(x) <= Full(y)
        BY <1>7, <1>13, <3>11
      <4>3. Full(y) >= ImportedPoints(y)
        BY <1>13
      <4> QED
        BY <1>13, <3>7, <4>1, <4>2, <4>3 DEF Larger
    <3> QED
      BY <3>12, <3>13
  <2> QED
    BY <2>1, <2>2
<1>15. /\ VulnScore(x) = IF x.testOnly THEN Smaller(Full(x) \div 2, TestOnlyCap) ELSE Full(x)
       /\ VulnScore(y) = IF x.testOnly THEN Smaller(Full(y) \div 2, TestOnlyCap) ELSE Full(y)
  BY VulnScoreParts
<1> QED
  BY <1>13, <1>14, <1>15, MovedBands

(* A tree that another tallies, row by row, is in no higher a band, unless *)
(* its upkeep is.                                                          *)
LEMMA BandsGrow ==
  ASSUME NEW M, NEW V, NEW X, NEW Y, X.rows \in Trees(M, V), Y.rows \in Trees(M, V),
         X.mismatch => Y.mismatch, NEW K \in Nat, Band(Score(Y)) <= K,
         \A x \in X.rows : /\ Band(UpkeepScore(x)) <= K
                           /\ \E y \in Y.rows : SameModule(y, x) /\ Tallies(y, x)
  PROVE  Band(Score(X)) <= K
<1> DEFINE origin == [m \in M |-> m]
<1>1. Keeps(Y.rows, X.rows, origin)
  <2> SUFFICES ASSUME NEW r \in Counted(X.rows), NEW f \in Called(r) \cup Imported(r),
                      HighOrCritical(f) \/ f.exploited
               PROVE  \E q \in Counted(Y.rows) : \E g \in q.findings :
                        /\ q.module \in DOMAIN origin /\ origin[q.module] = r.module
                        /\ Lighter(f, r, g, q)
    BY DEF Keeps
  <2>1. r \in X.rows /\ ~r.testOnly
    BY DEF Counted
  <2>2. PICK q \in Y.rows : SameModule(q, r) /\ Tallies(q, r)
    BY <2>1
  <2>3. PICK g \in q.findings : Lighter(f, r, g, q) \/ Moved(f, r, g, q)
    BY <2>2 DEF Tallies
  <2>4. Lighter(f, r, g, q)
    BY <2>3 DEF Moved, HighOrCritical
  <2>5. q \in Counted(Y.rows) /\ q.module = r.module
    BY <2>1, <2>2 DEF Counted, SameModule
  <2>6. q.module \in M
    BY <2>2, RowIs DEF Trees
  <2> QED
    BY <2>4, <2>5, <2>6
<1> HIDE DEF origin
<1>2. TreeScore(X) <= TreeScore(Y)
  BY <1>1, TreeScoreGrows
<1>3. /\ Score(X) \in 0..100 /\ TreeScore(X) \in 0..100
      /\ Score(X) = TreeScore(X) \/ \E x \in X.rows : Score(X) = RowScore(x)
  BY ScoreIs
<1>4. /\ Score(Y) \in 0..100 /\ TreeScore(Y) \in 0..100 /\ TreeScore(Y) <= Score(Y)
      /\ \A y \in Y.rows : RowScore(y) \in 0..100 /\ RowScore(y) <= Score(Y)
  BY ScoreIs
<1>5. Band(Score(X)) \in Nat /\ Band(Score(Y)) \in Nat
  BY <1>3, <1>4, Bands
<1>6. CASE Score(X) = TreeScore(X)
  <2>1. Score(X) <= Score(Y)
    BY <1>2, <1>3, <1>4, <1>6
  <2>2. Band(Score(X)) <= Band(Score(Y))
    BY <1>3, <1>4, <2>1, BandsOfScores, Zenon
  <2> QED
    BY <1>5, <2>2
<1>7. ASSUME NEW x \in X.rows, Score(X) = RowScore(x) PROVE Band(Score(X)) <= K
  <2>1. RowScore(x) = VulnScore(x) \/ RowScore(x) = UpkeepScore(x)
    BY DEF RowScore, Larger
  <2>2. PICK y \in Y.rows : SameModule(y, x) /\ Tallies(y, x)
    OBVIOUS
  <2>3. x \in RowsOver(M, V) /\ y \in RowsOver(M, V) /\ OneEach(x.findings)
    BY DEF Trees
  <2>4. Band(VulnScore(x)) <= Band(VulnScore(y))
    BY <2>2, <2>3, VulnBandGrows DEF SameModule
  <2>5. VulnScore(y) \in 0..100 /\ VulnScore(x) \in 0..100 /\ VulnScore(y) <= Score(Y)
    BY <1>4, <2>3, RowScoreIs, VulnScoreIs
  <2>6. Band(VulnScore(y)) <= Band(Score(Y))
    BY <1>4, <2>5, BandsOfScores, Zenon
  <2>7. Band(VulnScore(y)) \in Nat /\ Band(VulnScore(x)) \in Nat
    BY <2>5, Bands
  <2>8. Band(VulnScore(x)) <= K
    BY <1>5, <2>4, <2>6, <2>7
  <2> QED
    BY <1>7, <2>1, <2>8
<1> QED
  BY <1>3, <1>6, <1>7

-----------------------------------------------------------------------------
(* A world and what is known of it.                                        *)

KnownWorld(w) == \E scene \in Scenes : w \in scene.worlds

Vulns(w) == {w.vulnOf[f] : f \in Findings(w)}

(* What is true of a module, as the assumption has it.                     *)
LEMMA WorldIs ==
  ASSUME NEW w, KnownWorld(w)
  PROVE  /\ Strict \in BOOLEAN /\ Self \notin w.deps
         /\ Findings(w) \subseteq Nat /\ IsFiniteSet(Findings(w)) /\ IsFiniteSet(Modules(w))
         /\ w.moduleOf \in [Findings(w) -> Modules(w)]
         /\ w.exploited \subseteq w.cve /\ w.cve \subseteq Findings(w)
         /\ w.testOnly \cup w.notBuilt \subseteq w.deps
         /\ w.sev \in [Findings(w) -> Severities \cup {"NONE"}]
         /\ w.reach \in [Findings(w) -> Reaches]
<1>1. PICK scene \in Scenes : w \in scene.worlds
  BY DEF KnownWorld
<1>2. /\ Strict \in BOOLEAN /\ Self \notin w.deps
      /\ Findings(w) \subseteq Nat /\ IsFiniteSet(Findings(w)) /\ IsFiniteSet(w.deps)
      /\ w.moduleOf \in [Findings(w) -> Modules(w)]
      /\ w.exploited \subseteq w.cve /\ w.cve \subseteq Findings(w)
      /\ w.testOnly \cup w.notBuilt \subseteq w.deps
      /\ w.sev \in [Findings(w) -> Severities \cup {"NONE"}]
      /\ w.reach \in [Findings(w) -> {"called", "imported", "required", "none"}]
  BY <1>1, KnowledgeAssumption
<1>3. Modules(w) = w.deps \cup {Self}
  BY DEF Modules
<1>4. IsFiniteSet(Modules(w))
  BY <1>2, <1>3, FS_AddElement
<1> QED
  BY <1>2, <1>4 DEF Reaches

(* A finding with its fields as parameters.                                *)
AFinding(v, i, s, no, t, x) ==
  [vuln |-> v, id |-> i, severity |-> s, failed |-> no, reach |-> t, exploited |-> x]

(* Such a record is a finding.                                             *)
LEMMA AFindingIs ==
  \A V : \A v \in V, i \in Nat, s \in Severities \cup {"NONE"}, no \in BOOLEAN, t \in Reaches,
           x \in BOOLEAN : AFinding(v, i, s, no, t, x) \in FindingsOver(V)
BY DEF AFinding, FindingsOver

SeverityKnown(w, o, f) == IF Unknown(o, f) THEN "NONE" ELSE w.sev[f]
ReachKnown(w, o, f) ==
  IF Open(o, "called pass", "all") /\ w.reach[f] = "called" THEN "imported" ELSE w.reach[f]

(* What is known of a finding.                                             *)
LEMMA FindingFromVulnIs ==
  ASSUME NEW w, KnownWorld(w), NEW o, NEW f \in Findings(w)
  PROVE  /\ FindingFromVuln(w, o, f) \in FindingsOver(Vulns(w))
         /\ FindingFromVuln(w, o, f).vuln = w.vulnOf[f] /\ FindingFromVuln(w, o, f).id = f
         /\ FindingFromVuln(w, o, f).severity = SeverityKnown(w, o, f)
         /\ SeverityKnown(w, o, f) \in Severities \cup {"NONE"}
         /\ FindingFromVuln(w, o, f).failed <=> Open(o, "severity", f)
         /\ FindingFromVuln(w, o, f).reach = ReachKnown(w, o, f)
         /\ ReachKnown(w, o, f) \in Reaches
         /\ FindingFromVuln(w, o, f).exploited <=> f \in w.exploited /\ ~Open(o, "catalog", "all")
<1> DEFINE no == Open(o, "severity", f)
           x == f \in w.exploited /\ ~Open(o, "catalog", "all")
<1>1. FindingFromVuln(w, o, f) = AFinding(w.vulnOf[f], f, SeverityKnown(w, o, f), no,
                                          ReachKnown(w, o, f), x)
  BY Zenon DEF FindingFromVuln, AFinding, SeverityKnown, ReachKnown, Unknown
<1>2. w.vulnOf[f] \in Vulns(w) /\ f \in Nat
  BY WorldIs DEF Vulns
<1>3. SeverityKnown(w, o, f) \in Severities \cup {"NONE"} /\ ReachKnown(w, o, f) \in Reaches
  BY WorldIs DEF SeverityKnown, ReachKnown, Reaches
<1>4. no \in BOOLEAN /\ x \in BOOLEAN
  BY DEF Open
<1> HIDE DEF no, x
<1>5. FindingFromVuln(w, o, f) \in FindingsOver(Vulns(w))
  <2>1. AFinding(w.vulnOf[f], f, SeverityKnown(w, o, f), no, ReachKnown(w, o, f), x)
          \in FindingsOver(Vulns(w))
    BY ONLY <1>2, <1>3, <1>4, AFindingIs
  <2> QED
    BY ONLY <1>1, <2>1, Zenon
<1>6. /\ FindingFromVuln(w, o, f).vuln = w.vulnOf[f] /\ FindingFromVuln(w, o, f).id = f
      /\ FindingFromVuln(w, o, f).severity = SeverityKnown(w, o, f)
      /\ FindingFromVuln(w, o, f).reach = ReachKnown(w, o, f)
  BY <1>1 DEF AFinding
<1>7. FindingFromVuln(w, o, f).failed = no /\ FindingFromVuln(w, o, f).exploited = x
  BY <1>1 DEF AFinding
<1> QED
  BY <1>3, <1>5, <1>6, <1>7 DEF no, x

ARow(m, s, t, n, a, i, u, F) ==
  [module |-> m, self |-> s, testOnly |-> t, notBuilt |-> n, archived |-> a, missing |-> i,
   unread |-> u, findings |-> F]

Listed(w, m) == {f \in Findings(w) : w.moduleOf[f] = m}
FlagFailed(o, m) == Open(o, "archived flag", m)
ModCheckFailed(o, m) == Open(o, "notices", m)
StrictFor(m) == Strict \/ m = Self

(* What is known of the findings of a module.                              *)
LEMMA FindingsOfIs ==
  ASSUME NEW w, KnownWorld(w), NEW o, NEW m \in Modules(w)
  PROVE  /\ FindingsOf(w, o, m) \in SUBSET FindingsOver(Vulns(w)) /\ IsFiniteSet(FindingsOf(w, o, m))
         /\ \A f, g \in FindingsOf(w, o, m) : f.id = g.id => f = g
         /\ \A g \in FindingsOf(w, o, m) : \E f \in Listed(w, m) : g = FindingFromVuln(w, o, f)
         /\ ~Open(o, "scan", "all") /\ ~Open(o, "own advisories", "all")
              => \A f \in Listed(w, m) : FindingFromVuln(w, o, f) \in FindingsOf(w, o, m)
<1> DEFINE known == [f \in Listed(w, m) |-> FindingFromVuln(w, o, f)]
           F == {FindingFromVuln(w, o, f) : f \in Listed(w, m)}
<1>1. FindingsOf(w, o, m) = {} \/ FindingsOf(w, o, m) = F
  BY Zenon DEF FindingsOf, Listed
<1>2. ~Open(o, "scan", "all") /\ ~Open(o, "own advisories", "all") => FindingsOf(w, o, m) = F
  BY Zenon DEF FindingsOf, Listed
<1>3. IsFiniteSet(F)
  <2>1. F = {known[f] : f \in DOMAIN known}
    BY Zenon
  <2>2. Listed(w, m) \subseteq Findings(w)
    BY DEF Listed
  <2>3. IsFiniteSet(DOMAIN known)
    BY <2>2, WorldIs, FS_Subset
  <2> HIDE DEF known
  <2> QED
    BY <2>1, <2>3, ImageIsFinite
<1>4. ASSUME NEW f \in Listed(w, m)
      PROVE  FindingFromVuln(w, o, f) \in FindingsOver(Vulns(w)) /\ FindingFromVuln(w, o, f).id = f
  BY FindingFromVulnIs DEF Listed
<1>5. \A g \in F : \E f \in Listed(w, m) : g = FindingFromVuln(w, o, f)
  BY Zenon
<1>6. \A f \in Listed(w, m) : FindingFromVuln(w, o, f) \in F
  BY Zenon
<1>7. F \in SUBSET FindingsOver(Vulns(w)) /\ \A f, g \in F : f.id = g.id => f = g
  <2> HIDE DEF F
  <2> QED
    BY <1>4, <1>5
<1> HIDE DEF F
<1>8. IsFiniteSet({})
  BY FS_EmptySet
<1> QED
  BY <1>1, <1>2, <1>3, <1>5, <1>6, <1>7, <1>8

(* What is known of a module.                                              *)
LEMMA RowOfIs ==
  ASSUME NEW w, KnownWorld(w), NEW o, NEW m \in Modules(w)
  PROVE  /\ RowOf(w, o, m) \in RowsOver(Modules(w), Vulns(w))
         /\ RowOf(w, o, m).module = m /\ RowOf(w, o, m).findings = FindingsOf(w, o, m)
         /\ RowOf(w, o, m).self <=> m = Self
         /\ RowOf(w, o, m).testOnly <=> m \in w.testOnly
         /\ RowOf(w, o, m).notBuilt <=> m \in w.notBuilt
         /\ RowOf(w, o, m).archived
               <=> \/ m \in w.archived /\ ~FlagFailed(o, m)
                   \/ m \in w.deprecated /\ ~ModCheckFailed(o, m)
         /\ RowOf(w, o, m).missing
               <=> /\ ~(m \in w.archived /\ ~FlagFailed(o, m))
                   /\ ModCheckFailed(o, m) \/ (StrictFor(m) /\ FlagFailed(o, m))
         /\ RowOf(w, o, m).unread
               <=> /\ ~StrictFor(m) /\ ~(m \in w.archived /\ ~FlagFailed(o, m))
                   /\ ~ModCheckFailed(o, m) /\ FlagFailed(o, m)
<1> DEFINE s == m = Self
           t == m \in w.testOnly
           n == m \in w.notBuilt
           y == m \in w.archived /\ ~FlagFailed(o, m)
           a == y \/ (m \in w.deprecated /\ ~ModCheckFailed(o, m))
           i == ~y /\ (ModCheckFailed(o, m) \/ (StrictFor(m) /\ FlagFailed(o, m)))
           u == ~StrictFor(m) /\ ~y /\ ~ModCheckFailed(o, m) /\ FlagFailed(o, m)
           F == FindingsOf(w, o, m)
<1>1. RowOf(w, o, m) = ARow(m, s, t, n, a, i, u, F)
  BY Zenon DEF RowOf, ARow, FlagFailed, ModCheckFailed, StrictFor
<1>2. /\ s \in BOOLEAN /\ t \in BOOLEAN /\ n \in BOOLEAN /\ a \in BOOLEAN /\ i \in BOOLEAN
      /\ u \in BOOLEAN
  BY WorldIs DEF StrictFor, FlagFailed, ModCheckFailed, Open
<1>3. F \in SUBSET FindingsOver(Vulns(w)) /\ IsFiniteSet(F)
  BY FindingsOfIs
<1> HIDE DEF s, t, n, a, i, u, F
<1>4. RowOf(w, o, m) \in RowsOver(Modules(w), Vulns(w))
  <2>1. ARow(m, s, t, n, a, i, u, F) \in RowsOver(Modules(w), Vulns(w))
    BY <1>2, <1>3 DEF ARow, RowsOver
  <2> QED
    BY <1>1, <2>1, Zenon
<1>5. /\ RowOf(w, o, m).module = m /\ RowOf(w, o, m).self = s /\ RowOf(w, o, m).testOnly = t
      /\ RowOf(w, o, m).notBuilt = n /\ RowOf(w, o, m).archived = a
      /\ RowOf(w, o, m).missing = i /\ RowOf(w, o, m).unread = u /\ RowOf(w, o, m).findings = F
  BY <1>1 DEF ARow
<1> QED
  BY <1>4, <1>5, Zenon DEF s, t, n, y, a, i, u, F

(* What is known, merged.                                                  *)

Scanned(o) == ~Open(o, "scan", "all") /\ ~Open(o, "own advisories", "all")
Groups(w, o, m) == MergeAdvisories(FindingsOf(w, o, m))
Sources(w, m, v) == {f \in Listed(w, m) : w.vulnOf[f] = v}

(* The findings of a module, one of each vulnerability.                    *)
LEMMA GroupsAre ==
  ASSUME NEW w, KnownWorld(w), NEW o, NEW m \in Modules(w)
  PROVE  /\ Groups(w, o, m) \in SUBSET FindingsOver(Vulns(w)) /\ OneEach(Groups(w, o, m))
         /\ IsFiniteSet(Groups(w, o, m))
         /\ Scanned(o) => \A f \in Listed(w, m) : \E g \in Groups(w, o, m) : g.vuln = w.vulnOf[f]
<1> DEFINE F == FindingsOf(w, o, m)
<1>1. /\ F \in SUBSET FindingsOver(Vulns(w)) /\ IsFiniteSet(F)
      /\ \A f, g \in F : f.id = g.id => f = g
      /\ Scanned(o) => \A f \in Listed(w, m) : FindingFromVuln(w, o, f) \in F
  BY FindingsOfIs DEF Scanned
<1> HIDE DEF F
<1>2. /\ MergeAdvisories(F) \subseteq FindingsOver(Vulns(w)) /\ IsFiniteSet(MergeAdvisories(F))
      /\ OneEach(MergeAdvisories(F))
      /\ \A f \in F : MergeGroup(GroupOf(F, f.vuln)) \in MergeAdvisories(F)
      /\ \A f \in F : MergeGroup(GroupOf(F, f.vuln)).vuln = f.vuln
  BY <1>1, MergeIs
<1>3. ASSUME NEW f \in Listed(w, m), Scanned(o) PROVE \E g \in MergeAdvisories(F) : g.vuln = w.vulnOf[f]
  <2>1. FindingFromVuln(w, o, f) \in F /\ FindingFromVuln(w, o, f).vuln = w.vulnOf[f]
    BY <1>1, <1>3, FindingFromVulnIs DEF Listed
  <2> QED
    BY <1>2, <2>1
<1> QED
  BY <1>2, <1>3 DEF Groups, F

(* Each is the worst of what its listings say.                             *)
LEMMA GroupIs ==
  ASSUME NEW w, KnownWorld(w), NEW o, Scanned(o), NEW m \in Modules(w), NEW g \in Groups(w, o, m)
  PROVE  /\ g \in FindingsOver(Vulns(w)) /\ Sources(w, m, g.vuln) # {}
         /\ \E f \in Sources(w, m, g.vuln) : g.severity = SeverityKnown(w, o, f)
         /\ \A f \in Sources(w, m, g.vuln) :
              SeverityRank[SeverityKnown(w, o, f)] <= SeverityRank[g.severity]
         /\ g.failed <=> /\ g.severity = "NONE"
                         /\ \E f \in Sources(w, m, g.vuln) : Open(o, "severity", f)
         /\ \E f \in Sources(w, m, g.vuln) : g.reach = ReachKnown(w, o, f)
         /\ \A f \in Sources(w, m, g.vuln) : ReachRank[ReachKnown(w, o, f)] <= ReachRank[g.reach]
         /\ g.exploited <=> /\ ~Open(o, "catalog", "all")
                            /\ \E f \in Sources(w, m, g.vuln) : f \in w.exploited
<1> DEFINE F == FindingsOf(w, o, m)
           G == GroupOf(F, g.vuln)
           S == Sources(w, m, g.vuln)
<1>1. /\ F \in SUBSET FindingsOver(Vulns(w)) /\ IsFiniteSet(F)
      /\ \A h \in F : \E f \in Listed(w, m) : h = FindingFromVuln(w, o, f)
      /\ \A f \in Listed(w, m) : FindingFromVuln(w, o, f) \in F
  BY FindingsOfIs DEF Scanned
<1> HIDE DEF F
<1>2. g = MergeGroup(G) /\ G # {} /\ g \in FindingsOver(Vulns(w))
  BY <1>1, MergeIs DEF Groups, F
<1>3. G \in SUBSET FindingsOver(Vulns(w)) /\ \A f, h \in G : f.vuln = h.vuln
  BY <1>1 DEF GroupOf
<1>4. \A f \in S : FindingFromVuln(w, o, f) \in G
  BY <1>1, FindingFromVulnIs DEF GroupOf, Sources, Listed
<1>5. \A h \in G : \E f \in S : h = FindingFromVuln(w, o, f)
  BY <1>1, FindingFromVulnIs DEF GroupOf, Sources, Listed
<1>6. \A f \in S : /\ FindingFromVuln(w, o, f).severity = SeverityKnown(w, o, f)
                   /\ FindingFromVuln(w, o, f).reach = ReachKnown(w, o, f)
                   /\ FindingFromVuln(w, o, f).failed <=> Open(o, "severity", f)
                   /\ FindingFromVuln(w, o, f).exploited
                        <=> f \in w.exploited /\ ~Open(o, "catalog", "all")
  BY FindingFromVulnIs DEF Sources, Listed
<1> HIDE DEF G, S
<1>7. /\ \E h \in G : g.severity = h.severity
      /\ \A h \in G : SeverityRank[h.severity] <= SeverityRank[g.severity]
      /\ g.failed = (g.severity = "NONE" /\ \E h \in G : h.failed)
      /\ \E h \in G : g.reach = h.reach
      /\ \A h \in G : ReachRank[h.reach] <= ReachRank[g.reach]
      /\ g.exploited = (\E h \in G : h.exploited)
  BY <1>2, <1>3, MergeGroupIs
<1>8. S # {}
  BY <1>2, <1>5
<1>9. (\E f \in S : g.severity = SeverityKnown(w, o, f)) /\ \E f \in S : g.reach = ReachKnown(w, o, f)
  BY <1>5, <1>6, <1>7
<1>10. /\ \A f \in S : SeverityRank[SeverityKnown(w, o, f)] <= SeverityRank[g.severity]
       /\ \A f \in S : ReachRank[ReachKnown(w, o, f)] <= ReachRank[g.reach]
  BY <1>4, <1>6, <1>7
<1>11. (\E h \in G : h.failed) <=> \E f \in S : Open(o, "severity", f)
  BY <1>4, <1>5, <1>6
<1>12. (\E h \in G : h.exploited) <=> ~Open(o, "catalog", "all") /\ \E f \in S : f \in w.exploited
  BY <1>4, <1>5, <1>6
<1>13. g.failed <=> g.severity = "NONE" /\ \E f \in S : Open(o, "severity", f)
  BY <1>7, <1>11
<1>14. g.exploited <=> ~Open(o, "catalog", "all") /\ \E f \in S : f \in w.exploited
  BY <1>7, <1>12
<1> QED
  BY <1>2, <1>8, <1>9, <1>10, <1>13, <1>14 DEF S

(* The inputs of the rules.                                                *)

AnInput(R, mm, sf, it, cp, cu, ku, sa) ==
  [rows |-> R, mismatch |-> mm, scanFailed |-> sf, interrupted |-> it, calledPassStale |-> cp,
   checksumUnverified |-> cu, kevUnchecked |-> ku, selfAdvisoriesFailed |-> sa]

(* What is known, with other rows.                                         *)
InputWith(w, o, R) ==
  AnInput(R, w.mismatch /\ ~Open(o, "mod verify", "all"), Open(o, "scan", "all"), FALSE,
          StaleCalledPass(w, o), Open(o, "mod verify", "all"), KevUnchecked(w, o),
          Open(o, "own advisories", "all"))

InputWithFields(w, o, R) ==
  /\ InputWith(w, o, R).rows = R
  /\ InputWith(w, o, R).mismatch <=> w.mismatch /\ ~Open(o, "mod verify", "all")
  /\ InputWith(w, o, R).scanFailed <=> Open(o, "scan", "all")
  /\ ~InputWith(w, o, R).interrupted
  /\ InputWith(w, o, R).calledPassStale <=> StaleCalledPass(w, o)
  /\ InputWith(w, o, R).checksumUnverified <=> Open(o, "mod verify", "all")
  /\ InputWith(w, o, R).kevUnchecked = KevUnchecked(w, o)
  /\ InputWith(w, o, R).selfAdvisoriesFailed <=> Open(o, "own advisories", "all")

(* Its fields, and it with other rows yet.                                 *)
LEMMA InputWithIs ==
  ASSUME NEW w, NEW o
  PROVE  /\ \A R : InputWithFields(w, o, R)
         /\ \A R, S : [InputWith(w, o, R) EXCEPT !.rows = S] = InputWith(w, o, S)
<1> DEFINE mm == w.mismatch /\ ~Open(o, "mod verify", "all")
           sf == Open(o, "scan", "all")
           no == FALSE
           cp == StaleCalledPass(w, o)
           cu == Open(o, "mod verify", "all")
           sa == Open(o, "own advisories", "all")
           ku == KevUnchecked(w, o)
<1>1. \A S : InputWith(w, o, S) = AnInput(S, mm, sf, no, cp, cu, ku, sa)
  BY Zenon DEF InputWith
<1> HIDE DEF mm, sf, no, cp, cu, ku, sa
<1>2. \A S, Q : [AnInput(S, mm, sf, no, cp, cu, ku, sa) EXCEPT !.rows = Q]
                  = AnInput(Q, mm, sf, no, cp, cu, ku, sa)
  BY DEF AnInput
<1>3. ASSUME NEW R
      PROVE  /\ InputWith(w, o, R).rows = R /\ InputWith(w, o, R).mismatch = mm
             /\ InputWith(w, o, R).scanFailed = sf /\ InputWith(w, o, R).interrupted = no
             /\ InputWith(w, o, R).calledPassStale = cp /\ InputWith(w, o, R).checksumUnverified = cu
             /\ InputWith(w, o, R).kevUnchecked = ku /\ InputWith(w, o, R).selfAdvisoriesFailed = sa
  BY <1>1 DEF AnInput
<1>4. ASSUME NEW R, NEW S PROVE [InputWith(w, o, R) EXCEPT !.rows = S] = InputWith(w, o, S)
  <2> DEFINE a == AnInput(R, mm, sf, no, cp, cu, ku, sa)
             b == AnInput(S, mm, sf, no, cp, cu, ku, sa)
  <2>1. InputWith(w, o, R) = a /\ InputWith(w, o, S) = b /\ [a EXCEPT !.rows = S] = b
    BY <1>1, <1>2, Zenon
  <2> HIDE DEF a, b
  <2> QED
    BY <2>1
<1>5. ASSUME NEW R PROVE InputWithFields(w, o, R)
  BY <1>3, Zenon DEF InputWithFields, mm, sf, no, cp, cu, ku, sa
<1> QED
  BY <1>4, <1>5

-----------------------------------------------------------------------------
(* The readings of an input: as it is, or with the severities that are not *)
(* known, or whose lookup failed, taken for one.                           *)

Given(f, which, sev) ==
  IF (which = "failed" /\ f.failed) \/ (which = "estimated" /\ IsEstimated(f))
  THEN [f EXCEPT !.severity = sev] ELSE f

(* Only the severity of a finding that is read so is another.              *)
LEMMA GivenIs ==
  ASSUME NEW V, NEW f \in FindingsOver(V), NEW which, NEW sev \in Severities
  PROVE  /\ Given(f, which, sev) \in FindingsOver(V) /\ Given(f, which, sev).vuln = f.vuln
         /\ Given(f, which, sev).id = f.id /\ Given(f, which, sev).reach = f.reach
         /\ Given(f, which, sev).exploited = f.exploited
         /\ Given(f, which, sev).severity
              = IF (which = "failed" /\ f.failed) \/ (which = "estimated" /\ f.severity = "NONE")
                THEN sev ELSE f.severity
BY DEF Given, IsEstimated, FindingsOver

ReadRow(w, o, m, which, sev) ==
  [RowOf(w, o, m) EXCEPT !.findings = {Given(g, which, sev) : g \in Groups(w, o, m)}]

Reading(w, o, which, sev) ==
  InputWith(w, o, {ReadRow(w, o, m, which, sev) : m \in Modules(w)})

(* A row is read with the severities of its merged findings.               *)
LEMMA ReadRowIs ==
  ASSUME NEW w, KnownWorld(w), NEW o, NEW m \in Modules(w), NEW which, NEW sev \in Severities
  PROVE  /\ ReadRow(w, o, m, which, sev) \in RowsOver(Modules(w), Vulns(w))
         /\ OneEach(ReadRow(w, o, m, which, sev).findings)
         /\ SameModule(ReadRow(w, o, m, which, sev), RowOf(w, o, m))
         /\ ReadRow(w, o, m, which, sev).archived = RowOf(w, o, m).archived
         /\ ReadRow(w, o, m, which, sev).missing = RowOf(w, o, m).missing
         /\ ReadRow(w, o, m, which, sev).unread = RowOf(w, o, m).unread
         /\ ReadRow(w, o, m, which, sev).findings = {Given(g, which, sev) : g \in Groups(w, o, m)}
<1> DEFINE G == Groups(w, o, m)
           given == [g \in G |-> Given(g, which, sev)]
           F == {Given(g, which, sev) : g \in G}
           r == RowOf(w, o, m)
<1>1. G \in SUBSET FindingsOver(Vulns(w)) /\ OneEach(G) /\ IsFiniteSet(G)
  BY GroupsAre
<1>2. r \in RowsOver(Modules(w), Vulns(w))
  BY RowOfIs
<1>3. ReadRow(w, o, m, which, sev) = [r EXCEPT !.findings = F]
  BY Zenon DEF ReadRow
<1> HIDE DEF G, r
<1>4. IsFiniteSet(F)
  <2>1. F = {given[g] : g \in DOMAIN given}
    BY Zenon
  <2>2. IsFiniteSet(DOMAIN given)
    BY <1>1
  <2> HIDE DEF given
  <2> QED
    BY <2>1, <2>2, ImageIsFinite
<1>5. ASSUME NEW g \in G
      PROVE  /\ Given(g, which, sev) \in FindingsOver(Vulns(w)) /\ Given(g, which, sev).vuln = g.vuln
             /\ Given(g, which, sev).id = g.id
  BY <1>1, GivenIs
<1>6. F \in SUBSET FindingsOver(Vulns(w)) /\ OneEach(F)
  BY <1>1, <1>5 DEF OneEach
<1> HIDE DEF F
<1>7. ReadRow(w, o, m, which, sev) \in RowsOver(Modules(w), Vulns(w))
  BY <1>2, <1>3, <1>4, <1>6 DEF RowsOver
<1>8. /\ ReadRow(w, o, m, which, sev).findings = F
      /\ SameModule(ReadRow(w, o, m, which, sev), r)
      /\ ReadRow(w, o, m, which, sev).archived = r.archived
      /\ ReadRow(w, o, m, which, sev).missing = r.missing
      /\ ReadRow(w, o, m, which, sev).unread = r.unread
  BY <1>2, <1>3 DEF RowsOver, SameModule
<1> QED
  BY <1>6, <1>7, <1>8 DEF F, G, r

(* A reading is a tree.                                                    *)
LEMMA ReadingIs ==
  ASSUME NEW w, KnownWorld(w), NEW o, NEW which, NEW sev \in Severities
  PROVE  /\ Reading(w, o, which, sev).rows \in Trees(Modules(w), Vulns(w))
         /\ Reading(w, o, which, sev).rows = {ReadRow(w, o, m, which, sev) : m \in Modules(w)}
         /\ Reading(w, o, which, sev).mismatch <=> w.mismatch /\ ~Open(o, "mod verify", "all")
         /\ Score(Reading(w, o, which, sev)) \in 0..100
<1> DEFINE R == {ReadRow(w, o, m, which, sev) : m \in Modules(w)}
           row == [m \in Modules(w) |-> ReadRow(w, o, m, which, sev)]
<1>1. /\ Reading(w, o, which, sev).rows = R
      /\ Reading(w, o, which, sev).mismatch <=> w.mismatch /\ ~Open(o, "mod verify", "all")
  <2>1. Reading(w, o, which, sev) = InputWith(w, o, R)
    BY Zenon DEF Reading
  <2> HIDE DEF R
  <2>2. InputWithFields(w, o, R)
    BY InputWithIs
  <2> QED
    BY <2>1, <2>2, Zenon DEF InputWithFields
<1>2. IsFiniteSet(R)
  <2>1. R = {row[m] : m \in DOMAIN row}
    BY Zenon
  <2>2. IsFiniteSet(DOMAIN row)
    BY WorldIs
  <2> HIDE DEF row
  <2> QED
    BY <2>1, <2>2, ImageIsFinite
<1>3. ASSUME NEW m \in Modules(w)
      PROVE  /\ ReadRow(w, o, m, which, sev) \in RowsOver(Modules(w), Vulns(w))
             /\ OneEach(ReadRow(w, o, m, which, sev).findings)
             /\ ReadRow(w, o, m, which, sev).module = m
  BY ReadRowIs, RowOfIs DEF SameModule
<1>4. R \in Trees(Modules(w), Vulns(w))
  <2>1. OfModules(R)
    BY <1>3 DEF OfModules
  <2> QED
    BY <1>2, <1>3, <2>1 DEF Trees
<1>5. Score(Reading(w, o, which, sev)) \in 0..100
  BY <1>1, <1>4, ScoreIs
<1> QED
  BY <1>1, <1>4, <1>5

(* The grade reads the input as it is, and with its unknown severities one. *)
LEMMA MergedIsReading ==
  ASSUME NEW w, KnownWorld(w), NEW o, NEW sev \in Severities
  PROVE  MergedInput(InputOf(w, o)) = Reading(w, o, "none", sev)
<1> DEFINE R == {RowOf(w, o, m) : m \in Modules(w)}
           Q == {MergedRow(r) : r \in R}
           S == {ReadRow(w, o, m, "none", sev) : m \in Modules(w)}
<1>1. ASSUME NEW m \in Modules(w) PROVE MergedRow(RowOf(w, o, m)) = ReadRow(w, o, m, "none", sev)
  <2>1. RowOf(w, o, m).findings = FindingsOf(w, o, m)
    BY RowOfIs
  <2>2. MergedRow(RowOf(w, o, m)) = [RowOf(w, o, m) EXCEPT !.findings = Groups(w, o, m)]
    BY <2>1, Zenon DEF MergedRow, Groups
  <2>3. {Given(g, "none", sev) : g \in Groups(w, o, m)} = Groups(w, o, m)
    <3> DEFINE G == Groups(w, o, m)
    <3>1. \A g : Given(g, "none", sev) = g
      BY DEF Given
    <3> HIDE DEF G
    <3>2. {Given(g, "none", sev) : g \in G} = G
      BY <3>1
    <3> QED
      BY <3>2 DEF G
  <2> QED
    BY <2>2, <2>3, Zenon DEF ReadRow
<1>2. Q = S
  BY <1>1, Zenon
<1>3. InputOf(w, o) = InputWith(w, o, R)
  BY Zenon DEF InputOf, InputWith, AnInput
<1>4. Reading(w, o, "none", sev) = InputWith(w, o, S)
  BY Zenon DEF Reading
<1>a. /\ \A A : InputWithFields(w, o, A)
      /\ \A A, B : [InputWith(w, o, A) EXCEPT !.rows = B] = InputWith(w, o, B)
  BY InputWithIs, Zenon
<1> HIDE DEF R, S
<1>5. InputWithFields(w, o, R) /\ [InputWith(w, o, R) EXCEPT !.rows = Q] = InputWith(w, o, Q)
  BY <1>a, Zenon
<1>6. MergedInput(InputOf(w, o)) = [InputWith(w, o, R) EXCEPT !.rows = {MergedRow(r) : r \in InputWith(w, o, R).rows}]
  BY <1>3, Zenon DEF MergedInput
<1>7. InputWith(w, o, R).rows = R
  BY <1>5, Zenon DEF InputWithFields
<1> QED
  BY <1>2, <1>4, <1>5, <1>6, <1>7, Zenon

(* The findings that a check of the grade gives another severity.          *)
Picked(in, which) == IF which = "failed" THEN FailedOf(in) ELSE EstimatedOf(in)

(* The input that a check makes up is a reading.                           *)
LEMMA WithSeverityIs ==
  ASSUME NEW w, KnownWorld(w), NEW o, NEW s0 \in Severities, NEW sev \in Severities,
         NEW which \in {"failed", "estimated"}
  PROVE  WithSeverity(Reading(w, o, "none", s0), sev, Picked(Reading(w, o, "none", s0), which))
           = Reading(w, o, which, sev)
<1> DEFINE in == Reading(w, o, "none", s0)
           F == Picked(in, which)
           R == {ReadRow(w, o, m, "none", s0) : m \in Modules(w)}
           change(f) == IF f \in F THEN [f EXCEPT !.severity = sev] ELSE f
           changed(r) == [r EXCEPT !.findings = {change(f) : f \in r.findings}]
           Q == {changed(r) : r \in R}
           S == {ReadRow(w, o, m, which, sev) : m \in Modules(w)}
<1>1. in.rows = R
  BY ReadingIs
<1>2. ASSUME NEW m \in Modules(w)
      PROVE  /\ ReadRow(w, o, m, "none", s0).findings = Groups(w, o, m)
             /\ ReadRow(w, o, m, "none", s0) \in R
  <2>1. ReadRow(w, o, m, "none", s0).findings = {Given(g, "none", s0) : g \in Groups(w, o, m)}
    BY ReadRowIs
  <2> DEFINE G == Groups(w, o, m)
  <2>2. \A g : Given(g, "none", s0) = g
    BY DEF Given
  <2>3. ReadRow(w, o, m, "none", s0) \in R
    OBVIOUS
  <2> HIDE DEF G, R
  <2>4. {Given(g, "none", s0) : g \in G} = G
    BY <2>2
  <2> QED
    BY <2>1, <2>3, <2>4, Zenon DEF G
<1>3. ASSUME NEW m \in Modules(w), NEW f \in Groups(w, o, m) PROVE change(f) = Given(f, which, sev)
  <2>1. f \in UNION {r.findings : r \in in.rows}
    <3> DEFINE r == ReadRow(w, o, m, "none", s0)
    <3>1. r \in in.rows /\ r.findings = Groups(w, o, m)
      BY <1>1, <1>2
    <3> HIDE DEF r, in
    <3> QED
      BY <3>1
  <2>2. f \in F <=> (which = "failed" /\ f.failed) \/ (which = "estimated" /\ IsEstimated(f))
    <3> HIDE DEF in
    <3>1. f \in FailedOf(in) <=> f.failed
      BY <2>1 DEF FailedOf
    <3>2. f \in EstimatedOf(in) <=> IsEstimated(f)
      BY <2>1 DEF EstimatedOf
    <3> QED
      BY <3>1, <3>2 DEF Picked
  <2> HIDE DEF F
  <2> QED
    BY <2>2, Zenon DEF Given
<1>4. ASSUME NEW m \in Modules(w) PROVE changed(ReadRow(w, o, m, "none", s0)) = ReadRow(w, o, m, which, sev)
  <2> DEFINE G == Groups(w, o, m)
             r == RowOf(w, o, m)
             q == ReadRow(w, o, m, "none", s0)
             D == {Given(g, which, sev) : g \in G}
             C == {change(g) : g \in G}
             D0 == {Given(g, "none", s0) : g \in G}
  <2>1. C = D
    <3> HIDE DEF change
    <3> QED
      BY <1>3, Zenon
  <2>2. q.findings = G /\ q = [r EXCEPT !.findings = D0] /\ ReadRow(w, o, m, which, sev) = [r EXCEPT !.findings = D]
    BY <1>2, Zenon DEF ReadRow
  <2>3. r \in RowsOver(Modules(w), Vulns(w))
    BY RowOfIs
  <2>4. changed(q) = [q EXCEPT !.findings = C]
    BY <2>2, Zenon
  <2> HIDE DEF r, D, C, D0, q, G
  <2>5. [[r EXCEPT !.findings = D0] EXCEPT !.findings = D] = [r EXCEPT !.findings = D]
    BY <2>3 DEF RowsOver
  <2> QED
    BY <2>1, <2>2, <2>4, <2>5, Zenon DEF q
<1>5. Q = S
  <2> HIDE DEF changed
  <2> QED
    BY <1>4, Zenon
<1>6. WithSeverity(in, sev, F) = [in EXCEPT !.rows = Q]
  BY <1>1, Zenon DEF WithSeverity
<1>7. in = InputWith(w, o, R) /\ Reading(w, o, which, sev) = InputWith(w, o, S)
  BY Zenon DEF Reading
<1>a. \A A, B : [InputWith(w, o, A) EXCEPT !.rows = B] = InputWith(w, o, B)
  BY InputWithIs, Zenon
<1> HIDE DEF R, S, Q, in, F
<1>8. [InputWith(w, o, R) EXCEPT !.rows = Q] = InputWith(w, o, Q)
  BY <1>a, Zenon
<1>9. WithSeverity(in, sev, F) = Reading(w, o, which, sev)
  BY <1>5, <1>6, <1>7, <1>8, Zenon
<1> QED
  BY <1>9, Zenon DEF in, F

-----------------------------------------------------------------------------
(* The grade of what is known.                                             *)

QuietKnown(w, o, L) ==
  /\ Scanned(o) /\ ~StaleCalledPass(w, o)
  /\ L < 5 => ~Open(o, "mod verify", "all") /\ ~(KevUnchecked(w, o) > 0)
  /\ \A m \in Modules(w) :
       RowOf(w, o, m).missing => ~(Band(UpkeepIfArchived(RowOf(w, o, m))) > L)

BandOf(w, o, which, sev) == Band(Score(Reading(w, o, which, sev)))

(* The input and the letter it is read to have.                            *)
Known(w, o) == Reading(w, o, "none", "LOW")
KnownBand(w, o) == BandOf(w, o, "none", "LOW")

\* No severity of the findings that the check picks gives another band.
SettledBand(w, o, which) == \A sev \in {"LOW", "CRITICAL"} : BandOf(w, o, which, sev) = KnownBand(w, o)

(* What blocks a reading blocks the input.                                 *)
LEMMA QuietReading ==
  ASSUME NEW w, KnownWorld(w), NEW o, NEW which, NEW sev \in Severities, NEW L
  PROVE  QuietAt(Reading(w, o, which, sev), L) <=> QuietKnown(w, o, L)
<1> DEFINE in == Reading(w, o, which, sev)
           R == {ReadRow(w, o, m, which, sev) : m \in Modules(w)}
<1>1. in.rows = R
  BY ReadingIs
<1>2. in = InputWith(w, o, R)
  BY Zenon DEF Reading
<1>a. \A A : InputWithFields(w, o, A)
  BY InputWithIs, Zenon
<1>3. ASSUME NEW m \in Modules(w)
      PROVE  /\ ReadRow(w, o, m, which, sev).missing = RowOf(w, o, m).missing
             /\ UpkeepIfArchived(ReadRow(w, o, m, which, sev)) = UpkeepIfArchived(RowOf(w, o, m))
  <2>1. /\ ReadRow(w, o, m, which, sev).missing = RowOf(w, o, m).missing
        /\ SameModule(ReadRow(w, o, m, which, sev), RowOf(w, o, m))
    BY ReadRowIs
  <2> QED
    BY <2>1, Zenon DEF UpkeepIfArchived, SameModule
<1>4. (\A r \in in.rows : r.missing => ~(Band(UpkeepIfArchived(r)) > L))
       <=> \A m \in Modules(w) : RowOf(w, o, m).missing => ~(Band(UpkeepIfArchived(RowOf(w, o, m))) > L)
  <2>1. (\A r \in R : r.missing => ~(Band(UpkeepIfArchived(r)) > L))
         <=> \A m \in Modules(w) : ReadRow(w, o, m, which, sev).missing
                                     => ~(Band(UpkeepIfArchived(ReadRow(w, o, m, which, sev))) > L)
    BY Zenon
  <2> QED
    BY <1>1, <1>3, <2>1, Zenon
<1> HIDE DEF R, in
<1>5. InputWithFields(w, o, R)
  BY <1>a, Zenon
<1>6. /\ in.scanFailed <=> Open(o, "scan", "all")
      /\ ~in.interrupted
      /\ in.calledPassStale <=> StaleCalledPass(w, o)
      /\ in.checksumUnverified <=> Open(o, "mod verify", "all")
      /\ in.kevUnchecked = KevUnchecked(w, o)
      /\ in.selfAdvisoriesFailed <=> Open(o, "own advisories", "all")
  BY <1>2, <1>5, Zenon DEF InputWithFields
<1>7. QuietAt(in, L) <=> QuietKnown(w, o, L)
  BY <1>4, <1>6 DEF QuietAt, QuietKnown, Scanned
<1> QED
  BY <1>7 DEF in

(* A finding that is picked is picked from what is known.                  *)
LEMMA NothingPicked ==
  ASSUME NEW w, KnownWorld(w), NEW o, NEW sev \in Severities, NEW which \in {"failed", "estimated"},
         Picked(Known(w, o), which) = {}
  PROVE  Reading(w, o, which, sev) = Known(w, o)
<1> DEFINE S == {ReadRow(w, o, m, which, sev) : m \in Modules(w)}
           R == {ReadRow(w, o, m, "none", "LOW") : m \in Modules(w)}
<1>0. "LOW" \in Severities
  BY DEF Severities
<1>1. ASSUME NEW m \in Modules(w) PROVE ReadRow(w, o, m, which, sev) = ReadRow(w, o, m, "none", "LOW")
  <2>1. /\ Known(w, o).rows = R
        /\ ReadRow(w, o, m, "none", "LOW").findings = {Given(g, "none", "LOW") : g \in Groups(w, o, m)}
    <3>1. Known(w, o).rows = R
      BY <1>0, ReadingIs DEF Known
    <3>2. ReadRow(w, o, m, "none", "LOW").findings = {Given(g, "none", "LOW") : g \in Groups(w, o, m)}
      BY <1>0, ReadRowIs
    <3> QED
      BY <3>1, <3>2, Zenon
  <2>2. \A g : Given(g, "none", "LOW") = g
    BY DEF Given
  <2>3. ASSUME NEW g \in Groups(w, o, m) PROVE Given(g, which, sev) = g
    <3> DEFINE r == ReadRow(w, o, m, "none", "LOW")
               in == Known(w, o)
    <3>0. Given(g, "none", "LOW") \in r.findings
      BY <2>1, Zenon
    <3>1. g \in r.findings
      BY <2>2, <3>0, Zenon
    <3>2. r \in in.rows
      BY <2>1
    <3>4. Picked(in, which) = {}
      OBVIOUS
    <3> HIDE DEF r, in
    <3>3. g \in UNION {q.findings : q \in in.rows}
      BY <3>1, <3>2
    <3> QED
      BY <3>3, <3>4 DEF Picked, FailedOf, EstimatedOf, Given
  <2> DEFINE G == Groups(w, o, m)
  <2> HIDE DEF G
  <2>4. {Given(g, which, sev) : g \in G} = {Given(g, "none", "LOW") : g \in G}
    BY <2>2, <2>3 DEF G
  <2> QED
    BY <2>4, Zenon DEF ReadRow, G
<1>2. S = R
  BY <1>1, Zenon
<1> QED
  BY <1>2, Zenon DEF Reading, Known

AReport(L, est, U) == [letter |-> L, pending |-> "none", estimated |-> est, unread |-> U]

(* The grade of what is known: its letter is the band, when nothing blocks *)
(* it and the failed lookups cannot move it; the star tells of the unknown *)
(* severities, the list of the unread flags.                               *)
LEMMA GradeKnown ==
  ASSUME NEW w, KnownWorld(w), NEW o
  PROVE  /\ KnownBand(w, o) \in 1..5 /\ Score(Known(w, o)) \in 0..100
         /\ Grade(InputOf(w, o)).letter =
              IF QuietKnown(w, o, KnownBand(w, o)) /\ SettledBand(w, o, "failed")
              THEN KnownBand(w, o) ELSE NoLetter
         /\ Grade(InputOf(w, o)).letter # NoLetter =>
              Grade(InputOf(w, o)) =
                AReport(KnownBand(w, o), ~SettledBand(w, o, "estimated"),
                        ArchivedUnread(Known(w, o), Score(Known(w, o))))
<1> DEFINE in == Known(w, o)
           L == KnownBand(w, o)
           raw == InputOf(w, o)
           once == GradeOnce(in)
           U == ArchivedUnread(in, Score(in))
           quiet == QuietAt(in, L)
<1>0. "LOW" \in Severities /\ "CRITICAL" \in Severities
  BY DEF Severities
<1>1. in = MergedInput(raw) /\ Score(in) \in 0..100 /\ L = Band(Score(in)) /\ L \in 1..5
  <2>1. in = MergedInput(raw)
    BY <1>0, MergedIsReading, Zenon DEF Known
  <2>2. Score(in) \in 0..100
    BY <1>0, ReadingIs DEF Known
  <2>3. L = Band(Score(in))
    BY Zenon DEF KnownBand, BandOf, Known
  <2> HIDE DEF in, L
  <2> QED
    BY <2>1, <2>2, <2>3, Bands
<1>2. QuietAt(in, L) <=> QuietKnown(w, o, L)
  BY <1>0, QuietReading, Zenon DEF Known
<1>3. ASSUME NEW which \in {"failed", "estimated"}, QuietKnown(w, o, L)
      PROVE  (Picked(in, which) # {} /\ Differs(in, L, Picked(in, which))) <=> ~SettledBand(w, o, which)
  <2>1. ASSUME NEW sev \in {"LOW", "CRITICAL"}
        PROVE  GradeOnce(WithSeverity(in, sev, Picked(in, which))).letter # L
                 <=> BandOf(w, o, which, sev) # L
    <3> DEFINE X == Reading(w, o, which, sev)
               K == BandOf(w, o, which, sev)
    <3>1. sev \in Severities
      BY <1>0
    <3>2. WithSeverity(in, sev, Picked(in, which)) = X
      BY <1>0, <3>1, WithSeverityIs, Zenon DEF Known
    <3>3. Score(X) \in 0..100
      BY <3>1, ReadingIs
    <3>4. QuietAt(X, K) <=> QuietKnown(w, o, K)
      BY <3>1, QuietReading
    <3>5. K = Band(Score(X))
      BY Zenon DEF BandOf
    <3> HIDE DEF X, K, L, in
    <3>6. GradeOnce(X).letter = IF QuietAt(X, K) THEN K ELSE NoLetter
      BY <3>3, <3>5, OnceIs
    <3>7. K # L => GradeOnce(X).letter # L
      BY <1>1, <3>6 DEF NoLetter
    <3>8. K = L => GradeOnce(X).letter = L
      BY <1>3, <3>4, <3>6
    <3>9. GradeOnce(X).letter # L <=> K # L
      BY <3>7, <3>8
    <3> QED
      BY <3>2, <3>9 DEF K, L, in
  <2>2. Differs(in, L, Picked(in, which)) <=> ~SettledBand(w, o, which)
    BY <2>1 DEF Differs, SettledBand
  <2>3. Picked(in, which) = {} => SettledBand(w, o, which)
    <3> SUFFICES ASSUME Picked(in, which) = {}, NEW sev \in {"LOW", "CRITICAL"}
                 PROVE  BandOf(w, o, which, sev) = L
      BY DEF SettledBand
    <3>1. sev \in Severities
      BY <1>0
    <3>2. Reading(w, o, which, sev) = Known(w, o)
      BY <3>1, NothingPicked
    <3> QED
      BY <3>2, Zenon DEF BandOf, KnownBand, Known
  <2> QED
    BY <2>2, <2>3
<1>4. /\ once.letter = IF quiet THEN L ELSE NoLetter
      /\ once.unread = IF quiet THEN U ELSE {}
      /\ once.pending = "none" <=> quiet
  <2> HIDE DEF in, L
  <2> QED
    BY <1>1, OnceIs
<1>5. Grade(raw) =
           IF ~quiet THEN once
           ELSE IF FailedOf(in) # {} /\ Differs(in, L, FailedOf(in))
                THEN [once EXCEPT !.letter = NoLetter, !.pending = "severity_lookup"]
                ELSE [once EXCEPT !.estimated =
                        EstimatedOf(in) # {} /\ Differs(in, L, EstimatedOf(in))]
  <2> HIDE DEF in, raw, L
  <2>1. Score(in) \in Nat
    BY <1>1
  <2> QED
    BY <1>1, <2>1, GradeIs, Zenon
<1>6. Picked(in, "failed") = FailedOf(in) /\ Picked(in, "estimated") = EstimatedOf(in)
  BY DEF Picked
<1> DEFINE fail == SettledBand(w, o, "failed")
           est == ~SettledBand(w, o, "estimated")
<1>7. quiet => ((FailedOf(in) # {} /\ Differs(in, L, FailedOf(in))) <=> ~fail)
  BY <1>2, <1>3, <1>6
<1>8. quiet => ((EstimatedOf(in) # {} /\ Differs(in, L, EstimatedOf(in))) <=> est)
  BY <1>2, <1>3, <1>6
<1> DEFINE A == FailedOf(in) # {} /\ Differs(in, L, FailedOf(in))
           B == EstimatedOf(in) # {} /\ Differs(in, L, EstimatedOf(in))
<1>9. /\ quiet => (A <=> ~fail)
      /\ quiet => (B <=> est)
      /\ Grade(raw) = IF ~quiet THEN once
           ELSE IF A THEN [once EXCEPT !.letter = NoLetter, !.pending = "severity_lookup"]
                ELSE [once EXCEPT !.estimated = B]
  BY <1>5, <1>7, <1>8, Zenon
<1>10. /\ [once EXCEPT !.letter = NoLetter, !.pending = "severity_lookup"].letter = NoLetter
       /\ [once EXCEPT !.estimated = B].letter = once.letter
  BY FieldsOfGrade
<1>11. quiet => [once EXCEPT !.estimated = B] = AReport(L, B, U)
  <2> SUFFICES ASSUME quiet PROVE [once EXCEPT !.estimated = B] = AReport(L, B, U)
    OBVIOUS
  <2> DEFINE no == FALSE
             score == Score(in)
             pend == PendingFor(in, score)
             l == IF pend = "none" THEN Band(score) ELSE NoLetter
             u == IF pend = "none" THEN ArchivedUnread(in, score) ELSE {}
             Made(a, b, c, d) == [letter |-> a, pending |-> b, estimated |-> c, unread |-> d]
  <2>1. once = Made(l, pend, no, u)
    BY Zenon DEF GradeOnce
  <2>2. pend = "none" /\ l = L /\ u = U
    <3>1. QuietAt(in, Band(score))
      BY <1>1
    <3> HIDE DEF in, L
    <3>2. score \in Nat
      BY <1>1
    <3>3. pend = "none"
      <4> HIDE DEF score
      <4> QED
      BY <3>1, <3>2, QuietIs
    <3> QED
      BY <1>1, <3>3
  <2>3. AReport(L, B, U) = Made(L, "none", B, U)
    BY Zenon DEF AReport
  <2> HIDE DEF no, l, u, B, L, U
  <2>4. [Made(L, "none", no, U) EXCEPT !.estimated = B] = Made(L, "none", B, U)
    OBVIOUS
  <2> HIDE DEF Made, once
  <2> QED
    BY <2>1, <2>2, <2>3, <2>4, Zenon
<1>12. quiet <=> QuietKnown(w, o, L)
  BY <1>2
<1>13. quiet => L # NoLetter
  BY <1>1 DEF NoLetter
<1> DEFINE G == Grade(raw)
<1>14. G.letter = IF QuietKnown(w, o, L) /\ fail THEN L ELSE NoLetter
  <2> HIDE DEF quiet, A, B, L, once, fail, in, U, raw
  <2>1. CASE ~quiet
    BY <1>4, <1>9, <1>12, <2>1
  <2>2. CASE quiet /\ A
    BY <1>9, <1>10, <1>12, <2>2
  <2>3. CASE quiet /\ ~A
    BY <1>4, <1>9, <1>10, <1>12, <2>3
  <2> QED
    BY <2>1, <2>2, <2>3
<1>15. G.letter # NoLetter => G = AReport(L, est, U)
  <2> SUFFICES ASSUME G.letter # NoLetter PROVE G = AReport(L, est, U)
    OBVIOUS
  <2>1. quiet /\ fail
    <3> HIDE DEF G, L, in, fail, quiet
    <3> QED
      BY <1>12, <1>14
  <2>2. G = [once EXCEPT !.estimated = B]
    BY <1>9, <2>1, Zenon
  <2>3. G = AReport(L, B, U)
    BY <1>11, <2>1, <2>2, Zenon
  <2>4. B <=> est
    BY <1>9, <2>1
  <2>5. AReport(L, B, U) = AReport(L, est, U)
    <3> HIDE DEF B, est, L, U
    <3> QED
      BY <2>4
  <2> QED
    BY <2>3, <2>5, Zenon
<1> QED
  BY <1>1, <1>14, <1>15, Zenon

-----------------------------------------------------------------------------
(* What more answers change.                                               *)

SameSeverities(w, o, p) ==
  \A f \in Findings(w) : /\ Open(p, "severity", f) <=> Open(o, "severity", f)
                         /\ Open(p, "published", f) <=> Open(o, "published", f)
SamePass(o, p) == Open(p, "called pass", "all") <=> Open(o, "called pass", "all")
SameCatalog(o, p) == Open(p, "catalog", "all") <=> Open(o, "catalog", "all")

(* What is open once more is answered was open.                            *)
LEMMA OpenStays ==
  ASSUME NEW o, NEW p \in SUBSET o, NEW k, NEW s
  PROVE  Open(p, k, s) => Open(o, k, s)
BY DEF Open

(* A finding when more is answered.                                        *)
LEMMA SourceStays ==
  ASSUME NEW w, KnownWorld(w), NEW o, NEW p \in SUBSET o, NEW f \in Findings(w)
  PROVE  /\ SeverityRank[SeverityKnown(w, o, f)] <= SeverityRank[SeverityKnown(w, p, f)]
         /\ ReachRank[ReachKnown(w, o, f)] <= ReachRank[ReachKnown(w, p, f)]
         /\ SameSeverities(w, o, p) => SeverityKnown(w, p, f) = SeverityKnown(w, o, f)
         /\ SamePass(o, p) => ReachKnown(w, p, f) = ReachKnown(w, o, f)
         /\ SeverityRank[SeverityKnown(w, o, f)] \in Nat /\ SeverityRank[SeverityKnown(w, p, f)] \in Nat
         /\ ReachRank[ReachKnown(w, o, f)] \in Nat /\ ReachRank[ReachKnown(w, p, f)] \in Nat
<1>1. w.sev[f] \in Severities \cup {"NONE"} /\ w.reach[f] \in Reaches
  BY WorldIs
<1>2. /\ SeverityRank[w.sev[f]] \in 0..4 /\ SeverityRank["NONE"] = 0
      /\ ReachRank[w.reach[f]] \in 1..4 /\ ReachRank["imported"] = 2 /\ ReachRank["called"] = 4
  BY <1>1, Ranks DEF ReachRank, Severities
<1>3. /\ Open(p, "severity", f) => Open(o, "severity", f)
      /\ Open(p, "published", f) => Open(o, "published", f)
      /\ Open(p, "called pass", "all") => Open(o, "called pass", "all")
  BY OpenStays
<1>4. /\ SeverityRank[SeverityKnown(w, o, f)] <= SeverityRank[SeverityKnown(w, p, f)]
      /\ SeverityRank[SeverityKnown(w, o, f)] \in Nat /\ SeverityRank[SeverityKnown(w, p, f)] \in Nat
  <2>1. \A q : SeverityKnown(w, q, f) = IF Unknown(q, f) THEN "NONE" ELSE w.sev[f]
    BY DEF SeverityKnown
  <2>2. Unknown(p, f) => Unknown(o, f)
    BY <1>3 DEF Unknown
  <2>3. CASE Unknown(o, f)
    <3>1. SeverityKnown(w, o, f) = "NONE" /\ SeverityKnown(w, p, f) \in {"NONE", w.sev[f]}
      BY <2>1, <2>3
    <3> QED
      BY <1>2, <3>1
  <2>4. CASE ~Unknown(o, f)
    <3>1. SeverityKnown(w, o, f) = w.sev[f] /\ SeverityKnown(w, p, f) = w.sev[f]
      BY <2>1, <2>2, <2>4
    <3> QED
      BY <1>2, <3>1
  <2> QED
    BY <2>3, <2>4
<1>5. /\ ReachRank[ReachKnown(w, o, f)] <= ReachRank[ReachKnown(w, p, f)]
      /\ ReachRank[ReachKnown(w, o, f)] \in Nat /\ ReachRank[ReachKnown(w, p, f)] \in Nat
  <2> DEFINE hidden(q) == Open(q, "called pass", "all") /\ w.reach[f] = "called"
  <2>1. \A q : ReachKnown(w, q, f) = IF hidden(q) THEN "imported" ELSE w.reach[f]
    BY DEF ReachKnown
  <2>2. hidden(p) => hidden(o)
    BY <1>3
  <2>3. hidden(o) => w.reach[f] = "called"
    OBVIOUS
  <2> HIDE DEF hidden
  <2>4. CASE hidden(o)
    <3>1. ReachKnown(w, o, f) = "imported" /\ ReachKnown(w, p, f) \in {"imported", "called"}
      BY <2>1, <2>3, <2>4
    <3> QED
      BY <1>2, <3>1
  <2>5. CASE ~hidden(o)
    <3>1. ReachKnown(w, o, f) = w.reach[f] /\ ReachKnown(w, p, f) = w.reach[f]
      BY <2>1, <2>2, <2>5
    <3> QED
      BY <1>2, <3>1
  <2> QED
    BY <2>4, <2>5
<1>6. SameSeverities(w, o, p) => SeverityKnown(w, p, f) = SeverityKnown(w, o, f)
  BY Zenon DEF SameSeverities, SeverityKnown, Unknown
<1>7. SamePass(o, p) => ReachKnown(w, p, f) = ReachKnown(w, o, f)
  BY Zenon DEF SamePass, ReachKnown
<1> QED
  BY <1>4, <1>5, <1>6, <1>7

(* What was scanned is scanned.                                            *)
LEMMA ScannedStays ==
  ASSUME NEW o, NEW p \in SUBSET o, Scanned(o)
  PROVE  Scanned(p)
BY OpenStays DEF Scanned

(* A merged finding when more is answered.                                 *)
LEMMA PairIs ==
  ASSUME NEW w, KnownWorld(w), NEW o, NEW p \in SUBSET o, Scanned(o), NEW m \in Modules(w),
         NEW g \in Groups(w, o, m), NEW h \in Groups(w, p, m), h.vuln = g.vuln
  PROVE  /\ SeverityRank[g.severity] <= SeverityRank[h.severity]
         /\ ReachRank[g.reach] <= ReachRank[h.reach]
         /\ g.exploited => h.exploited
         /\ SameSeverities(w, o, p) => h.severity = g.severity /\ (h.failed <=> g.failed)
         /\ SamePass(o, p) => h.reach = g.reach
         /\ SameCatalog(o, p) => (h.exploited <=> g.exploited)
<1> DEFINE S == Sources(w, m, g.vuln)
<1>0. Scanned(p)
  BY ScannedStays
<1>1. \A f \in S : f \in Findings(w)
  BY DEF Sources, Listed
<1>2. /\ g \in FindingsOver(Vulns(w))
      /\ \E f \in S : g.severity = SeverityKnown(w, o, f)
      /\ \A f \in S : SeverityRank[SeverityKnown(w, o, f)] <= SeverityRank[g.severity]
      /\ g.failed <=> (g.severity = "NONE" /\ \E f \in S : Open(o, "severity", f))
      /\ \E f \in S : g.reach = ReachKnown(w, o, f)
      /\ \A f \in S : ReachRank[ReachKnown(w, o, f)] <= ReachRank[g.reach]
      /\ g.exploited <=> (~Open(o, "catalog", "all") /\ \E f \in S : f \in w.exploited)
  BY GroupIs
<1>3. /\ h \in FindingsOver(Vulns(w))
      /\ \E f \in S : h.severity = SeverityKnown(w, p, f)
      /\ \A f \in S : SeverityRank[SeverityKnown(w, p, f)] <= SeverityRank[h.severity]
      /\ h.failed <=> (h.severity = "NONE" /\ \E f \in S : Open(p, "severity", f))
      /\ \E f \in S : h.reach = ReachKnown(w, p, f)
      /\ \A f \in S : ReachRank[ReachKnown(w, p, f)] <= ReachRank[h.reach]
      /\ h.exploited <=> (~Open(p, "catalog", "all") /\ \E f \in S : f \in w.exploited)
  <2>1. Sources(w, m, h.vuln) = S
    BY Zenon
  <2> HIDE DEF S
  <2> QED
    BY <1>0, <2>1, GroupIs
<1> HIDE DEF S
<1>4. \A f \in S :
         /\ SeverityRank[SeverityKnown(w, o, f)] <= SeverityRank[SeverityKnown(w, p, f)]
         /\ ReachRank[ReachKnown(w, o, f)] <= ReachRank[ReachKnown(w, p, f)]
         /\ SameSeverities(w, o, p) => SeverityKnown(w, p, f) = SeverityKnown(w, o, f)
         /\ SamePass(o, p) => ReachKnown(w, p, f) = ReachKnown(w, o, f)
         /\ SeverityRank[SeverityKnown(w, o, f)] \in Nat /\ SeverityRank[SeverityKnown(w, p, f)] \in Nat
         /\ ReachRank[ReachKnown(w, o, f)] \in Nat /\ ReachRank[ReachKnown(w, p, f)] \in Nat
  BY <1>1, SourceStays
<1>5. /\ g.severity \in Severities \cup {"NONE"} /\ h.severity \in Severities \cup {"NONE"}
      /\ g.reach \in Reaches /\ h.reach \in Reaches
      /\ SeverityRank[g.severity] \in 0..4 /\ SeverityRank[h.severity] \in 0..4
      /\ ReachRank[g.reach] \in 1..4 /\ ReachRank[h.reach] \in 1..4
  BY <1>2, <1>3, Ranks DEF FindingsOver
<1>6. SeverityRank[g.severity] <= SeverityRank[h.severity]
  BY <1>2, <1>3, <1>4, <1>5
<1>7. ReachRank[g.reach] <= ReachRank[h.reach]
  BY <1>2, <1>3, <1>4, <1>5
<1>8. g.exploited => h.exploited
  BY <1>2, <1>3, OpenStays
<1>9. ASSUME SameSeverities(w, o, p) PROVE h.severity = g.severity /\ (h.failed <=> g.failed)
  <2>1. SeverityRank[h.severity] <= SeverityRank[g.severity]
    BY <1>2, <1>3, <1>4, <1>5, <1>9
  <2>2. h.severity = g.severity
    BY <1>5, <1>6, <2>1, Ranks
  <2>3. \A f \in S : Open(p, "severity", f) <=> Open(o, "severity", f)
    BY <1>1, <1>9 DEF SameSeverities
  <2> QED
    BY <1>2, <1>3, <2>2, <2>3
<1>10. ASSUME SamePass(o, p) PROVE h.reach = g.reach
  <2>1. ReachRank[h.reach] <= ReachRank[g.reach]
    BY <1>2, <1>3, <1>4, <1>5, <1>10
  <2> QED
    BY <1>5, <1>7, <2>1, Ranks
<1>11. ASSUME SameCatalog(o, p) PROVE h.exploited <=> g.exploited
  BY <1>2, <1>3, <1>11 DEF SameCatalog
<1> QED
  BY <1>6, <1>7, <1>8, <1>9, <1>10, <1>11

(* Each merged finding has its like when more is answered, and before.     *)
LEMMA PairsAre ==
  ASSUME NEW w, KnownWorld(w), NEW o, NEW p, Scanned(o), Scanned(p), NEW m \in Modules(w),
         NEW g \in Groups(w, o, m)
  PROVE  \E h \in Groups(w, p, m) : h.vuln = g.vuln
<1>1. PICK f \in Sources(w, m, g.vuln) : TRUE
  BY GroupIs
<1>2. f \in Listed(w, m) /\ w.vulnOf[f] = g.vuln
  BY DEF Sources
<1> QED
  BY <1>2, GroupsAre

-----------------------------------------------------------------------------
(* Two readings compared, the one of what was known before and the one of  *)
(* what is known when more is answered.                                    *)

InCalled(w, m, g) == m = Self \/ (m \notin w.notBuilt /\ g.reach \in {"called", "none"})
InImported(w, m, g) == m # Self /\ m \notin w.notBuilt /\ g.reach = "imported"

(* The tiers of the findings of a reading.                                 *)
LEMMA ReadTiers ==
  ASSUME NEW w, KnownWorld(w), NEW o, NEW m \in Modules(w), NEW a, NEW s \in Severities,
         NEW g \in Groups(w, o, m)
  PROVE  /\ Given(g, a, s) \in ReadRow(w, o, m, a, s).findings
         /\ Given(g, a, s) \in Called(ReadRow(w, o, m, a, s)) <=> InCalled(w, m, g)
         /\ Given(g, a, s) \in Imported(ReadRow(w, o, m, a, s)) <=> InImported(w, m, g)
         /\ Given(g, a, s) \in FindingsOver(Vulns(w)) /\ Given(g, a, s).vuln = g.vuln
         /\ Given(g, a, s).exploited = g.exploited
<1> DEFINE x == ReadRow(w, o, m, a, s)
           f == Given(g, a, s)
<1>1. /\ x \in RowsOver(Modules(w), Vulns(w)) /\ SameModule(x, RowOf(w, o, m))
      /\ x.findings = {Given(h, a, s) : h \in Groups(w, o, m)}
  BY ReadRowIs
<1>2. f \in x.findings
  BY <1>1, Zenon
<1>3. g \in FindingsOver(Vulns(w))
  BY GroupsAre
<1>4. f \in FindingsOver(Vulns(w)) /\ f.vuln = g.vuln /\ f.reach = g.reach /\ f.exploited = g.exploited
  BY <1>3, GivenIs
<1>5. /\ RowOf(w, o, m) \in RowsOver(Modules(w), Vulns(w))
      /\ RowOf(w, o, m).self <=> m = Self
      /\ RowOf(w, o, m).notBuilt <=> m \in w.notBuilt
  BY RowOfIs
<1>6. /\ x.self <=> m = Self
      /\ x.notBuilt <=> m \in w.notBuilt
      /\ x.self \in BOOLEAN /\ x.notBuilt \in BOOLEAN
  BY <1>1, <1>5, RowIs DEF SameModule
<1> HIDE DEF x, f
<1>7. /\ TierOf(f, x) = "called" <=> InCalled(w, m, g)
      /\ TierOf(f, x) = "imported" <=> InImported(w, m, g)
  BY <1>4, <1>6, TierIs DEF InCalled, InImported
<1>8. /\ f \in Called(x) <=> InCalled(w, m, g)
      /\ f \in Imported(x) <=> InImported(w, m, g)
  BY <1>2, <1>7 DEF Called, Imported, InTier
<1> QED
  BY <1>2, <1>4, <1>8 DEF x, f

(* The rows of one module in two readings.                                 *)
LEMMA ReadRowsMatch ==
  ASSUME NEW w, KnownWorld(w), NEW o, NEW p, NEW m \in Modules(w), NEW a, NEW s \in Severities,
         NEW b, NEW t \in Severities
  PROVE  SameModule(ReadRow(w, p, m, b, t), ReadRow(w, o, m, a, s))
<1>1. ASSUME NEW q, NEW c, NEW u \in Severities
      PROVE  /\ ReadRow(w, q, m, c, u).module = m
             /\ ReadRow(w, q, m, c, u).self = (m = Self)
             /\ ReadRow(w, q, m, c, u).testOnly = (m \in w.testOnly)
             /\ ReadRow(w, q, m, c, u).notBuilt = (m \in w.notBuilt)
  <2> DEFINE x == ReadRow(w, q, m, c, u)
             r == RowOf(w, q, m)
  <2>1. SameModule(x, r)
    BY ReadRowIs
  <2>2. /\ r \in RowsOver(Modules(w), Vulns(w)) /\ r.module = m
        /\ r.self <=> m = Self
        /\ r.testOnly <=> m \in w.testOnly
        /\ r.notBuilt <=> m \in w.notBuilt
    BY RowOfIs
  <2> HIDE DEF x, r
  <2>3. r.self \in BOOLEAN /\ r.testOnly \in BOOLEAN /\ r.notBuilt \in BOOLEAN
    BY <2>2, RowIs
  <2>4. x.module = m /\ x.self = (m = Self) /\ x.testOnly = (m \in w.testOnly)
        /\ x.notBuilt = (m \in w.notBuilt)
    BY <2>1, <2>2, <2>3 DEF SameModule
  <2> QED
    BY <2>4 DEF x
<1>2. /\ ReadRow(w, p, m, b, t).module = ReadRow(w, o, m, a, s).module
      /\ ReadRow(w, p, m, b, t).self = ReadRow(w, o, m, a, s).self
      /\ ReadRow(w, p, m, b, t).testOnly = ReadRow(w, o, m, a, s).testOnly
      /\ ReadRow(w, p, m, b, t).notBuilt = ReadRow(w, o, m, a, s).notBuilt
  BY <1>1
<1> QED
  BY <1>2 DEF SameModule

Points(f) == CalledScore[SeverityOf(f)]

\* The pairs of merged findings of one vulnerability.
Pairs(w, o, p, m) == {z \in Groups(w, o, m) \X Groups(w, p, m) : z[1].vuln = z[2].vuln}

Below(w, o, p, a, s, b, t) ==
  \A m \in Modules(w) : \A z \in Pairs(w, o, p, m) :
    Points(Given(z[1], a, s)) <= Points(Given(z[2], b, t))
Above(w, o, p, a, s, b, t) ==
  \A m \in Modules(w) : \A z \in Pairs(w, o, p, m) :
    Points(Given(z[2], b, t)) <= Points(Given(z[1], a, s))

(* What was archived is archived still.                                    *)
LEMMA ArchivedStays ==
  ASSUME NEW w, KnownWorld(w), NEW o, NEW p \in SUBSET o, NEW m \in Modules(w),
         NEW a, NEW s \in Severities, NEW b, NEW t \in Severities,
         ReadRow(w, o, m, a, s).archived
  PROVE  ReadRow(w, p, m, b, t).archived
<1>1. RowOf(w, o, m).archived
  BY ReadRowIs
<1>2. (FlagFailed(p, m) => FlagFailed(o, m)) /\ (ModCheckFailed(p, m) => ModCheckFailed(o, m))
  BY OpenStays DEF FlagFailed, ModCheckFailed
<1>3. RowOf(w, p, m).archived
  BY <1>1, <1>2, RowOfIs
<1> QED
  BY <1>3, ReadRowIs

(* An answer never makes the score of a reading lower.                     *)
LEMMA BandsRise ==
  ASSUME NEW w, KnownWorld(w), NEW o, NEW p \in SUBSET o, Scanned(o),
         NEW a, NEW s \in Severities, NEW b, NEW t \in Severities, Below(w, o, p, a, s, b, t)
  PROVE  Score(Reading(w, o, a, s)) <= Score(Reading(w, p, b, t))
<1> DEFINE in == Reading(w, o, a, s)
           up == Reading(w, p, b, t)
<1>0. Scanned(p)
  BY ScannedStays
<1>1. /\ in.rows \in Trees(Modules(w), Vulns(w)) /\ up.rows \in Trees(Modules(w), Vulns(w))
      /\ in.rows = {ReadRow(w, o, m, a, s) : m \in Modules(w)}
      /\ up.rows = {ReadRow(w, p, m, b, t) : m \in Modules(w)}
      /\ in.mismatch => up.mismatch
  <2>1. /\ in.rows \in Trees(Modules(w), Vulns(w))
        /\ in.rows = {ReadRow(w, o, m, a, s) : m \in Modules(w)}
        /\ in.mismatch <=> w.mismatch /\ ~Open(o, "mod verify", "all")
    BY ReadingIs
  <2>2. /\ up.rows \in Trees(Modules(w), Vulns(w))
        /\ up.rows = {ReadRow(w, p, m, b, t) : m \in Modules(w)}
        /\ up.mismatch <=> w.mismatch /\ ~Open(p, "mod verify", "all")
    BY ReadingIs
  <2>3. Open(p, "mod verify", "all") => Open(o, "mod verify", "all")
    BY OpenStays
  <2> HIDE DEF in, up
  <2> QED
    BY <2>1, <2>2, <2>3, Zenon
<1>2. ASSUME NEW m \in Modules(w)
      PROVE  NoLess(ReadRow(w, p, m, b, t), ReadRow(w, o, m, a, s))
  <2> DEFINE x == ReadRow(w, o, m, a, s)
             y == ReadRow(w, p, m, b, t)
  <2>1. SameModule(y, x) /\ (x.archived => y.archived)
    BY ReadRowsMatch, ArchivedStays
  <2>2. ASSUME NEW f \in Called(x) \cup Imported(x)
        PROVE  \E k \in y.findings : Lighter(f, x, k, y)
    <3>1. f \in x.findings
      BY DEF Called, Imported, InTier
    <3>2. PICK g \in Groups(w, o, m) : f = Given(g, a, s)
      <4>1. x.findings = {Given(g, a, s) : g \in Groups(w, o, m)}
        BY ReadRowIs
      <4> QED
        BY <3>1, <4>1, Zenon
    <3>3. PICK h \in Groups(w, p, m) : h.vuln = g.vuln
      BY <1>0, PairsAre
    <3>4. /\ f.vuln = g.vuln /\ f.exploited = g.exploited
          /\ f \in Called(x) <=> InCalled(w, m, g)
          /\ f \in Imported(x) <=> InImported(w, m, g)
      BY <3>2, ReadTiers
    <3>5. /\ Given(h, b, t) \in y.findings /\ Given(h, b, t).vuln = h.vuln
          /\ Given(h, b, t).exploited = h.exploited
          /\ Given(h, b, t) \in Called(y) <=> InCalled(w, m, h)
          /\ Given(h, b, t) \in Imported(y) <=> InImported(w, m, h)
      BY ReadTiers
    <3>6. /\ ReachRank[g.reach] <= ReachRank[h.reach] /\ (g.exploited => h.exploited)
          /\ g.reach \in Reaches /\ h.reach \in Reaches
      <4>1. g \in FindingsOver(Vulns(w)) /\ h \in FindingsOver(Vulns(w))
        BY GroupsAre
      <4>2. g.reach \in Reaches /\ h.reach \in Reaches
        BY <4>1 DEF FindingsOver
      <4> QED
        BY <3>3, <4>2, PairIs
    <3>7. Points(f) <= Points(Given(h, b, t))
      <4>1. <<g, h>> \in Pairs(w, o, p, m)
        BY <3>3 DEF Pairs
      <4>2. Points(Given(g, a, s)) <= Points(Given(h, b, t))
        BY <4>1 DEF Below
      <4> QED
        BY <3>2, <4>2, Zenon
    <3>8. /\ InCalled(w, m, g) => InCalled(w, m, h)
          /\ InImported(w, m, g) => InCalled(w, m, h) \/ InImported(w, m, h)
      BY <3>6 DEF InCalled, InImported, ReachRank, Reaches
    <3> HIDE DEF x, y
    <3>9. Lighter(f, x, Given(h, b, t), y)
      BY <3>3, <3>4, <3>5, <3>6, <3>7, <3>8 DEF Lighter, Points
    <3> QED
      BY <3>5, <3>9
  <2>3. Covers(y, x)
    BY <2>2 DEF Covers
  <2> HIDE DEF x, y
  <2>4. NoLess(y, x)
    BY <2>1, <2>3 DEF NoLess
  <2> QED
    BY <2>4 DEF x, y
<1>3. \A r \in in.rows : \E q \in up.rows : NoLess(q, r)
  BY <1>1, <1>2
<1> HIDE DEF in, up
<1>4. Score(in) <= Score(up)
  BY <1>1, <1>3, ScoreGrowsByRows
<1> QED
  BY <1>4 DEF in, up

\* An answer leaves a merged finding where it counts, or moves a light one to the next tier.
Steady(w, m, g, h) ==
  \/ /\ InCalled(w, m, h) => InCalled(w, m, g) /\ (h.exploited => g.exploited)
     /\ InImported(w, m, h) => InCalled(w, m, g) \/ InImported(w, m, g)
  \/ /\ InCalled(w, m, h) /\ InImported(w, m, g) /\ ~h.exploited
     /\ h.severity = g.severity /\ g.severity \in {"LOW", "MEDIUM"}

AllSteady(w, o, p) ==
  \A m \in Modules(w) : \A z \in Pairs(w, o, p, m) : Steady(w, m, z[1], z[2])
SameVerify(o, p) == Open(p, "mod verify", "all") <=> Open(o, "mod verify", "all")

(* A severity that is known is read as it is.                              *)
LEMMA GivenKnown ==
  ASSUME NEW w, KnownWorld(w), NEW o, Scanned(o), NEW m \in Modules(w), NEW g \in Groups(w, o, m),
         g.severity # "NONE", NEW a, NEW s
  PROVE  Given(g, a, s) = g
<1>1. ~g.failed
  BY GroupIs
<1> QED
  BY <1>1 DEF Given, IsEstimated

\* What is archived once more is answered costs no more than this.
ArchivedWithin(w, p, K) ==
  \A m \in Modules(w) : RowOf(w, p, m).archived => Band(UpkeepIfArchived(RowOf(w, p, m))) <= K

(* Nothing found is the first band.                                        *)
LEMMA BandOfNothing == Band(0) = 1
BY DEF Band

(* An answer keeps a reading within a band that is no lower, if it moves   *)
(* no finding up and archives nothing that costs more.                     *)
LEMMA BandsHold ==
  ASSUME NEW w, KnownWorld(w), NEW o, NEW p \in SUBSET o, Scanned(o),
         NEW a, NEW s \in Severities, NEW b, NEW t \in Severities, Above(w, o, p, a, s, b, t),
         AllSteady(w, o, p), SameVerify(o, p),
         NEW K \in Nat, BandOf(w, o, a, s) <= K, ArchivedWithin(w, p, K)
  PROVE  BandOf(w, p, b, t) <= K
<1> DEFINE Y == Reading(w, o, a, s)
           X == Reading(w, p, b, t)
<1>0. Scanned(p)
  BY ScannedStays
<1>1. /\ Y.rows \in Trees(Modules(w), Vulns(w)) /\ X.rows \in Trees(Modules(w), Vulns(w))
      /\ Y.rows = {ReadRow(w, o, m, a, s) : m \in Modules(w)}
      /\ X.rows = {ReadRow(w, p, m, b, t) : m \in Modules(w)}
      /\ X.mismatch => Y.mismatch
  <2>1. /\ Y.rows \in Trees(Modules(w), Vulns(w))
        /\ Y.rows = {ReadRow(w, o, m, a, s) : m \in Modules(w)}
        /\ Y.mismatch <=> w.mismatch /\ ~Open(o, "mod verify", "all")
    BY ReadingIs
  <2>2. /\ X.rows \in Trees(Modules(w), Vulns(w))
        /\ X.rows = {ReadRow(w, p, m, b, t) : m \in Modules(w)}
        /\ X.mismatch <=> w.mismatch /\ ~Open(p, "mod verify", "all")
    BY ReadingIs
  <2> HIDE DEF X, Y
  <2> QED
    BY <2>1, <2>2, Zenon DEF SameVerify
<1>2. ASSUME NEW m \in Modules(w)
      PROVE  /\ SameModule(ReadRow(w, o, m, a, s), ReadRow(w, p, m, b, t))
             /\ Tallies(ReadRow(w, o, m, a, s), ReadRow(w, p, m, b, t))
  <2> DEFINE y == ReadRow(w, o, m, a, s)
             x == ReadRow(w, p, m, b, t)
  <2>1. SameModule(y, x)
    BY ReadRowsMatch
  <2>2. ASSUME NEW f \in Called(x) \cup Imported(x)
        PROVE  \E k \in y.findings : Lighter(f, x, k, y) \/ Moved(f, x, k, y)
    <3>1. f \in x.findings
      BY DEF Called, Imported, InTier
    <3>2. PICK h \in Groups(w, p, m) : f = Given(h, b, t)
      <4>1. x.findings = {Given(g, b, t) : g \in Groups(w, p, m)}
        BY ReadRowIs, SMTT(30)
      <4> QED
        BY <3>1, <4>1, Zenon
    <3>3. PICK g \in Groups(w, o, m) : g.vuln = h.vuln
      BY <1>0, PairsAre
    <3>4. /\ f.vuln = h.vuln /\ f.exploited = h.exploited
          /\ f \in Called(x) <=> InCalled(w, m, h)
          /\ f \in Imported(x) <=> InImported(w, m, h)
      BY <3>2, ReadTiers
    <3>5. /\ Given(g, a, s) \in y.findings /\ Given(g, a, s).vuln = g.vuln
          /\ Given(g, a, s).exploited = g.exploited
          /\ Given(g, a, s) \in Called(y) <=> InCalled(w, m, g)
          /\ Given(g, a, s) \in Imported(y) <=> InImported(w, m, g)
      BY ReadTiers
    <3>6. Points(f) <= Points(Given(g, a, s)) /\ Steady(w, m, g, h)
      <4> DEFINE z == <<g, h>>
      <4>1. z \in Pairs(w, o, p, m)
        BY <3>3 DEF Pairs
      <4>2. Points(Given(z[2], b, t)) <= Points(Given(z[1], a, s)) /\ Steady(w, m, z[1], z[2])
        <5> HIDE DEF z
        <5> QED
          BY <4>1 DEF Above, AllSteady
      <4> QED
        BY <3>2, <4>2, Zenon
    <3>7. CASE /\ InCalled(w, m, h) => InCalled(w, m, g) /\ (h.exploited => g.exploited)
               /\ InImported(w, m, h) => InCalled(w, m, g) \/ InImported(w, m, g)
      <4> HIDE DEF x, y
      <4>1. Lighter(f, x, Given(g, a, s), y)
        BY <3>3, <3>4, <3>5, <3>6, <3>7 DEF Lighter, Points
      <4> QED
        BY <3>5, <4>1
    <3>8. CASE /\ InCalled(w, m, h) /\ InImported(w, m, g) /\ ~h.exploited
               /\ h.severity = g.severity /\ g.severity \in {"LOW", "MEDIUM"}
      <4>1. Given(g, a, s) = g /\ f = h
        BY <1>0, <3>2, <3>8, GivenKnown
      <4>2. SeverityOf(f) = g.severity /\ SeverityOf(g) = g.severity
        BY <3>8, <4>1 DEF SeverityOf
      <4> HIDE DEF x, y
      <4>3. Moved(f, x, Given(g, a, s), y)
        BY <3>3, <3>4, <3>5, <3>8, <4>1, <4>2 DEF Moved
      <4> QED
        BY <3>5, <4>3
    <3> QED
      BY <3>6, <3>7, <3>8 DEF Steady
  <2>3. Tallies(y, x)
    BY <2>2 DEF Tallies
  <2> QED
    BY <2>1, <2>3
<1>3. ASSUME NEW m \in Modules(w) PROVE Band(UpkeepScore(ReadRow(w, p, m, b, t))) <= K
  <2> DEFINE x == ReadRow(w, p, m, b, t)
             r == RowOf(w, p, m)
  <2>1. SameModule(x, r) /\ x.archived = r.archived
    BY ReadRowIs
  <2>2. r.archived => Band(UpkeepIfArchived(r)) <= K
    BY DEF ArchivedWithin
  <2>3. UpkeepIfArchived(x) = UpkeepIfArchived(r)
    BY <2>1, Zenon DEF SameModule, UpkeepIfArchived
  <2>4. 1 <= K
    <3>1. BandOf(w, o, a, s) \in 1..5
      <4>1. Score(Y) \in 0..100
        BY ReadingIs
      <4> HIDE DEF Y
      <4>2. Band(Score(Y)) \in 1..5
        BY <4>1, Bands
      <4> QED
        BY <4>2, Zenon DEF BandOf, Y
    <3> QED
      BY <3>1
  <2> HIDE DEF x, r
  <2>6. Band(UpkeepScore(x)) <= K
    <3>1. CASE x.archived
      <4>1. UpkeepScore(x) = UpkeepIfArchived(r)
        BY <2>3, <3>1, Zenon DEF UpkeepScore
      <4> QED
        BY <2>1, <2>2, <3>1, <4>1
    <3>2. CASE ~x.archived
      <4>1. UpkeepScore(x) = 0
        BY <3>2, Zenon DEF UpkeepScore
      <4> QED
        BY <2>4, <4>1, BandOfNothing
    <3> QED
      BY <3>1, <3>2
  <2> QED
    BY <2>6 DEF x
<1>4. \A x \in X.rows : /\ Band(UpkeepScore(x)) <= K
                        /\ \E y \in Y.rows : SameModule(y, x) /\ Tallies(y, x)
  BY <1>1, <1>2, <1>3
<1>5. Band(Score(Y)) <= K
  BY Zenon DEF BandOf
<1> HIDE DEF X, Y
<1>6. Band(Score(X)) <= K
  BY <1>1, <1>4, <1>5, BandsGrow
<1> QED
  BY <1>6, Zenon DEF BandOf, X

-----------------------------------------------------------------------------
(* The severities of two readings.                                         *)

(* The points are in the order of the severities.                          *)
LEMMA PointsOrder ==
  /\ \A u \in Severities : CalledScore["LOW"] <= CalledScore[u] /\ CalledScore[u] <= CalledScore["CRITICAL"]
  /\ \A u, v \in Severities : SeverityRank[u] <= SeverityRank[v] => CalledScore[u] <= CalledScore[v]
BY Tables DEF Severities, SeverityRank

(* The two findings of a pair.                                             *)
LEMMA PairsIn ==
  ASSUME NEW w, KnownWorld(w), NEW o, NEW p, NEW m \in Modules(w), NEW z \in Pairs(w, o, p, m)
  PROVE  /\ z[1] \in Groups(w, o, m) /\ z[2] \in Groups(w, p, m) /\ z[2].vuln = z[1].vuln
         /\ z[1] \in FindingsOver(Vulns(w)) /\ z[2] \in FindingsOver(Vulns(w))
<1>1. z[1] \in Groups(w, o, m) /\ z[2] \in Groups(w, p, m) /\ z[2].vuln = z[1].vuln
  BY DEF Pairs
<1> QED
  BY <1>1, GroupsAre

(* The same severities, when no severity was asked for.                    *)
LEMMA SameReading ==
  ASSUME NEW w, KnownWorld(w), NEW o, NEW p \in SUBSET o, Scanned(o), SameSeverities(w, o, p),
         NEW a, NEW s \in Severities
  PROVE  Below(w, o, p, a, s, a, s) /\ Above(w, o, p, a, s, a, s)
<1>1. ASSUME NEW m \in Modules(w), NEW z \in Pairs(w, o, p, m)
      PROVE  /\ Points(Given(z[1], a, s)) = Points(Given(z[2], a, s))
             /\ Points(Given(z[1], a, s)) \in Nat
  <2> DEFINE g == z[1]
             h == z[2]
  <2>1. /\ g \in Groups(w, o, m) /\ h \in Groups(w, p, m) /\ h.vuln = g.vuln
        /\ g \in FindingsOver(Vulns(w)) /\ h \in FindingsOver(Vulns(w))
    BY PairsIn
  <2> HIDE DEF g, h
  <2>2. h.severity = g.severity /\ (h.failed <=> g.failed)
    BY <2>1, PairIs
  <2>3. Given(h, a, s).severity = Given(g, a, s).severity
    BY <2>1, <2>2, GivenIs
  <2>4. Points(Given(g, a, s)) = Points(Given(h, a, s))
    BY <2>3, Zenon DEF Points, SeverityOf
  <2>5. Given(g, a, s) \in FindingsOver(Vulns(w))
    BY <2>1, GivenIs
  <2>6. Points(Given(g, a, s)) \in Nat
    BY <2>5, SeveritiesOf DEF Points
  <2> QED
    BY <2>4, <2>6 DEF g, h
<1> QED
  BY <1>1 DEF Below, Above

(* Between the least and the most that the unknown ones can be.            *)
LEMMA ReadBetween ==
  ASSUME NEW w, KnownWorld(w), NEW o, NEW p \in SUBSET o, Scanned(o), NEW b, NEW t \in Severities
  PROVE  /\ Below(w, o, p, "estimated", "LOW", b, t)
         /\ (\A m \in Modules(w) : \A z \in Pairs(w, o, p, m) :
                z[1].severity = "NONE" \/ z[2].severity = z[1].severity)
              => Above(w, o, p, "estimated", "CRITICAL", b, t)
<1>0. "LOW" \in Severities /\ "CRITICAL" \in Severities /\ "NONE" \notin Severities
  BY DEF Severities
<1>1. ASSUME NEW m \in Modules(w), NEW z \in Pairs(w, o, p, m)
      PROVE  /\ Points(Given(z[1], "estimated", "LOW")) <= Points(Given(z[2], b, t))
             /\ z[1].severity = "NONE" \/ z[2].severity = z[1].severity
                  => Points(Given(z[2], b, t)) <= Points(Given(z[1], "estimated", "CRITICAL"))
  <2> DEFINE g == z[1]
             h == z[2]
             k == Given(h, b, t)
             low == Given(g, "estimated", "LOW")
             high == Given(g, "estimated", "CRITICAL")
  <2>1. /\ g \in Groups(w, o, m) /\ h \in Groups(w, p, m) /\ h.vuln = g.vuln
        /\ g \in FindingsOver(Vulns(w)) /\ h \in FindingsOver(Vulns(w))
    BY PairsIn
  <2> HIDE DEF g, h
  <2>2. SeverityRank[g.severity] <= SeverityRank[h.severity]
    BY <2>1, PairIs
  <2>3. k \in FindingsOver(Vulns(w))
    BY <2>1, GivenIs
  <2>4. SeverityOf(k) \in Severities
    BY <2>3, SeveritiesOf
  <2>5. /\ low.severity = IF g.severity = "NONE" THEN "LOW" ELSE g.severity
        /\ high.severity = IF g.severity = "NONE" THEN "CRITICAL" ELSE g.severity
    BY <1>0, <2>1, GivenIs
  <2>6. g.severity \in Severities \cup {"NONE"} /\ h.severity \in Severities \cup {"NONE"}
    BY <2>1 DEF FindingsOver
  <2>7. CASE g.severity = "NONE"
    <3>1. SeverityOf(low) = "LOW" /\ SeverityOf(high) = "CRITICAL"
      BY <2>5, <2>7 DEF SeverityOf
    <3> HIDE DEF k, low, high
    <3>2. Points(low) <= Points(k) /\ Points(k) <= Points(high)
      BY <2>4, <3>1, PointsOrder DEF Points
    <3> QED
      BY <3>2 DEF k, low, high, g, h
  <2>8. CASE g.severity # "NONE"
    <3>1. h.severity # "NONE" /\ g.severity \in Severities /\ h.severity \in Severities
      BY <1>0, <2>2, <2>6, <2>8, Ranks
    <3>2. SeverityOf(low) = g.severity /\ SeverityOf(high) = g.severity
      BY <2>5, <2>8 DEF SeverityOf
    <3>3. k = h
      BY <2>1, <3>1, GivenKnown, ScannedStays
    <3>4. SeverityOf(k) = h.severity
      BY <3>1, <3>3 DEF SeverityOf
    <3> HIDE DEF k, low, high
    <3>5. Points(low) <= Points(k)
      BY <2>2, <3>1, <3>2, <3>4, PointsOrder DEF Points
    <3>6. h.severity = g.severity => Points(k) <= Points(high)
      <4>1. CalledScore[g.severity] <= CalledScore[g.severity]
        BY <3>1, PointsOrder, Ranks
      <4> QED
        BY <3>2, <3>4, <4>1, Zenon DEF Points
    <3> QED
      BY <2>8, <3>5, <3>6 DEF k, low, high, g, h
  <2> QED
    BY <2>7, <2>8
<1> QED
  BY <1>1 DEF Below, Above

-----------------------------------------------------------------------------
(* The called pass: when it may be skipped.                                *)

ImportedOf(r) == {f \in r.findings : f.reach = "imported"}
ReachingAs(r, reach) == {[f EXCEPT !.reach = reach] : f \in ImportedOf(r)}
Weighty(f) == f.exploited \/ f.severity \in {"NONE", "HIGH", "CRITICAL"}

(* The row of the imported findings alone.                                 *)
LEMMA OnlyImportedIs ==
  ASSUME NEW M, NEW V, NEW r \in RowsOver(M, V), NEW reach \in {"imported", "called"},
         NEW t \in BOOLEAN
  PROVE  /\ OnlyImported(r, reach, t) \in RowsOver(M, V)
         /\ OnlyImported(r, reach, t).testOnly = t
         /\ OnlyImported(r, reach, t).module = r.module
         /\ reach = "called" => /\ Called(OnlyImported(r, reach, t)) = ReachingAs(r, reach)
                                /\ Imported(OnlyImported(r, reach, t)) = {}
         /\ reach = "imported" => /\ Imported(OnlyImported(r, reach, t)) = ReachingAs(r, reach)
                                  /\ Called(OnlyImported(r, reach, t)) = {}
         /\ OnlyImported(r, reach, t).findings = ReachingAs(r, reach)
         /\ ReachingAs(r, reach) \subseteq FindingsOver(V)
<1> DEFINE no == FALSE
           F == ReachingAs(r, reach)
           Set(q, a, b, G) == [q EXCEPT !.self = a, !.testOnly = b, !.notBuilt = a, !.findings = G]
           o == OnlyImported(r, reach, t)
<1>1. o = Set(r, no, t, F)
  BY Zenon DEF OnlyImported, ReachingAs, ImportedOf
<1>2. no \in BOOLEAN /\ ~no
  OBVIOUS
<1>3. F \in SUBSET FindingsOver(V)
  <2>1. r.findings \subseteq FindingsOver(V)
    BY RowIs
  <2>2. \A f \in FindingsOver(V) : [f EXCEPT !.reach = reach] \in FindingsOver(V)
    BY DEF FindingsOver, Reaches
  <2> QED
    BY <2>1, <2>2 DEF ReachingAs, ImportedOf
<1>4. IsFiniteSet(F)
  <2> DEFINE I == ImportedOf(r)
             as == [f \in I |-> [f EXCEPT !.reach = reach]]
  <2>1. F = {as[f] : f \in DOMAIN as}
    BY Zenon DEF ReachingAs
  <2>2. IsFiniteSet(I)
    <3>1. I \subseteq r.findings /\ IsFiniteSet(r.findings)
      BY RowIs DEF ImportedOf
    <3> QED
      BY <3>1, FS_Subset
  <2>3. IsFiniteSet(DOMAIN as)
    BY <2>2, Zenon
  <2> HIDE DEF as, F
  <2> QED
    BY <2>1, <2>3, ImageIsFinite
<1>5. \A f \in F : f.reach = reach
  <2>1. r.findings \subseteq FindingsOver(V)
    BY RowIs
  <2>2. \A f \in FindingsOver(V) : [f EXCEPT !.reach = reach].reach = reach
    BY DEF FindingsOver
  <2> QED
    BY <2>1, <2>2 DEF ReachingAs, ImportedOf
<1> HIDE DEF F, no
<1>6. /\ Set(r, no, t, F) \in RowsOver(M, V)
      /\ Set(r, no, t, F).self = no /\ Set(r, no, t, F).notBuilt = no
      /\ Set(r, no, t, F).testOnly = t /\ Set(r, no, t, F).module = r.module
      /\ Set(r, no, t, F).findings = F
  BY <1>2, <1>3, <1>4 DEF RowsOver
<1> HIDE DEF Set, o
<1>7. o \in RowsOver(M, V) /\ o.self = no /\ o.notBuilt = no /\ o.testOnly = t /\ o.module = r.module
      /\ o.findings = F
  BY <1>1, <1>6, Zenon
<1>8. ASSUME NEW f \in F
      PROVE  /\ TierOf(f, o) = "called" <=> reach = "called"
             /\ TierOf(f, o) = "imported" <=> reach = "imported"
  <2>1. f \in FindingsOver(V) /\ f.reach = reach /\ o.self \in BOOLEAN /\ o.notBuilt \in BOOLEAN
        /\ ~o.self /\ ~o.notBuilt
    BY <1>2, <1>3, <1>5, <1>7
  <2> QED
    BY <2>1, TierIs
<1>9. /\ reach = "called" => Called(o) = F /\ Imported(o) = {}
      /\ reach = "imported" => Imported(o) = F /\ Called(o) = {}
  BY <1>7, <1>8 DEF Called, Imported, InTier
<1> QED
  BY <1>3, <1>7, <1>9 DEF F, o

(* What becomes of an imported finding.                                    *)
LEMMA ReachingIs ==
  ASSUME NEW M, NEW V, NEW r \in RowsOver(M, V), NEW reach \in {"imported", "called"}
  PROVE  /\ \A f \in ImportedOf(r) : \E g \in ReachingAs(r, reach) :
              g.severity = f.severity /\ g.exploited = f.exploited
         /\ \A g \in ReachingAs(r, reach) : \E f \in ImportedOf(r) :
              g.severity = f.severity /\ g.exploited = f.exploited
<1>1. ImportedOf(r) \subseteq FindingsOver(V)
  BY RowIs DEF ImportedOf
<1>2. \A f \in FindingsOver(V) :
        /\ [f EXCEPT !.reach = reach].severity = f.severity
        /\ [f EXCEPT !.reach = reach].exploited = f.exploited
  BY DEF FindingsOver
<1> QED
  BY <1>1, <1>2 DEF ReachingAs

(* A row of findings that weigh little is in one band, whether they are    *)
(* imported or called.                                                     *)
LEMMA LightRows ==
  ASSUME NEW M, NEW V, NEW r \in RowsOver(M, V), NEW t \in BOOLEAN,
         \A f \in ImportedOf(r) : ~Weighty(f)
  PROVE  Band(VulnScore(OnlyImported(r, "imported", t))) = Band(VulnScore(OnlyImported(r, "called", t)))
<1> DEFINE a == OnlyImported(r, "imported", t)
           b == OnlyImported(r, "called", t)
<1>1. /\ a \in RowsOver(M, V) /\ a.testOnly = t /\ Imported(a) = ReachingAs(r, "imported")
      /\ Called(a) = {} /\ ReachingAs(r, "imported") \subseteq FindingsOver(V)
  BY OnlyImportedIs
<1>2. /\ b \in RowsOver(M, V) /\ b.testOnly = t /\ Called(b) = ReachingAs(r, "called")
      /\ Imported(b) = {} /\ ReachingAs(r, "called") \subseteq FindingsOver(V)
  BY OnlyImportedIs
<1>3. \A f \in ImportedOf(r) : f.severity \in {"LOW", "MEDIUM"} /\ ~f.exploited
  <2>1. ImportedOf(r) \subseteq FindingsOver(V)
    BY RowIs DEF ImportedOf
  <2> QED
    BY <2>1 DEF Weighty, FindingsOver, Severities
<1>4. \A reach \in {"imported", "called"} : \A g \in ReachingAs(r, reach) :
        SeverityOf(g) = g.severity /\ g.severity \in {"LOW", "MEDIUM"} /\ ~g.exploited
  BY <1>3, ReachingIs DEF SeverityOf
<1> DEFINE medium == \E f \in ImportedOf(r) : f.severity = "MEDIUM"
<1>5. \A reach \in {"imported", "called"} :
        /\ medium => \E g \in ReachingAs(r, reach) : SeverityOf(g) = "MEDIUM"
        /\ ~medium => \A g \in ReachingAs(r, reach) : SeverityOf(g) = "LOW"
        /\ ReachingAs(r, reach) = {} <=> ImportedOf(r) = {}
  BY <1>3, <1>4, ReachingIs
<1> HIDE DEF a, b, medium
<1>6. /\ CalledPoints(a) = 0 /\ Further(a) = 0
      /\ ImportedPoints(a) = IF ImportedOf(r) = {} THEN 0 ELSE IF medium THEN 32 ELSE 11
  <2>1. /\ CalledPoints(a) = 0
        /\ \A f \in Imported(a) : ImportedScore[SeverityOf(f)] <= ImportedPoints(a)
        /\ ImportedPoints(a) = 0
            \/ \E f \in Imported(a) : ImportedScore[SeverityOf(f)] = ImportedPoints(a)
        /\ ImportedPoints(a) \in 0..50
    BY <1>1, RowPoints
  <2>2. Further(a) = 0
    <3>1. {f \in Called(a) : HighOrCritical(f)} = {}
      BY <1>1
    <3> QED
      BY <3>1, FS_EmptySet DEF Further
  <2>3. \A f \in Imported(a) : SeverityOf(f) \in {"LOW", "MEDIUM"}
    BY <1>1, <1>4
  <2>4. /\ medium => \E f \in Imported(a) : SeverityOf(f) = "MEDIUM"
        /\ ~medium => \A f \in Imported(a) : SeverityOf(f) = "LOW"
        /\ Imported(a) = {} <=> ImportedOf(r) = {}
    BY <1>1, <1>5
  <2> QED
    BY <2>1, <2>2, <2>3, <2>4, Tables
<1>7. /\ ImportedPoints(b) = 0 /\ Further(b) = 0
      /\ CalledPoints(b) = IF ImportedOf(r) = {} THEN 0 ELSE IF medium THEN 45 ELSE 15
  <2>1. /\ ImportedPoints(b) = 0
        /\ \A f \in Called(b) : CalledScore[SeverityOf(f)] <= CalledPoints(b)
        /\ CalledPoints(b) = 0
            \/ \E f \in Called(b) : CalledScore[SeverityOf(f)] = CalledPoints(b)
        /\ CalledPoints(b) \in 0..90
    BY <1>2, RowPoints
  <2>2. Further(b) = 0
    <3>1. {f \in Called(b) : HighOrCritical(f)} = {}
      BY <1>2, <1>4 DEF HighOrCritical
    <3> QED
      BY <3>1, FS_EmptySet DEF Further
  <2>3. \A f \in Called(b) : SeverityOf(f) \in {"LOW", "MEDIUM"}
    BY <1>2, <1>4
  <2>4. /\ medium => \E f \in Called(b) : SeverityOf(f) = "MEDIUM"
        /\ ~medium => \A f \in Called(b) : SeverityOf(f) = "LOW"
        /\ Called(b) = {} <=> ImportedOf(r) = {}
    BY <1>2, <1>5
  <2> QED
    BY <2>1, <2>2, <2>3, <2>4, Tables
<1>8. /\ Full(a) = ImportedPoints(a) /\ Full(b) = CalledPoints(b)
  <2>1. ~(\E f \in Called(a) : f.exploited) /\ ~(\E f \in Called(b) : f.exploited)
    BY <1>1, <1>2, <1>4
  <2>2. Full(a) = Worst(a) /\ Full(b) = Worst(b)
    BY <2>1 DEF Full
  <2>3. Bonus(a) = 0 /\ Bonus(b) = 0
    BY <1>6, <1>7 DEF Bonus
  <2> QED
    BY <1>6, <1>7, <2>2, <2>3 DEF Worst, Larger, Smaller
<1>9. /\ VulnScore(a) = IF t THEN Smaller(Full(a) \div 2, TestOnlyCap) ELSE Full(a)
      /\ VulnScore(b) = IF t THEN Smaller(Full(b) \div 2, TestOnlyCap) ELSE Full(b)
  BY <1>1, <1>2, VulnScoreParts
<1>10. \/ Full(a) = 0 /\ Full(b) = 0
       \/ Full(a) = 11 /\ Full(b) = 15
       \/ Full(a) = 32 /\ Full(b) = 45
  BY <1>6, <1>7, <1>8
<1>11. Band(VulnScore(a)) = Band(VulnScore(b))
  <2>1. /\ Band(0) = 1 /\ Band(11) = 2 /\ Band(15) = 2 /\ Band(32) = 3 /\ Band(45) = 3
        /\ Band(5) = 1 /\ Band(7) = 1 /\ Band(16) = 2 /\ Band(22) = 2
    BY DEF Band
  <2>2. /\ Smaller(0 \div 2, TestOnlyCap) = 0 /\ Smaller(11 \div 2, TestOnlyCap) = 5
        /\ Smaller(15 \div 2, TestOnlyCap) = 7 /\ Smaller(32 \div 2, TestOnlyCap) = 16
        /\ Smaller(45 \div 2, TestOnlyCap) = 22
    BY DEF Smaller, TestOnlyCap
  <2> QED
    BY <1>9, <1>10, <2>1, <2>2
<1> QED
  BY <1>11 DEF a, b

(* A severe finding is in a higher band when it is called.                 *)
LEMMA SevereRows ==
  ASSUME NEW M, NEW V, NEW r \in RowsOver(M, V), NEW f \in ImportedOf(r),
         f.severity \in {"HIGH", "CRITICAL"}
  PROVE  Band(VulnScore(OnlyImported(r, "imported", FALSE)))
           # Band(VulnScore(OnlyImported(r, "called", FALSE)))
<1> DEFINE no == FALSE
<1>0. no \in BOOLEAN /\ ~no
  OBVIOUS
<1> HIDE DEF no
<1> DEFINE a == OnlyImported(r, "imported", no)
           b == OnlyImported(r, "called", no)
<1>1. /\ a \in RowsOver(M, V) /\ a.testOnly = no /\ Imported(a) = ReachingAs(r, "imported")
      /\ Called(a) = {}
  BY <1>0, OnlyImportedIs
<1>2. /\ b \in RowsOver(M, V) /\ b.testOnly = no /\ Called(b) = ReachingAs(r, "called")
  BY <1>0, OnlyImportedIs
<1>3. PICK g \in ReachingAs(r, "called") : g.severity = f.severity
  BY ReachingIs
<1> HIDE DEF a, b
<1>4. CalledScore[SeverityOf(g)] >= 70 /\ CalledScore[SeverityOf(g)] <= CalledPoints(b)
  <2>1. SeverityOf(g) \in {"HIGH", "CRITICAL"}
    BY <1>3 DEF SeverityOf
  <2>2. \A h \in Called(b) : CalledScore[SeverityOf(h)] <= CalledPoints(b)
    BY <1>2, RowPoints
  <2> QED
    BY <1>2, <1>3, <2>1, <2>2, Tables
<1>5. Full(b) \in 0..100 /\ Full(b) >= 70
  <2>1. Full(b) \in 0..100 /\ Worst(b) <= Full(b) /\ CalledPoints(b) <= Worst(b) /\ Worst(b) \in 0..100
    BY <1>2, VulnScoreIs
  <2>2. CalledPoints(b) \in 0..90 /\ CalledScore[SeverityOf(g)] \in Nat
    <3>1. CalledPoints(b) \in 0..90 /\ g \in FindingsOver(V)
      BY <1>2, <1>3, RowPoints, RowIs DEF Called, InTier
    <3> QED
      BY <3>1, SeveritiesOf
  <2> QED
    BY <1>4, <2>1, <2>2
<1>6. Full(a) \in 0..50
  <2>1. CalledPoints(a) = 0 /\ ImportedPoints(a) \in 0..50
    BY <1>1, RowPoints
  <2>2. Further(a) = 0
    <3>1. {h \in Called(a) : HighOrCritical(h)} = {}
      BY <1>1
    <3> QED
      BY <3>1, FS_EmptySet DEF Further
  <2>3. Full(a) = Worst(a)
    BY <1>1 DEF Full
  <2> QED
    BY <2>1, <2>2, <2>3 DEF Worst, Bonus, Larger, Smaller
<1>7. VulnScore(a) = Full(a) /\ VulnScore(b) = Full(b)
  BY <1>0, <1>1, <1>2, VulnScoreParts
<1>8. \A i \in 0..50, j \in 70..100 : Band(i) # Band(j)
  BY DEF Band
<1>9. Band(VulnScore(a)) # Band(VulnScore(b))
  BY <1>5, <1>6, <1>7, <1>8
<1> QED
  BY <1>9, Zenon DEF a, b, no

(* A tree of imported findings that weigh little.                          *)
LEMMA LightTree ==
  ASSUME NEW M, NEW V, NEW R \in SUBSET RowsOver(M, V), NEW reach \in {"imported", "called"},
         \A r \in R : \A f \in ImportedOf(r) : ~Weighty(f)
  PROVE  TreeScore([rows |-> {OnlyImported(r, reach, FALSE) : r \in R}, mismatch |-> FALSE]) = 0
<1> DEFINE no == FALSE
           Q == {OnlyImported(r, reach, no) : r \in R}
           Tree(S, x) == [rows |-> S, mismatch |-> x]
<1>0. no \in BOOLEAN /\ ~no
  OBVIOUS
<1> HIDE DEF no
<1>1. ASSUME NEW q \in Q, NEW f \in q.findings PROVE ~HighOrCritical(f) /\ ~f.exploited
  <2>1. PICK r \in R : q = OnlyImported(r, reach, no)
    OBVIOUS
  <2>2. q.findings = ReachingAs(r, reach)
    BY <1>0, <2>1, OnlyImportedIs
  <2>3. PICK g \in ImportedOf(r) : f.severity = g.severity /\ f.exploited = g.exploited
    <3>1. r \in RowsOver(M, V) /\ f \in ReachingAs(r, reach)
      BY <2>2
    <3> HIDE DEF Q
    <3> QED
      BY <3>1, ReachingIs
  <2>4. ~Weighty(g)
    OBVIOUS
  <2> QED
    BY <2>3, <2>4 DEF Weighty, HighOrCritical, SeverityOf
<1> HIDE DEF Q
<1>2. \A tiers : Severe(Q, tiers) = {}
  <2>1. \A tiers : \A q \in Counted(Q) : SevereOf(q, tiers) = {}
    BY <1>1 DEF SevereOf, Counted
  <2> QED
    BY <2>1 DEF Severe
<1>3. ~Fatal(Q)
  BY <1>1 DEF Fatal, Counted, Called, InTier, HighOrCritical
<1>4. Cardinality({}) = 0
  BY FS_EmptySet
<1>5. Tree(Q, no).rows = Q /\ ~Tree(Q, no).mismatch
  BY <1>0
<1> DEFINE in == Tree(Q, no)
<1> HIDE DEF Tree, in
<1>6. in.rows = Q /\ ~in.mismatch
  BY <1>5 DEF in
<1>7. TreeScore(in) = 0
  <2>1. /\ Cardinality(Severe(in.rows, {"called"})) = 0
        /\ Cardinality(Severe(in.rows, {"called", "imported"})) = 0
        /\ ~(in.mismatch \/ Fatal(in.rows))
    BY <1>2, <1>3, <1>4, <1>6
  <2> QED
    BY <2>1, TreeScoreParts DEF TreeCalledFindings, TreeImportedOrCalled
<1> QED
  BY <1>7, Zenon DEF in, Tree, Q, no

(* The called pass may be skipped when no imported finding weighs much.    *)
LEMMA CalledPassIs ==
  ASSUME NEW M, NEW V, NEW R \in SUBSET RowsOver(M, V)
  PROVE  CalledPassCanChangeLetter(R) <=> \E r \in R : \E f \in ImportedOf(r) : Weighty(f)
<1> DEFINE imported == {f \in UNION {r.findings : r \in R} : f.reach = "imported"}
           exploited == \E f \in imported : f.exploited \/ IsEstimated(f)
           Banded(r, t) == Band(VulnScore(OnlyImported(r, "imported", t)))
                             = Band(VulnScore(OnlyImported(r, "called", t)))
           rows == \E r \in R, t \in BOOLEAN : ~Banded(r, t)
           Treed(reach) == Band(TreeScore([rows |-> {OnlyImported(r, reach, FALSE) : r \in R},
                                           mismatch |-> FALSE]))
           tree == Treed("imported") # Treed("called")
           heavy == \E r \in R : \E f \in ImportedOf(r) : Weighty(f)
<1>1. CalledPassCanChangeLetter(R) <=> exploited \/ rows \/ tree
  BY Zenon DEF CalledPassCanChangeLetter
<1>2. exploited <=> \E r \in R : \E f \in ImportedOf(r) : f.exploited \/ f.severity = "NONE"
  BY DEF ImportedOf, IsEstimated
<1>3. ASSUME ~heavy PROVE ~exploited /\ ~rows /\ ~tree
  <2>1. \A r \in R : \A f \in ImportedOf(r) : ~Weighty(f)
    BY <1>3
  <2>2. ~exploited
    BY <1>2, <2>1 DEF Weighty
  <2>3. \A r \in R, t \in BOOLEAN : Banded(r, t)
    BY <2>1, LightRows
  <2>4. Treed("imported") = Band(0) /\ Treed("called") = Band(0)
    <3>1. \A reach \in {"imported", "called"} :
            TreeScore([rows |-> {OnlyImported(r, reach, FALSE) : r \in R}, mismatch |-> FALSE]) = 0
      BY <2>1, LightTree
    <3> QED
      BY <3>1, Zenon
  <2> HIDE DEF Banded, Treed, exploited
  <2> QED
    BY <2>2, <2>3, <2>4
<1>4. ASSUME heavy, ~exploited PROVE rows
  <2>1. PICK r \in R : \E f \in ImportedOf(r) : Weighty(f)
    BY <1>4
  <2>2. PICK f \in ImportedOf(r) : Weighty(f)
    BY <2>1
  <2>3. f.severity \in {"HIGH", "CRITICAL"}
    BY <1>2, <1>4, <2>2 DEF Weighty
  <2>4. ~Banded(r, FALSE)
    BY <2>3, SevereRows
  <2>5. FALSE \in BOOLEAN
    OBVIOUS
  <2> HIDE DEF Banded
  <2> QED
    BY <2>4, <2>5
<1> HIDE DEF exploited, rows, tree, heavy
<1>5. CalledPassCanChangeLetter(R) <=> heavy
  BY <1>1, <1>3, <1>4
<1> QED
  BY <1>5 DEF heavy

-----------------------------------------------------------------------------
(* What blocks a grade, and what an answer changes of it.                  *)

WeightyKnown(w, o, f) ==
  \/ f \in w.exploited /\ ~Open(o, "catalog", "all")
  \/ SeverityKnown(w, o, f) \in {"NONE", "HIGH", "CRITICAL"}

(* The analysis is stale when a dependency's finding, imported for all that *)
(* is known, weighs much.                                                   *)
LEMMA StalePassIs ==
  ASSUME NEW w, KnownWorld(w), NEW o, Scanned(o)
  PROVE  StaleCalledPass(w, o) <=>
           /\ Open(o, "called pass", "all")
           /\ \E f \in Findings(w) : /\ w.moduleOf[f] \in w.deps
                                     /\ ReachKnown(w, o, f) = "imported" /\ WeightyKnown(w, o, f)
<1> DEFINE R == {RowOf(w, o, m) : m \in w.deps}
<1>1. w.deps \subseteq Modules(w)
  BY DEF Modules
<1>2. R \in SUBSET RowsOver(Modules(w), Vulns(w))
  BY <1>1, RowOfIs
<1>3. StaleCalledPass(w, o) <=> Open(o, "called pass", "all") /\ CalledPassCanChangeLetter(R)
  BY Zenon DEF StaleCalledPass
<1>4. CalledPassCanChangeLetter(R) <=> \E r \in R : \E f \in ImportedOf(r) : Weighty(f)
  <2> HIDE DEF R
  <2> QED
    BY <1>2, CalledPassIs
<1>5. (\E r \in R : \E f \in ImportedOf(r) : Weighty(f)) <=>
        \E m \in w.deps : \E f \in FindingsOf(w, o, m) : f.reach = "imported" /\ Weighty(f)
  <2>1. \A m \in w.deps : RowOf(w, o, m).findings = FindingsOf(w, o, m)
    BY <1>1, RowOfIs
  <2>2. \A m \in w.deps : \A f : f \in ImportedOf(RowOf(w, o, m)) <=> f \in FindingsOf(w, o, m) /\ f.reach = "imported"
    BY <2>1 DEF ImportedOf
  <2> QED
    BY <2>2
<1>6. \A f \in Findings(w) :
        /\ FindingFromVuln(w, o, f).reach = ReachKnown(w, o, f)
        /\ Weighty(FindingFromVuln(w, o, f)) <=> WeightyKnown(w, o, f)
  BY FindingFromVulnIs DEF Weighty, WeightyKnown
<1>7. \A m \in w.deps :
        /\ \A g \in FindingsOf(w, o, m) : \E f \in Listed(w, m) : g = FindingFromVuln(w, o, f)
        /\ \A f \in Listed(w, m) : FindingFromVuln(w, o, f) \in FindingsOf(w, o, m)
  BY <1>1, FindingsOfIs DEF Scanned
<1>8. (\E m \in w.deps : \E f \in FindingsOf(w, o, m) : f.reach = "imported" /\ Weighty(f))
        <=> \E f \in Findings(w) : /\ w.moduleOf[f] \in w.deps
                                   /\ ReachKnown(w, o, f) = "imported" /\ WeightyKnown(w, o, f)
  <2>1. ASSUME NEW m \in w.deps, NEW g \in FindingsOf(w, o, m), g.reach = "imported", Weighty(g)
        PROVE  \E f \in Findings(w) : /\ w.moduleOf[f] \in w.deps
                                      /\ ReachKnown(w, o, f) = "imported" /\ WeightyKnown(w, o, f)
    <3>1. PICK f \in Listed(w, m) : g = FindingFromVuln(w, o, f)
      BY <1>7
    <3>2. f \in Findings(w) /\ w.moduleOf[f] = m
      BY DEF Listed
    <3> QED
      BY <1>6, <2>1, <3>1, <3>2
  <2>2. ASSUME NEW f \in Findings(w), w.moduleOf[f] \in w.deps,
               ReachKnown(w, o, f) = "imported", WeightyKnown(w, o, f)
        PROVE  \E m \in w.deps : \E g \in FindingsOf(w, o, m) : g.reach = "imported" /\ Weighty(g)
    <3>1. f \in Listed(w, w.moduleOf[f])
      BY DEF Listed
    <3>2. FindingFromVuln(w, o, f) \in FindingsOf(w, o, w.moduleOf[f])
      BY <1>7, <2>2, <3>1
    <3> QED
      BY <1>6, <2>2, <3>2
  <2> QED
    BY <2>1, <2>2
<1> HIDE DEF R
<1> QED
  BY <1>3, <1>4, <1>5, <1>8

(* What the catalog was not asked for is counted.                          *)
LEMMA KevIs ==
  ASSUME NEW w, KnownWorld(w), NEW o, Scanned(o)
  PROVE  KevUnchecked(w, o) > 0 <=>
           /\ Open(o, "catalog", "all")
           /\ \E f \in w.cve : /\ w.moduleOf[f] \notin w.testOnly
                               /\ w.moduleOf[f] = Self \/ ReachKnown(w, o, f) \in {"called", "none"}
<1> DEFINE Q == {q \in Modules(w) \X w.cve :
                   /\ Open(o, "catalog", "all")
                   /\ q[1] \notin w.testOnly
                   /\ \E g \in FindingsOf(w, o, q[1]) :
                        g.id = q[2] /\ (q[1] = Self \/ g.reach \in {"called", "none"})}
<1>1. KevUnchecked(w, o) = Cardinality(Q)
  BY Zenon DEF KevUnchecked
<1>2. IsFiniteSet(Q)
  <2>1. IsFiniteSet(Modules(w)) /\ IsFiniteSet(w.cve)
    <3>1. IsFiniteSet(Modules(w)) /\ IsFiniteSet(Findings(w)) /\ w.cve \subseteq Findings(w)
      BY WorldIs
    <3> QED
      BY <3>1, FS_Subset
  <2>2. IsFiniteSet(Modules(w) \X w.cve)
    BY <2>1, FS_Product
  <2>3. Q \subseteq Modules(w) \X w.cve
    OBVIOUS
  <2> QED
    BY <2>2, <2>3, FS_Subset
<1>3. Cardinality(Q) > 0 <=> Q # {}
  <2> HIDE DEF Q
  <2>1. Cardinality(Q) \in Nat /\ (Cardinality(Q) = 0 <=> Q = {})
    BY <1>2, FS_CardinalityType, FS_EmptySet
  <2> QED
    BY <2>1
<1>4. \A f \in w.cve : f \in Findings(w) /\ w.moduleOf[f] \in Modules(w)
  BY WorldIs
<1>5. ASSUME NEW f \in w.cve, Open(o, "catalog", "all"), w.moduleOf[f] \notin w.testOnly,
             w.moduleOf[f] = Self \/ ReachKnown(w, o, f) \in {"called", "none"}
      PROVE  Q # {}
  <2>1. f \in Findings(w) /\ w.moduleOf[f] \in Modules(w)
    BY <1>4
  <2>2. f \in Listed(w, w.moduleOf[f])
    BY <2>1 DEF Listed
  <2>3. FindingFromVuln(w, o, f) \in FindingsOf(w, o, w.moduleOf[f])
    BY <2>1, <2>2, FindingsOfIs DEF Scanned
  <2>4. FindingFromVuln(w, o, f).id = f /\ FindingFromVuln(w, o, f).reach = ReachKnown(w, o, f)
    BY <2>1, FindingFromVulnIs
  <2>5. <<w.moduleOf[f], f>> \in Q
    BY <1>5, <2>1, <2>3, <2>4
  <2> QED
    BY <2>5
<1>6. ASSUME NEW q \in Q
      PROVE  /\ Open(o, "catalog", "all")
             /\ \E f \in w.cve : /\ w.moduleOf[f] \notin w.testOnly
                                 /\ w.moduleOf[f] = Self \/ ReachKnown(w, o, f) \in {"called", "none"}
  <2>1. /\ q[1] \in Modules(w) /\ q[2] \in w.cve /\ Open(o, "catalog", "all")
        /\ q[1] \notin w.testOnly
    OBVIOUS
  <2>2. PICK g \in FindingsOf(w, o, q[1]) :
          g.id = q[2] /\ (q[1] = Self \/ g.reach \in {"called", "none"})
    OBVIOUS
  <2>3. PICK f \in Listed(w, q[1]) : g = FindingFromVuln(w, o, f)
    BY <2>1, FindingsOfIs
  <2>4. f \in Findings(w) /\ w.moduleOf[f] = q[1]
    BY DEF Listed
  <2>5. g.id = f /\ g.reach = ReachKnown(w, o, f)
    BY <2>3, <2>4, FindingFromVulnIs
  <2> QED
    BY <2>1, <2>2, <2>4, <2>5
<1> HIDE DEF Q
<1> QED
  BY <1>1, <1>3, <1>5, <1>6

(* The checks that are open after an answer.                               *)
LEMMA AnsweredIs ==
  ASSUME NEW o, NEW k, NEW s
  PROVE  /\ o \ {<<k, s>>} \in SUBSET o
         /\ \A k2, s2 : Open(o \ {<<k, s>>}, k2, s2) <=> Open(o, k2, s2) /\ ~(k2 = k /\ s2 = s)
BY DEF Open

(* An answer that is not overlooked leaves nothing pending that was not.   *)
LEMMA QuietStays ==
  ASSUME NEW w, KnownWorld(w), NEW o, NEW k, NEW s, NEW L \in 1..5,
         ~Overlooked(w, o, <<k, s>>), QuietKnown(w, o, L)
  PROVE  QuietKnown(w, o \ {<<k, s>>}, L)
<1> DEFINE p == o \ {<<k, s>>}
<1>1. p \in SUBSET o
  BY AnsweredIs
<1>2. \A k2, s2 : Open(p, k2, s2) <=> Open(o, k2, s2) /\ ~(k2 = k /\ s2 = s)
  BY AnsweredIs
<1>3. /\ k = "catalog" => ~ExploitedUncounted(w, o)
      /\ k = "called pass" => ~CalledUnweighed(w, o)
  BY DEF Overlooked
<1> HIDE DEF p
<1>4. Scanned(o) /\ Scanned(p)
  BY <1>1, ScannedStays DEF QuietKnown
<1>5. ASSUME StaleCalledPass(w, p) PROVE FALSE
  <2>1. Open(p, "called pass", "all") /\ Open(o, "called pass", "all")
    BY <1>2, <1>4, <1>5, StalePassIs
  <2>2. PICK f \in Findings(w) : /\ w.moduleOf[f] \in w.deps
                                 /\ ReachKnown(w, p, f) = "imported" /\ WeightyKnown(w, p, f)
    BY <1>4, <1>5, StalePassIs
  <2>3. SamePass(o, p)
    BY <2>1 DEF SamePass
  <2>4. ReachKnown(w, o, f) = "imported"
    BY <1>1, <2>2, <2>3, SourceStays
  <2>5. ~WeightyKnown(w, o, f)
    <3>1. ~StaleCalledPass(w, o)
      BY DEF QuietKnown
    <3> QED
      BY <1>4, <2>1, <2>2, <2>4, <3>1, StalePassIs
  <2>6. SeverityKnown(w, p, f) = SeverityKnown(w, o, f)
    <3>1. ~Unknown(o, f)
      BY <2>5 DEF WeightyKnown, SeverityKnown
    <3>2. ~Unknown(p, f)
      BY <1>2, <3>1 DEF Unknown
    <3> QED
      BY <3>1, <3>2 DEF SeverityKnown
  <2>7. f \in w.exploited /\ ~Open(p, "catalog", "all") /\ Open(o, "catalog", "all")
    BY <2>2, <2>5, <2>6 DEF WeightyKnown
  <2>8. k = "catalog"
    BY <1>2, <2>7
  <2>9. w.reach[f] \in {"called", "imported"}
    BY <2>4 DEF ReachKnown
  <2>10. ExploitedUncounted(w, o)
    BY <2>1, <2>2, <2>7, <2>9 DEF ExploitedUncounted
  <2> QED
    BY <1>3, <2>8, <2>10
<1>6. ASSUME L < 5 PROVE ~Open(p, "mod verify", "all")
  BY <1>2, <1>6 DEF QuietKnown
<1>7. ASSUME L < 5, KevUnchecked(w, p) > 0 PROVE FALSE
  <2>1. Open(p, "catalog", "all") /\ Open(o, "catalog", "all")
    BY <1>2, <1>4, <1>7, KevIs
  <2>2. PICK f \in w.cve : /\ w.moduleOf[f] \notin w.testOnly
                           /\ w.moduleOf[f] = Self \/ ReachKnown(w, p, f) \in {"called", "none"}
    BY <1>4, <1>7, KevIs
  <2>3. ~(KevUnchecked(w, o) > 0)
    BY <1>7 DEF QuietKnown
  <2>4. w.moduleOf[f] # Self /\ ReachKnown(w, o, f) \notin {"called", "none"}
    BY <1>4, <2>1, <2>2, <2>3, KevIs
  <2>5. f \in Findings(w) /\ w.moduleOf[f] \in Modules(w)
    BY WorldIs
  <2>6. w.moduleOf[f] \in w.deps
    BY <2>4, <2>5 DEF Modules
  <2>7. ReachKnown(w, p, f) \in {"called", "none"}
    BY <2>2, <2>4
  <2>8. ~SamePass(o, p)
    BY <1>1, <2>4, <2>5, <2>7, SourceStays
  <2>9. k = "called pass"
    BY <1>2, <2>8 DEF SamePass
  <2>10. w.reach[f] = "called"
    BY <2>4, <2>7 DEF ReachKnown
  <2>11. CalledUnweighed(w, o)
    BY <2>1, <2>2, <2>5, <2>6, <2>10 DEF CalledUnweighed
  <2> QED
    BY <1>3, <2>9, <2>11
<1>8. ASSUME NEW m \in Modules(w), RowOf(w, p, m).missing
      PROVE  ~(Band(UpkeepIfArchived(RowOf(w, p, m))) > L)
  <2>1. (FlagFailed(p, m) => FlagFailed(o, m)) /\ (ModCheckFailed(p, m) => ModCheckFailed(o, m))
    BY <1>2 DEF FlagFailed, ModCheckFailed
  <2>2. RowOf(w, o, m).missing
    BY <1>8, <2>1, RowOfIs
  <2>3. ~(Band(UpkeepIfArchived(RowOf(w, o, m))) > L)
    BY <2>2 DEF QuietKnown
  <2>4. UpkeepIfArchived(RowOf(w, p, m)) = UpkeepIfArchived(RowOf(w, o, m))
    BY RowOfIs DEF UpkeepIfArchived
  <2> QED
    BY <2>3, <2>4
<1>9. QuietKnown(w, p, L)
  BY <1>4, <1>5, <1>6, <1>7, <1>8 DEF QuietKnown
<1> QED
  BY <1>9 DEF p

-----------------------------------------------------------------------------
(* What an answer changes of the upkeep.                                   *)

(* What is archived costs no more than the reading says.                   *)
LEMMA ArchivedCosts ==
  ASSUME NEW w, KnownWorld(w), NEW o, NEW m \in Modules(w), NEW a, NEW s \in Severities,
         RowOf(w, o, m).archived
  PROVE  Band(UpkeepIfArchived(RowOf(w, o, m))) <= BandOf(w, o, a, s)
<1> DEFINE in == Reading(w, o, a, s)
           x == ReadRow(w, o, m, a, s)
           r == RowOf(w, o, m)
<1>1. in.rows \in Trees(Modules(w), Vulns(w)) /\ in.rows = {ReadRow(w, o, l, a, s) : l \in Modules(w)}
  BY ReadingIs
<1>2. x \in in.rows
  BY <1>1
<1>3. x \in RowsOver(Modules(w), Vulns(w)) /\ SameModule(x, r) /\ x.archived = r.archived
  BY ReadRowIs
<1>4. BandOf(w, o, a, s) = Band(Score(in))
  BY Zenon DEF BandOf
<1>a. r.archived
  OBVIOUS
<1> HIDE DEF in, x, r
<1>5. UpkeepScore(x) = UpkeepIfArchived(r)
  <2>1. UpkeepScore(x) = UpkeepIfArchived(x)
    BY <1>3, <1>a, Zenon DEF UpkeepScore
  <2>2. UpkeepIfArchived(x) = UpkeepIfArchived(r)
    BY <1>3, Zenon DEF UpkeepIfArchived, SameModule
  <2> QED
    BY <2>1, <2>2
<1>6. /\ RowScore(x) \in 0..100 /\ RowScore(x) <= Score(in) /\ Score(in) \in 0..100
      /\ UpkeepScore(x) <= RowScore(x) /\ UpkeepScore(x) \in 0..100
  <2>1. RowScore(x) \in 0..100 /\ RowScore(x) <= Score(in) /\ Score(in) \in 0..100
    BY <1>1, <1>2, ScoreIs
  <2>2. UpkeepScore(x) <= RowScore(x)
    BY <1>3, RowScoreIs
  <2>3. UpkeepScore(x) \in 0..100
    BY UpkeepIs
  <2> QED
    BY <2>1, <2>2, <2>3
<1>7. Band(UpkeepScore(x)) <= Band(Score(in))
  BY <1>6, BandsOfScores
<1> QED
  BY <1>4, <1>5, <1>7 DEF r

(* A module that an answer may show to be archived is missing or unread.   *)
LEMMA ArchivedWas ==
  ASSUME NEW w, KnownWorld(w), NEW o, NEW p \in SUBSET o, NEW m \in Modules(w), RowOf(w, p, m).archived
  PROVE  /\ RowOf(w, o, m).archived \/ RowOf(w, o, m).missing
            \/ (RowOf(w, o, m).unread /\ ~RowOf(w, o, m).self)
         /\ UpkeepIfArchived(RowOf(w, p, m)) = UpkeepIfArchived(RowOf(w, o, m))
<1>1. (FlagFailed(p, m) => FlagFailed(o, m)) /\ (ModCheckFailed(p, m) => ModCheckFailed(o, m))
  BY OpenStays DEF FlagFailed, ModCheckFailed
<1>2. UpkeepIfArchived(RowOf(w, p, m)) = UpkeepIfArchived(RowOf(w, o, m))
  BY RowOfIs DEF UpkeepIfArchived
<1>3. RowOf(w, o, m).archived \/ RowOf(w, o, m).missing
            \/ (RowOf(w, o, m).unread /\ ~RowOf(w, o, m).self)
  BY <1>1, RowOfIs DEF StrictFor
<1> QED
  BY <1>2, <1>3

(* Nothing that an answer shows to be archived changes a letter that names *)
(* no unread flag.                                                         *)
LEMMA UpkeepKept ==
  ASSUME NEW w, KnownWorld(w), NEW o, NEW p \in SUBSET o, QuietKnown(w, o, KnownBand(w, o)),
         ArchivedUnread(Known(w, o), Score(Known(w, o))) = {}
  PROVE  ArchivedWithin(w, p, KnownBand(w, o))
<1> DEFINE in == Known(w, o)
           L == KnownBand(w, o)
<1>0. "LOW" \in Severities
  BY DEF Severities
<1>1. L = Band(Score(in)) /\ Score(in) \in 0..100
  BY <1>0, ReadingIs, Zenon DEF KnownBand, BandOf, Known
<1>2. ASSUME NEW m \in Modules(w), RowOf(w, p, m).archived
      PROVE  Band(UpkeepIfArchived(RowOf(w, o, m))) <= L
  <2> DEFINE r == RowOf(w, o, m)
             x == ReadRow(w, o, m, "none", "LOW")
             yes == TRUE
             q == [x EXCEPT !.archived = yes]
  <2>1. CASE r.archived
    BY <1>0, <2>1, ArchivedCosts DEF KnownBand
  <2>2. CASE r.missing
    <3>1. ~(Band(UpkeepIfArchived(r)) > L)
      BY <2>2 DEF QuietKnown
    <3>2. Band(UpkeepIfArchived(r)) \in 1..5 /\ L \in 1..5
      <4>1. UpkeepIfArchived(r) \in Nat
        BY UpkeepIs
      <4> QED
        BY <1>1, <4>1, Bands
    <3> HIDE DEF r, L
    <3>3. Band(UpkeepIfArchived(r)) <= L
      BY <3>1, <3>2
    <3> QED
      BY <3>3 DEF r, L
  <2>3. CASE r.unread /\ ~r.self
    <3>1. in.rows = {ReadRow(w, o, l, "none", "LOW") : l \in Modules(w)}
      BY <1>0, ReadingIs DEF Known
    <3>2. x \in in.rows
      BY <3>1
    <3>3. /\ x \in RowsOver(Modules(w), Vulns(w)) /\ SameModule(x, r)
          /\ x.unread = r.unread
      BY <1>0, ReadRowIs
    <3>4. ArchivedUnread(in, Score(in))
            = {z.module : z \in {y \in in.rows : /\ ~y.self /\ y.unread
                                                 /\ Band(RowScore([y EXCEPT !.archived = yes])) > Band(Score(in))}}
      BY Zenon DEF ArchivedUnread
    <3>5. ArchivedUnread(in, Score(in)) = {}
      OBVIOUS
    <3>6. yes \in BOOLEAN /\ yes
      OBVIOUS
    <3>7. ~x.self /\ x.unread
      BY <2>3, <3>3 DEF SameModule
    <3> HIDE DEF yes, in, x, r, L
    <3>8. ~(Band(RowScore([x EXCEPT !.archived = yes])) > Band(Score(in)))
      BY <3>2, <3>4, <3>5, <3>7
    <3>9. q \in RowsOver(Modules(w), Vulns(w)) /\ q.archived /\ q.self = x.self /\ q.testOnly = x.testOnly
          /\ q.notBuilt = x.notBuilt
      BY <3>3, <3>6 DEF RowsOver
    <3> HIDE DEF q
    <3>10. UpkeepScore(q) = UpkeepIfArchived(r)
      <4>1. UpkeepScore(q) = UpkeepIfArchived(q)
        BY <3>9, Zenon DEF UpkeepScore
      <4>2. UpkeepIfArchived(q) = UpkeepIfArchived(r)
        BY <3>3, <3>9, Zenon DEF UpkeepIfArchived, SameModule
      <4> QED
        BY <4>1, <4>2
    <3>11. UpkeepScore(q) <= RowScore(q) /\ RowScore(q) \in 0..100 /\ UpkeepScore(q) \in 0..100
      BY <3>9, RowScoreIs, UpkeepIs
    <3>12. /\ Band(UpkeepScore(q)) <= Band(RowScore(q)) /\ Band(RowScore(q)) \in 1..5
           /\ Band(UpkeepScore(q)) \in 1..5 /\ Band(Score(in)) \in 1..5
      BY <1>1, <3>11, BandsOfScores, Bands
    <3>13. ~(Band(RowScore(q)) > Band(Score(in)))
      BY <3>8 DEF q
    <3>14. Band(UpkeepIfArchived(r)) <= L
      BY <1>1, <3>10, <3>12, <3>13 DEF in
    <3> QED
      BY <3>14 DEF r, L
  <2> QED
    BY <1>2, <2>1, <2>2, <2>3, ArchivedWas
<1>3. ASSUME NEW m \in Modules(w), RowOf(w, p, m).archived
      PROVE  Band(UpkeepIfArchived(RowOf(w, p, m))) <= L
  <2>1. UpkeepIfArchived(RowOf(w, p, m)) = UpkeepIfArchived(RowOf(w, o, m))
    BY <1>3, ArchivedWas
  <2> QED
    BY <1>2, <1>3, <2>1
<1> QED
  BY <1>3 DEF ArchivedWithin

-----------------------------------------------------------------------------
(* What an answer changes of the findings.                                 *)

(* An answer about a severity that is no higher than its aliases'.         *)
LEMMA SeverityKept ==
  ASSUME NEW w, KnownWorld(w), NEW o, Scanned(o), NEW k \in {"severity", "published"},
         NEW s \in Findings(w), <<k, s>> \in o, ~HigherThanItsAliases(w, o, s),
         NEW m \in Modules(w), NEW z \in Pairs(w, o, o \ {<<k, s>>}, m)
  PROVE  z[1].severity = "NONE" \/ z[2].severity = z[1].severity
<1> DEFINE p == o \ {<<k, s>>}
           g == z[1]
           h == z[2]
           S == Sources(w, m, g.vuln)
<1>1. p \in SUBSET o
  BY AnsweredIs
<1>2. \A k2, s2 : Open(p, k2, s2) <=> Open(o, k2, s2) /\ ~(k2 = k /\ s2 = s)
  BY AnsweredIs
<1>3. Unknown(o, s)
  BY DEF Unknown, Open
<1>a. z \in Pairs(w, o, p, m)
  OBVIOUS
<1> HIDE DEF p
<1>4. /\ g \in Groups(w, o, m) /\ h \in Groups(w, p, m) /\ h.vuln = g.vuln
      /\ g \in FindingsOver(Vulns(w)) /\ h \in FindingsOver(Vulns(w))
  BY <1>a, PairsIn
<1> HIDE DEF g, h
<1>5. /\ \E f \in S : g.severity = SeverityKnown(w, o, f)
      /\ \A f \in S : SeverityRank[SeverityKnown(w, o, f)] <= SeverityRank[g.severity]
  BY <1>4, GroupIs
<1>6. \E f \in S : h.severity = SeverityKnown(w, p, f)
  <2>1. Scanned(p)
    BY <1>1, ScannedStays
  <2>2. Sources(w, m, h.vuln) = S
    BY <1>4, Zenon
  <2> QED
    BY <1>4, <2>1, <2>2, GroupIs
<1>7. \A f \in S : f \in Findings(w) /\ w.moduleOf[f] = m /\ w.vulnOf[f] = g.vuln
  BY DEF Sources, Listed
<1> HIDE DEF S
<1>8. \A f \in Findings(w) : w.sev[f] \in Severities \cup {"NONE"} /\ SeverityRank[w.sev[f]] \in 0..4
  BY WorldIs, Ranks
<1>9. SeverityRank["NONE"] = 0
  BY Ranks DEF Severities
<1>10. /\ g.severity \in Severities \cup {"NONE"} /\ h.severity \in Severities \cup {"NONE"}
       /\ SeverityRank[g.severity] \in 0..4 /\ SeverityRank[h.severity] \in 0..4
  BY <1>4, Ranks DEF FindingsOver
<1>11. ASSUME g.severity # "NONE" PROVE SeverityRank[h.severity] <= SeverityRank[g.severity]
  <2>1. PICK f \in S : h.severity = SeverityKnown(w, p, f)
    BY <1>6
  <2>2. CASE f # s
    <3>1. SeverityKnown(w, p, f) = SeverityKnown(w, o, f)
      BY <1>2, <2>2 DEF SeverityKnown, Unknown
    <3> QED
      BY <1>5, <2>1, <3>1
  <2>3. CASE f = s
    <3>1. PICK f1 \in S : g.severity = SeverityKnown(w, o, f1)
      BY <1>5
    <3>2. ~Unknown(o, f1) /\ g.severity = w.sev[f1]
      BY <1>11, <3>1 DEF SeverityKnown
    <3>3. f1 \in Aliases(w, s)
      BY <1>3, <1>7, <2>3, <3>2 DEF Aliases
    <3> DEFINE known == {SeverityRank[w.sev[i]] : i \in {j \in Aliases(w, s) : ~Unknown(o, j)}}
    <3>4. SeverityRank[w.sev[f1]] \in known /\ SeverityRank[w.sev[f1]] > 0
      <4>1. SeverityRank[w.sev[f1]] \in known
        BY <3>2, <3>3
      <4>2. SeverityRank[g.severity] # 0
        BY <1>10, <1>11, Ranks
      <4> QED
        BY <1>10, <3>2, <4>1, <4>2
    <3>5. \E n \in known : ~(n < SeverityRank[w.sev[s]])
      <4>1. ~((\E n \in known : n > 0) /\ \A n \in known : n < SeverityRank[w.sev[s]])
        BY Zenon DEF HigherThanItsAliases
      <4> HIDE DEF known
      <4> QED
        BY <3>4, <4>1
    <3>6. PICK f2 \in Aliases(w, s) : ~Unknown(o, f2) /\ ~(SeverityRank[w.sev[f2]] < SeverityRank[w.sev[s]])
      BY <3>5
    <3>7. f2 \in S /\ f2 \in Findings(w)
      BY <1>7, <2>3, <3>6 DEF Aliases, S, Sources, Listed
    <3>8. SeverityRank[w.sev[f2]] <= SeverityRank[g.severity]
      <4>1. SeverityKnown(w, o, f2) = w.sev[f2]
        BY <3>6 DEF SeverityKnown
      <4> QED
        BY <1>5, <3>7, <4>1
    <3>9. SeverityKnown(w, p, s) \in {"NONE", w.sev[s]}
      BY DEF SeverityKnown
    <3>10. SeverityRank[w.sev[f2]] \in 0..4 /\ SeverityRank[w.sev[s]] \in 0..4
      BY <1>8, <3>7
    <3> QED
      BY <1>9, <1>10, <2>1, <2>3, <3>6, <3>8, <3>9, <3>10
  <2> QED
    BY <2>2, <2>3
<1>12. SeverityRank[g.severity] <= SeverityRank[h.severity]
  BY <1>1, <1>4, PairIs
<1>13. g.severity = "NONE" \/ h.severity = g.severity
  BY <1>10, <1>11, <1>12, Ranks
<1> QED
  BY <1>13 DEF g, h

(* The ranks of the reachabilities.                                        *)
LEMMA ReachRanks ==
  /\ ReachRank["called"] = 4 /\ ReachRank["none"] = 3
  /\ ReachRank["imported"] = 2 /\ ReachRank["required"] = 1
BY DEF ReachRank

(* Only a required finding is reached less than an imported one.           *)
LEMMA LowerThanImported ==
  \A t \in Reaches : ReachRank[t] <= ReachRank["imported"] /\ t # "imported" => t = "required"
BY ReachRanks DEF Reaches

(* A finding reached as an imported one or more is not only required.      *)
LEMMA ReachedAsImported ==
  \A t : ReachRank["imported"] <= ReachRank[t] => t # "required"
BY ReachRanks

(* A severity that outranks one of a positive rank is known.               *)
LEMMA Outranks ==
  \A u, v : SeverityRank[v] \in 1..4 /\ SeverityRank[v] <= SeverityRank[u] => u # "NONE"
<1>1. SeverityRank["NONE"] = 0
  BY Ranks DEF Severities
<1> QED
  BY <1>1

\* What the listings S say of a merged finding, and of what becomes of it.
ListingsOf(w, o, p, m, g, h, S) ==
  /\ \A f \in S : w.moduleOf[f] = m
  /\ \A f \in S, j \in S : f # j => f \in Aliases(w, j)
  /\ \E f \in S : g.severity = SeverityKnown(w, o, f)
  /\ \A f \in S : SeverityRank[SeverityKnown(w, o, f)] <= SeverityRank[g.severity]
  /\ \A f \in S : ReachRank[ReachKnown(w, o, f)] <= ReachRank[g.reach]
  /\ \E f \in S : h.reach = ReachKnown(w, p, f)
  /\ h.exploited <=> (~Open(p, "catalog", "all") /\ \E f \in S : f \in w.exploited)

(* A merged finding has listings.                                          *)
LEMMA SourcesOfPair ==
  ASSUME NEW w, KnownWorld(w), NEW o, NEW p \in SUBSET o, Scanned(o), NEW m \in Modules(w),
         NEW g \in Groups(w, o, m), NEW h \in Groups(w, p, m), h.vuln = g.vuln
  PROVE  \E S \in SUBSET Findings(w) : ListingsOf(w, o, p, m, g, h, S)
<1> DEFINE S == Sources(w, m, g.vuln)
<1>0. Scanned(p)
  BY ScannedStays
<1>1. \A f \in S : f \in Findings(w) /\ w.moduleOf[f] = m /\ w.vulnOf[f] = g.vuln
  BY DEF Sources, Listed
<1>2. \A f \in S, j \in S : f # j => f \in Aliases(w, j)
  BY <1>1 DEF Aliases
<1>3. /\ \E f \in S : g.severity = SeverityKnown(w, o, f)
      /\ \A f \in S : SeverityRank[SeverityKnown(w, o, f)] <= SeverityRank[g.severity]
      /\ \A f \in S : ReachRank[ReachKnown(w, o, f)] <= ReachRank[g.reach]
  BY GroupIs
<1>4. /\ \E f \in S : h.reach = ReachKnown(w, p, f)
      /\ h.exploited <=> (~Open(p, "catalog", "all") /\ \E f \in S : f \in w.exploited)
  <2>1. Sources(w, m, h.vuln) = S
    BY Zenon
  <2> HIDE DEF S
  <2> QED
    BY <1>0, <2>1, GroupIs
<1> HIDE DEF S
<1>5. S \in SUBSET Findings(w)
  BY <1>1
<1> QED
  BY <1>1, <1>2, <1>3, <1>4, <1>5 DEF ListingsOf

(* An answer of the catalog that nothing in the called tier waits for.     *)
LEMMA CatalogIsSteady ==
  ASSUME NEW w, KnownWorld(w), NEW o, NEW p \in SUBSET o, Scanned(o), SamePass(o, p),
         Open(o, "catalog", "all"), ~(KevUnchecked(w, o) > 0), ~ExploitedUncounted(w, o),
         NEW m \in Modules(w), NEW g \in Groups(w, o, m), NEW h \in Groups(w, p, m), h.vuln = g.vuln
  PROVE  InCalled(w, m, h) => ~h.exploited
<1> SUFFICES ASSUME InCalled(w, m, h), h.exploited PROVE FALSE
  OBVIOUS
<1>0. PICK S \in SUBSET Findings(w) : ListingsOf(w, o, p, m, g, h, S)
  BY SourcesOfPair
<1>1. /\ \A f \in S : w.moduleOf[f] = m
      /\ \A f \in S, j \in S : f # j => f \in Aliases(w, j)
      /\ \E f \in S : h.reach = ReachKnown(w, p, f)
      /\ h.exploited <=> (~Open(p, "catalog", "all") /\ \E f \in S : f \in w.exploited)
  BY <1>0 DEF ListingsOf
<1>2. PICK f \in S : f \in w.exploited
  BY <1>1
<1>3. PICK j \in S : h.reach = ReachKnown(w, p, j)
  BY <1>1
<1>4. f \in w.cve /\ w.moduleOf[f] = m /\ w.moduleOf[j] = m /\ m \notin w.testOnly
  <2>1. f \in w.cve /\ w.moduleOf[f] = m /\ w.moduleOf[j] = m
    BY <1>1, <1>2, WorldIs
  <2> QED
    BY <1>2, <2>1 DEF ExploitedUncounted
<1>5. m # Self
  BY <1>4, KevIs
<1>6. m \in w.deps /\ ReachKnown(w, p, j) \in {"called", "none"}
  BY <1>3, <1>5 DEF InCalled, Modules
<1>7. ReachKnown(w, o, j) = ReachKnown(w, p, j)
  BY SourceStays
<1>8. w.reach[j] \in {"called", "none"}
  BY <1>6, <1>7 DEF ReachKnown
<1>9. j \in w.cve
  <2>1. CASE j = f
    BY <1>4, <2>1
  <2>2. CASE j # f
    <3>1. j \in Aliases(w, f)
      BY <1>1, <2>2
    <3>2. ~(\E i \in Aliases(w, f) \ w.cve : w.reach[i] \in {"called", "none"})
      BY <1>2, <1>4, <1>6 DEF ExploitedUncounted
    <3> QED
      BY <1>8, <3>1, <3>2
  <2> QED
    BY <2>1, <2>2
<1> QED
  BY <1>4, <1>6, <1>7, <1>9, KevIs

(* An answer of the called pass when it was right to skip it.              *)
LEMMA PassIsSteady ==
  ASSUME NEW w, KnownWorld(w), NEW o, NEW p \in SUBSET o, Scanned(o),
         SameSeverities(w, o, p), SameCatalog(o, p),
         Open(o, "called pass", "all"), ~StaleCalledPass(w, o), ~CalledUnweighed(w, o),
         NEW m \in Modules(w), NEW g \in Groups(w, o, m), NEW h \in Groups(w, p, m), h.vuln = g.vuln
  PROVE  Steady(w, m, g, h)
<1>1. /\ h.severity = g.severity
      /\ h.exploited <=> g.exploited
      /\ ReachRank[g.reach] <= ReachRank[h.reach]
  BY PairIs
<1>2. /\ g.reach \in Reaches /\ h.reach \in Reaches
      /\ g.severity \in Severities \cup {"NONE"}
      /\ ReachRank[g.reach] \in 1..4 /\ ReachRank[h.reach] \in 1..4
  <2>1. g \in FindingsOver(Vulns(w)) /\ h \in FindingsOver(Vulns(w))
    BY GroupsAre
  <2> QED
    BY <2>1, Ranks DEF FindingsOver
<1>3. CASE h.reach = g.reach
  BY <1>1, <1>3 DEF Steady, InCalled, InImported
<1>4. CASE h.reach # g.reach
  <2>0. PICK S \in SUBSET Findings(w) : ListingsOf(w, o, p, m, g, h, S)
    BY SourcesOfPair
  <2>1. /\ \A f \in S : w.moduleOf[f] = m
        /\ \A f \in S, j \in S : f # j => f \in Aliases(w, j)
        /\ \E f \in S : g.severity = SeverityKnown(w, o, f)
        /\ \A f \in S : SeverityRank[SeverityKnown(w, o, f)] <= SeverityRank[g.severity]
        /\ \A f \in S : ReachRank[ReachKnown(w, o, f)] <= ReachRank[g.reach]
        /\ \E f \in S : h.reach = ReachKnown(w, p, f)
        /\ h.exploited <=> (~Open(p, "catalog", "all") /\ \E f \in S : f \in w.exploited)
    BY <2>0 DEF ListingsOf
  <2>2. PICK j \in S : h.reach = ReachKnown(w, p, j)
    BY <2>1
  <2>3. ReachKnown(w, o, j) # ReachKnown(w, p, j)
    <3>1. ReachRank[g.reach] # ReachRank[h.reach]
      BY <1>2, <1>4, Ranks
    <3>2. ReachRank[ReachKnown(w, o, j)] <= ReachRank[g.reach] /\ ReachRank[ReachKnown(w, o, j)] \in Nat
      BY <2>1, SourceStays
    <3> DEFINE n == ReachRank[g.reach]
               l == ReachRank[h.reach]
               i == ReachRank[ReachKnown(w, o, j)]
    <3>3. n # l /\ n <= l /\ n \in 1..4 /\ l \in 1..4 /\ i <= n /\ i \in Nat
      BY <1>1, <1>2, <3>1, <3>2
    <3>4. ReachKnown(w, o, j) = h.reach => i = l
      OBVIOUS
    <3> HIDE DEF n, l, i
    <3>5. i # l
      BY ONLY <3>3
    <3> QED
      BY <2>2, <3>4, <3>5
  <2>4. w.reach[j] = "called" /\ ReachKnown(w, o, j) = "imported" /\ h.reach = "called"
    BY <2>2, <2>3 DEF ReachKnown
  <2>5. CASE InCalled(w, m, g) \/ ~InCalled(w, m, h)
    BY <1>1, <2>4, <2>5 DEF Steady, InImported
  <2>6. CASE ~InCalled(w, m, g) /\ InCalled(w, m, h)
    <3>1. m # Self /\ m \in w.deps /\ m \notin w.notBuilt
      BY <2>6 DEF InCalled, Modules
    <3>2. g.reach = "imported"
      <4>1. ReachRank["imported"] <= ReachRank[g.reach]
        BY <2>1, <2>4
      <4>2. g.reach \in {"imported", "required"}
        BY <1>2, <2>6, <3>1 DEF InCalled, Reaches
      <4>3. g.reach # "required"
        <5> DEFINE t == g.reach
        <5>1. ReachRank["imported"] <= ReachRank[t]
          BY <4>1
        <5> HIDE DEF t
        <5>2. t # "required"
          BY ONLY <5>1, ReachedAsImported
        <5> QED
          BY <5>2 DEF t
      <4> QED
        BY <4>2, <4>3
    <3>3. \A f \in S : ReachKnown(w, o, f) = "imported" => ~WeightyKnown(w, o, f)
      BY <2>1, <3>1, StalePassIs
    <3>4. ASSUME NEW f \in S
          PROVE  /\ SeverityKnown(w, o, f) \notin {"HIGH", "CRITICAL"}
                 /\ f \in w.exploited => Open(o, "catalog", "all")
      <4>1. CASE ReachKnown(w, o, f) = "imported"
        BY <3>3, <4>1 DEF WeightyKnown
      <4>2. CASE ReachKnown(w, o, f) # "imported"
        <5>1. ReachKnown(w, o, f) \in Reaches
          BY FindingFromVulnIs
        <5>2. ReachRank[ReachKnown(w, o, f)] <= ReachRank["imported"]
          BY <2>1, <3>2
        <5>3. ReachKnown(w, o, f) = "required"
          <6> DEFINE t == ReachKnown(w, o, f)
          <6>1. t \in Reaches /\ ReachRank[t] <= ReachRank["imported"] /\ t # "imported"
            BY <4>2, <5>1, <5>2
          <6> HIDE DEF t
          <6>2. t = "required"
            BY ONLY <6>1, LowerThanImported
          <6> QED
            BY <6>2 DEF t
        <5>4. w.reach[f] = "required" /\ f # j
          BY <2>4, <5>3 DEF ReachKnown
        <5>5. f \in Aliases(w, j)
          BY <2>1, <5>4
        <5>6. /\ ~(~Unknown(o, f) /\ w.sev[f] \in {"HIGH", "CRITICAL"})
              /\ f \notin w.exploited
          BY <2>1, <2>4, <3>1, <5>4, <5>5 DEF CalledUnweighed
        <5> QED
          BY <5>6 DEF SeverityKnown
      <4> QED
        BY <4>1, <4>2
    <3>5. g.severity \in {"NONE", "LOW", "MEDIUM"}
      BY <1>2, <2>1, <3>4 DEF Severities
    <3>6. g.severity # "NONE"
      <4>1. SeverityKnown(w, o, j) # "NONE" /\ SeverityKnown(w, o, j) \in Severities \cup {"NONE"}
        BY <2>4, <3>3, FindingFromVulnIs DEF WeightyKnown
      <4>2. SeverityRank[SeverityKnown(w, o, j)] # 0 /\ SeverityRank[SeverityKnown(w, o, j)] \in 0..4
        BY <4>1, Ranks
      <4>3. SeverityRank[SeverityKnown(w, o, j)] <= SeverityRank[g.severity]
        BY <2>1
      <4> DEFINE u == g.severity
                 v == SeverityKnown(w, o, j)
      <4>4. SeverityRank[v] # 0 /\ SeverityRank[v] \in 0..4 /\ SeverityRank[v] <= SeverityRank[u]
        BY <4>2, <4>3
      <4> HIDE DEF u, v
      <4>5. SeverityRank[v] \in 1..4
        <5> DEFINE n == SeverityRank[v]
        <5>1. n # 0 /\ n \in 0..4
          BY <4>4
        <5> HIDE DEF n
        <5>2. n \in 1..4
          BY ONLY <5>1
        <5> QED
          BY <5>2 DEF n
      <4>6. u # "NONE"
        BY ONLY <4>4, <4>5, Outranks
      <4> QED
        BY <4>6 DEF u
    <3>7. ~h.exploited
      BY <2>1, <3>4 DEF SameCatalog
    <3> QED
      BY <1>1, <2>6, <3>1, <3>2, <3>5, <3>6, <3>7 DEF Steady, InImported
  <2> QED
    BY <2>5, <2>6
<1> QED
  BY <1>3, <1>4

(* An answer that is not overlooked moves no finding up.                   *)
LEMMA SteadyKept ==
  ASSUME NEW w, KnownWorld(w), NEW o, NEW k, NEW s, NEW L \in 1..5,
         ~Overlooked(w, o, <<k, s>>), QuietKnown(w, o, L), L < 5
  PROVE  AllSteady(w, o, o \ {<<k, s>>})
<1> DEFINE p == o \ {<<k, s>>}
<1>1. p \in SUBSET o
  BY AnsweredIs
<1>2. \A k2, s2 : Open(p, k2, s2) <=> Open(o, k2, s2) /\ ~(k2 = k /\ s2 = s)
  BY AnsweredIs
<1>3. /\ k = "catalog" => ~ExploitedUncounted(w, o)
      /\ k = "called pass" => ~CalledUnweighed(w, o)
  BY DEF Overlooked
<1> HIDE DEF p
<1>4. /\ Scanned(o) /\ ~StaleCalledPass(w, o) /\ ~(KevUnchecked(w, o) > 0)
  BY DEF QuietKnown
<1>5. ASSUME NEW m \in Modules(w), NEW g \in Groups(w, o, m), NEW h \in Groups(w, p, m), h.vuln = g.vuln
      PROVE  Steady(w, m, g, h)
  <2>1. CASE SamePass(o, p) /\ SameCatalog(o, p)
    <3>1. h.reach = g.reach /\ (h.exploited <=> g.exploited)
      BY <1>1, <1>4, <1>5, <2>1, PairIs
    <3> QED
      BY <3>1 DEF Steady, InCalled, InImported
  <2>2. CASE SamePass(o, p) /\ ~SameCatalog(o, p)
    <3>1. Open(o, "catalog", "all") /\ k = "catalog"
      BY <1>2, <2>2 DEF SameCatalog
    <3>2. InCalled(w, m, h) => ~h.exploited
      BY <1>1, <1>3, <1>4, <1>5, <2>2, <3>1, CatalogIsSteady
    <3>3. h.reach = g.reach
      BY <1>1, <1>4, <1>5, <2>2, PairIs
    <3> QED
      BY <3>2, <3>3 DEF Steady, InCalled, InImported
  <2>3. CASE ~SamePass(o, p)
    <3>1. Open(o, "called pass", "all") /\ k = "called pass"
      BY <1>2, <2>3 DEF SamePass
    <3>2. SameSeverities(w, o, p) /\ SameCatalog(o, p)
      BY <1>2, <3>1 DEF SameSeverities, SameCatalog
    <3> QED
      BY <1>1, <1>3, <1>4, <1>5, <3>1, <3>2, PassIsSteady
  <2> QED
    BY <2>1, <2>2, <2>3
<1>6. ASSUME NEW m \in Modules(w), NEW z \in Pairs(w, o, p, m) PROVE Steady(w, m, z[1], z[2])
  BY <1>5, PairsIn
<1>7. AllSteady(w, o, p)
  BY <1>6 DEF AllSteady
<1> QED
  BY <1>7 DEF p

-----------------------------------------------------------------------------
(* A letter without a star or an unread flag is the one that an answer     *)
(* leaves, unless the rules overlook it.                                   *)

(* A reading is within the bands.                                          *)
LEMMA BandOfIs ==
  ASSUME NEW w, KnownWorld(w), NEW o, NEW a, NEW s \in Severities
  PROVE  BandOf(w, o, a, s) \in 1..5
<1> DEFINE n == Score(Reading(w, o, a, s))
<1>0. n \in 0..100
  BY ReadingIs
<1> HIDE DEF n
<1>1. n \in Nat
  BY <1>0
<1>2. Band(n) \in 1..5
  BY <1>1, Bands
<1> QED
  BY <1>2 DEF BandOf, n

(* A reading that severities put above another has a band no lower.        *)
LEMMA BandOfRises ==
  ASSUME NEW w, KnownWorld(w), NEW o, NEW p \in SUBSET o, Scanned(o),
         NEW a, NEW s \in Severities, NEW b, NEW t \in Severities, Below(w, o, p, a, s, b, t)
  PROVE  BandOf(w, o, a, s) <= BandOf(w, p, b, t)
<1> DEFINE n == Score(Reading(w, o, a, s))
           l == Score(Reading(w, p, b, t))
<1>1. n \in 0..100 /\ l \in 0..100
  BY ReadingIs
<1>2. n <= l
  BY BandsRise
<1> HIDE DEF n, l
<1>3. Band(n) <= Band(l)
  BY <1>1, <1>2, BandsOfScores
<1> QED
  BY <1>3 DEF BandOf, n, l

(* The band of a reading between two others of one band.                   *)
LEMMA BandBetween ==
  ASSUME NEW w, KnownWorld(w), NEW o, NEW k, NEW s, ~Overlooked(w, o, <<k, s>>),
         NEW L \in 1..5, L = KnownBand(w, o), QuietKnown(w, o, L),
         ArchivedUnread(Known(w, o), Score(Known(w, o))) = {},
         NEW a, NEW u \in Severities, BandOf(w, o, a, u) = L,
         NEW c, NEW v \in Severities, BandOf(w, o, c, v) = L,
         NEW b, NEW t \in Severities, Below(w, o, o \ {<<k, s>>}, a, u, b, t),
         Above(w, o, o \ {<<k, s>>}, c, v, b, t)
  PROVE  BandOf(w, o \ {<<k, s>>}, b, t) = L
<1> DEFINE p == o \ {<<k, s>>}
<1>1. p \in SUBSET o
  BY AnsweredIs
<1>2. L < 5 => AllSteady(w, o, p)
  BY SteadyKept
<1>3. Below(w, o, p, a, u, b, t) /\ Above(w, o, p, c, v, b, t)
  OBVIOUS
<1> HIDE DEF p
<1>4. Scanned(o)
  BY DEF QuietKnown
<1>5. ArchivedWithin(w, p, L)
  BY <1>1, UpkeepKept
<1>6. L < 5 => SameVerify(o, p)
  BY <1>1, OpenStays DEF QuietKnown, SameVerify
<1>7. BandOf(w, o, a, u) <= BandOf(w, p, b, t)
  BY <1>1, <1>3, <1>4, BandOfRises
<1>8. L < 5 => BandOf(w, p, b, t) <= L
  <2>1. L \in Nat /\ BandOf(w, o, c, v) <= L
    OBVIOUS
  <2> QED
    BY <1>1, <1>2, <1>3, <1>4, <1>5, <1>6, <2>1, BandsHold
<1>9. BandOf(w, p, b, t) \in 1..5
  BY BandOfIs
<1> DEFINE n == BandOf(w, p, b, t)
<1>10. L <= n /\ (L < 5 => n <= L) /\ n \in 1..5
  BY <1>7, <1>8, <1>9
<1> HIDE DEF n
<1>11. n = L
  BY <1>10
<1> QED
  BY <1>11 DEF n, p

(* The letter of every reading stays when an answer is not overlooked.     *)
LEMMA BandsKept ==
  ASSUME NEW w, KnownWorld(w), NEW o, NEW k, NEW s, <<k, s>> \in o, <<k, s>> \in Checks(w),
         ~Overlooked(w, o, <<k, s>>), NEW L \in 1..5, L = KnownBand(w, o), QuietKnown(w, o, L),
         SettledBand(w, o, "failed"), SettledBand(w, o, "estimated"),
         ArchivedUnread(Known(w, o), Score(Known(w, o))) = {},
         NEW b, NEW t \in Severities, BandOf(w, o, b, t) = L
  PROVE  BandOf(w, o \ {<<k, s>>}, b, t) = L
<1> DEFINE p == o \ {<<k, s>>}
<1>0. p \in SUBSET o /\ Scanned(o) /\ "LOW" \in Severities /\ "CRITICAL" \in Severities
  BY AnsweredIs DEF QuietKnown, Severities
<1>1. CASE k \in {"severity", "published"}
  <2>1. s \in Findings(w) /\ ~HigherThanItsAliases(w, o, s)
    BY <1>1 DEF Checks, Overlooked
  <2>2. \A m \in Modules(w) : \A z \in Pairs(w, o, p, m) :
          z[1].severity = "NONE" \/ z[2].severity = z[1].severity
    BY <1>0, <1>1, <2>1, SeverityKept
  <2> HIDE DEF p
  <2>3. Below(w, o, p, "estimated", "LOW", b, t) /\ Above(w, o, p, "estimated", "CRITICAL", b, t)
    BY <1>0, <2>2, ReadBetween
  <2>4. BandOf(w, o, "estimated", "LOW") = L /\ BandOf(w, o, "estimated", "CRITICAL") = L
    BY DEF SettledBand
  <2> QED
    BY <1>0, <2>3, <2>4, BandBetween DEF p
<1>2. CASE k \notin {"severity", "published"}
  <2>1. \A k2, s2 : Open(p, k2, s2) <=> Open(o, k2, s2) /\ ~(k2 = k /\ s2 = s)
    BY AnsweredIs
  <2> HIDE DEF p
  <2>2. SameSeverities(w, o, p)
    BY <1>2, <2>1 DEF SameSeverities
  <2>3. Below(w, o, p, b, t, b, t) /\ Above(w, o, p, b, t, b, t)
    BY <1>0, <2>2, SameReading
  <2> QED
    BY <1>0, <2>3, BandBetween DEF p
<1> QED
  BY <1>1, <1>2

(* A row's points come from its findings and tiers.                        *)
PointsFrom(C, I, halved) ==
  LET further == Cardinality({f \in C : HighOrCritical(f)})
      cs == Highest({0} \cup {CalledScore[SeverityOf(f)] : f \in C})
              + (IF further > 1 THEN (further - 1) * FurtherAdvisoryAdd ELSE 0)
      is == Highest({0} \cup {Smaller(ImportedScore[SeverityOf(f)], ImportedCap) : f \in I})
      worst == Smaller(Larger(cs, is), 100)
      full == IF \E f \in C : f.exploited THEN Larger(worst, ExploitedFloor) ELSE worst
  IN IF halved THEN Smaller(full \div 2, TestOnlyCap) ELSE full

(* It does.                                                                *)
LEMMA PointsOfRow ==
  ASSUME NEW r
  PROVE  VulnScore(r) = PointsFrom(InTier(r, "called"), InTier(r, "imported"), r.testOnly)
BY DEF VulnScore, PointsFrom

(* Rows of the same findings have the same points.                         *)
LEMMA SamePoints ==
  ASSUME NEW r, NEW q, q.findings = r.findings, q.self = r.self, q.testOnly = r.testOnly,
         q.notBuilt = r.notBuilt
  PROVE  VulnScore(q) = VulnScore(r)
<1>1. \A f : TierOf(f, q) = TierOf(f, r)
  BY Zenon DEF TierOf
<1>2. InTier(q, "called") = InTier(r, "called") /\ InTier(q, "imported") = InTier(r, "imported")
  BY <1>1 DEF InTier
<1> DEFINE C == InTier(q, "called")
           D == InTier(r, "called")
           I == InTier(q, "imported")
           J == InTier(r, "imported")
<1>3. /\ VulnScore(q) = PointsFrom(C, I, q.testOnly)
      /\ VulnScore(r) = PointsFrom(D, J, r.testOnly)
  BY PointsOfRow, Zenon
<1>4. C = D /\ I = J
  BY <1>2
<1> HIDE DEF C, D, I, J
<1> QED
  BY <1>3, <1>4, Zenon

-----------------------------------------------------------------------------
(* The flags that a report lists as unread.                                *)

(* A flag that was not read matters when the module's upkeep would.        *)
LEMMA UnreadRow ==
  ASSUME NEW w, KnownWorld(w), NEW o, NEW m \in Modules(w), NEW yes, yes = TRUE
  PROVE  Band(RowScore([ReadRow(w, o, m, "none", "LOW") EXCEPT !.archived = yes])) > KnownBand(w, o)
           <=> Band(UpkeepIfArchived(RowOf(w, o, m))) > KnownBand(w, o)
<1> DEFINE in == Known(w, o)
           L == KnownBand(w, o)
           r == RowOf(w, o, m)
           x == ReadRow(w, o, m, "none", "LOW")
           q == [x EXCEPT !.archived = yes]
           U == UpkeepIfArchived(r)
           V == VulnScore(x)
<1>0. "LOW" \in Severities /\ yes \in BOOLEAN
  BY DEF Severities
<1>1. L = Band(Score(in)) /\ Score(in) \in 0..100
  BY <1>0, ReadingIs, Zenon DEF KnownBand, BandOf, Known
<1>2. in.rows \in Trees(Modules(w), Vulns(w)) /\ in.rows = {ReadRow(w, o, l, "none", "LOW") : l \in Modules(w)}
  BY <1>0, ReadingIs DEF Known
<1>3. x \in in.rows
  BY <1>2
<1>4. x \in RowsOver(Modules(w), Vulns(w)) /\ SameModule(x, r)
  BY <1>0, ReadRowIs
<1> HIDE DEF in, x, r, L
<1>5. /\ q.findings = x.findings /\ q.self = x.self /\ q.testOnly = x.testOnly /\ q.notBuilt = x.notBuilt
      /\ q.archived = yes
  BY <1>4 DEF RowsOver
<1> HIDE DEF q
<1>6. VulnScore(q) = V
  BY <1>5, SamePoints
<1>7. UpkeepIfArchived(q) = U
  BY <1>4, <1>5, Zenon DEF UpkeepIfArchived, SameModule
<1>8. UpkeepScore(q) = U
  BY <1>5, <1>7, Zenon DEF UpkeepScore
<1>9. RowScore(q) = Larger(V, U)
  BY <1>6, <1>8, Zenon DEF RowScore
<1>10. V \in 0..100 /\ V <= RowScore(x) /\ RowScore(x) \in 0..100 /\ RowScore(x) <= Score(in)
  BY <1>2, <1>3, <1>4, VulnScoreIs, RowScoreIs, ScoreIs
<1>11. U \in 0..100
  <2>1. U \in {10, 20, 35}
    BY UpkeepIs
  <2> HIDE DEF U
  <2> QED
    BY <2>1
<1> HIDE DEF U, V
<1>12. Band(V) <= L
  <2> DEFINE n == RowScore(x)
             s == Score(in)
  <2>1. V \in 0..100 /\ n \in 0..100 /\ s \in 0..100 /\ V <= n /\ n <= s
    BY <1>1, <1>10
  <2> HIDE DEF n, s
  <2>2. V <= s
    BY <2>1
  <2>3. Band(V) <= Band(s)
    BY <2>1, <2>2, BandsOfScores
  <2> QED
    BY <1>1, <2>3 DEF s
<1>13. Band(U) \in 1..5 /\ Band(V) \in 1..5 /\ L \in 1..5 /\ (U <= V => Band(U) <= Band(V))
  <2>1. U \in Nat /\ V \in Nat /\ Score(in) \in Nat
    BY <1>1, <1>10, <1>11
  <2>2. Band(U) \in 1..5 /\ Band(V) \in 1..5 /\ L \in 1..5
    BY <1>1, <2>1, Bands
  <2> QED
    BY <1>10, <1>11, <2>2, BandsOfScores
<1>14. Larger(V, U) = U \/ (Larger(V, U) = V /\ U <= V)
  BY <1>10, <1>11 DEF Larger
<1>15. Band(RowScore(q)) > L <=> Band(U) > L
  <2>1. CASE Larger(V, U) = U
    BY <1>9, <2>1
  <2>2. CASE Larger(V, U) = V /\ U <= V
    <3>1. ~(Band(V) > L) /\ ~(Band(U) > L)
      BY <1>12, <1>13, <2>2
    <3> QED
      BY <1>9, <2>2, <3>1
  <2> QED
    BY <1>14, <2>1, <2>2
<1> QED
  BY <1>15 DEF q, x, r, U, L

\* A flag that was not read, of a dependency, that could make the band worse.
UnreadWeighs(w, o, m, L) ==
  /\ ~RowOf(w, o, m).self /\ RowOf(w, o, m).unread
  /\ Band(UpkeepIfArchived(RowOf(w, o, m))) > L

(* These are the flags that the report names.                              *)
LEMMA UnreadIs ==
  ASSUME NEW w, KnownWorld(w), NEW o
  PROVE  ArchivedUnread(Known(w, o), Score(Known(w, o)))
           = {m \in Modules(w) : UnreadWeighs(w, o, m, KnownBand(w, o))}
<1> DEFINE in == Known(w, o)
           L == KnownBand(w, o)
           yes == TRUE
           X(m) == ReadRow(w, o, m, "none", "LOW")
           R(m) == RowOf(w, o, m)
           Raised(x) == Band(RowScore([x EXCEPT !.archived = yes])) > L
           Costs(m) == Band(UpkeepIfArchived(R(m))) > L
<1>0. "LOW" \in Severities
  BY DEF Severities
<1>1. L = Band(Score(in))
  BY Zenon DEF KnownBand, BandOf, Known
<1>2. in.rows = {X(m) : m \in Modules(w)}
  BY <1>0, ReadingIs DEF Known
<1>3. ASSUME NEW m \in Modules(w)
      PROVE  /\ X(m).module = m /\ X(m).self = R(m).self /\ X(m).unread = R(m).unread
             /\ Raised(X(m)) <=> Costs(m)
  <2>1. SameModule(X(m), R(m)) /\ X(m).unread = R(m).unread /\ R(m).module = m
    BY <1>0, ReadRowIs, RowOfIs
  <2>2. Raised(X(m)) <=> Costs(m)
    BY UnreadRow
  <2> QED
    BY <2>1, <2>2, Zenon DEF SameModule
<1>4. ArchivedUnread(in, Score(in))
        = {z.module : z \in {y \in in.rows : /\ ~y.self /\ y.unread
                                             /\ Band(RowScore([y EXCEPT !.archived = yes])) > Band(Score(in))}}
  BY Zenon DEF ArchivedUnread
<1>5. \A y : Raised(y) <=> Band(RowScore([y EXCEPT !.archived = yes])) > Band(Score(in))
  BY <1>1, Zenon
<1>6. \A m : UnreadWeighs(w, o, m, L) <=> ~R(m).self /\ R(m).unread /\ Costs(m)
  BY Zenon DEF UnreadWeighs
<1> HIDE DEF in, L, yes, X, R, Raised, Costs
<1>7. ArchivedUnread(in, Score(in)) = {z.module : z \in {y \in in.rows : ~y.self /\ y.unread /\ Raised(y)}}
  BY <1>4, <1>5
<1>8. {z.module : z \in {y \in in.rows : ~y.self /\ y.unread /\ Raised(y)}}
        = {m \in Modules(w) : ~R(m).self /\ R(m).unread /\ Costs(m)}
  BY <1>2, <1>3
<1> QED
  BY <1>6, <1>7, <1>8 DEF in, L

(* An answer that is not overlooked, and leaves the band, leaves no flag to *)
(* be named.                                                               *)
LEMMA NoneUnread ==
  ASSUME NEW w, KnownWorld(w), NEW o, NEW p \in SUBSET o, NEW L, L = KnownBand(w, o),
         KnownBand(w, p) = L, QuietKnown(w, o, L),
         ArchivedUnread(Known(w, o), Score(Known(w, o))) = {}
  PROVE  ArchivedUnread(Known(w, p), Score(Known(w, p))) = {}
<1>1. ASSUME NEW m \in Modules(w), UnreadWeighs(w, p, m, L)
      PROVE  FALSE
  <2>1. (FlagFailed(p, m) => FlagFailed(o, m)) /\ (ModCheckFailed(p, m) => ModCheckFailed(o, m))
    BY OpenStays DEF FlagFailed, ModCheckFailed
  <2>2. ~RowOf(w, p, m).self /\ RowOf(w, p, m).unread
    BY <1>1 DEF UnreadWeighs
  <2>3. ~RowOf(w, o, m).self /\ (RowOf(w, o, m).missing \/ RowOf(w, o, m).unread)
    BY <2>1, <2>2, RowOfIs
  <2>4. UpkeepIfArchived(RowOf(w, p, m)) = UpkeepIfArchived(RowOf(w, o, m))
    BY RowOfIs DEF UpkeepIfArchived
  <2>5. Band(UpkeepIfArchived(RowOf(w, o, m))) > L
    BY <1>1, <2>4 DEF UnreadWeighs
  <2>6. ~RowOf(w, o, m).missing
    BY <2>5 DEF QuietKnown
  <2>7. UnreadWeighs(w, o, m, L)
    BY <2>3, <2>5, <2>6 DEF UnreadWeighs
  <2>8. ArchivedUnread(Known(w, o), Score(Known(w, o))) = {l \in Modules(w) : UnreadWeighs(w, o, l, L)}
    BY UnreadIs
  <2> QED
    BY <2>7, <2>8
<1>2. ArchivedUnread(Known(w, p), Score(Known(w, p))) = {m \in Modules(w) : UnreadWeighs(w, p, m, L)}
  BY UnreadIs
<1> QED
  BY <1>1, <1>2

(* The grade's letter stays with it.                                       *)
LEMMA LetterIsKept ==
  ASSUME NEW w, KnownWorld(w), NEW o, NEW k, NEW s, <<k, s>> \in o, <<k, s>> \in Checks(w),
         ~Overlooked(w, o, <<k, s>>), NEW r, r = Grade(InputOf(w, o)),
         r.letter # NoLetter, ~r.estimated, r.unread = {}
  PROVE  LET q == Grade(InputOf(w, o \ {<<k, s>>}))
         IN q.letter = r.letter /\ ~q.estimated /\ q.unread = {}
<1> DEFINE p == o \ {<<k, s>>}
           L == KnownBand(w, o)
           U == ArchivedUnread(Known(w, o), Score(Known(w, o)))
           est == ~SettledBand(w, o, "estimated")
<1>1. L \in 1..5 /\ r.letter = L /\ QuietKnown(w, o, L) /\ SettledBand(w, o, "failed")
      /\ r = AReport(L, est, U)
  BY GradeKnown
<1>2. ~est /\ U = {}
  <2> HIDE DEF U, L
  <2>0. r = AReport(L, ~SettledBand(w, o, "estimated"), U)
    BY <1>1
  <2>1. (r.estimated <=> ~SettledBand(w, o, "estimated")) /\ r.unread = U
    BY ONLY <2>0, Zenon DEF AReport
  <2> QED
    BY <2>1
<1>3. SettledBand(w, o, "estimated")
  BY <1>2
<1>4. \A b : \A t \in Severities : BandOf(w, o, b, t) = L => BandOf(w, p, b, t) = L
  BY <1>1, <1>2, <1>3, BandsKept
<1>5. QuietKnown(w, p, L)
  BY <1>1, QuietStays
<1> HIDE DEF p
<1>6. BandOf(w, o, "none", "LOW") = L /\ \A t \in {"LOW", "CRITICAL"} : BandOf(w, o, "failed", t) = L
  BY <1>1 DEF SettledBand, KnownBand
<1>7. "LOW" \in Severities /\ "CRITICAL" \in Severities
  BY DEF Severities
<1>8. KnownBand(w, p) = L
  BY <1>4, <1>6, <1>7 DEF KnownBand
<1>9. \A a \in {"failed", "estimated"} : SettledBand(w, p, a)
  <2>1. \A a \in {"failed", "estimated"} : \A t \in {"LOW", "CRITICAL"} : BandOf(w, o, a, t) = L
    BY <1>1, <1>3 DEF SettledBand
  <2>2. \A a \in {"failed", "estimated"} : \A t \in {"LOW", "CRITICAL"} : BandOf(w, p, a, t) = L
    BY <1>4, <1>7, <2>1
  <2> QED
    BY <1>8, <2>2 DEF SettledBand
<1> DEFINE q == Grade(InputOf(w, p))
           V == ArchivedUnread(Known(w, p), Score(Known(w, p)))
<1>10. q.letter = L /\ L # NoLetter
  BY <1>1, <1>5, <1>8, <1>9, GradeKnown
<1>11. q = AReport(KnownBand(w, p), ~SettledBand(w, p, "estimated"), V)
  BY <1>10, GradeKnown
<1>12. V = {}
  <2>1. ArchivedUnread(Known(w, o), Score(Known(w, o))) = {}
    BY <1>2
  <2>2. p \in SUBSET o
    BY DEF p
  <2> HIDE DEF L
  <2>3. L = KnownBand(w, o)
    BY DEF L
  <2> QED
    BY <1>1, <1>8, <2>1, <2>2, <2>3, NoneUnread
<1>13. ~q.estimated /\ q.unread = {}
  <2> HIDE DEF q, V
  <2>1. (q.estimated <=> ~SettledBand(w, p, "estimated")) /\ q.unread = V
    BY ONLY <1>11, Zenon DEF AReport
  <2> QED
    BY <1>9, <1>12, <2>1
<1> QED
  BY <1>1, <1>10, <1>13 DEF p, q

AboutUpkeep(k) == k \in {"notices", "archived flag"}

(* Reading the notice or the flag of a module confirms the letter of its   *)
(* row.                                                                    *)
LEMMA RowLetterIsKept ==
  ASSUME NEW w, KnownWorld(w), NEW o, NEW m \in Modules(w), NEW k, NEW s, AboutUpkeep(k),
         RowLetter(RowOf(w, o, m)) # NoLetter, ~RowOf(w, o, m).unread
  PROVE  RowLetter(RowOf(w, o \ {<<k, s>>}, m)) = RowLetter(RowOf(w, o, m))
<1> DEFINE p == o \ {<<k, s>>}
           r == RowOf(w, o, m)
           q == RowOf(w, p, m)
           U == UpkeepIfArchived(r)
           V == VulnScore(r)
<1>1. p \in SUBSET o /\ \A k2, s2 : Open(p, k2, s2) <=> Open(o, k2, s2) /\ ~(k2 = k /\ s2 = s)
  BY AnsweredIs
<1> HIDE DEF p
<1>2. FindingsOf(w, p, m) = FindingsOf(w, o, m)
  <2>1. /\ \A k2 \in {"scan", "own advisories", "severity", "published", "called pass", "catalog"} :
             \A s2 : Open(p, k2, s2) <=> Open(o, k2, s2)
    BY <1>1 DEF AboutUpkeep
  <2>2. ASSUME NEW f \in Findings(w)
        PROVE  FindingFromVuln(w, p, f) = FindingFromVuln(w, o, f)
    <3> DEFINE g == FindingFromVuln(w, p, f)
               h == FindingFromVuln(w, o, f)
    <3>1. g \in FindingsOver(Vulns(w)) /\ h \in FindingsOver(Vulns(w))
      BY FindingFromVulnIs
    <3>2. g.vuln = h.vuln /\ g.id = h.id
      BY FindingFromVulnIs
    <3>3. g.severity = h.severity /\ g.reach = h.reach
      <4>1. (Unknown(p, f) <=> Unknown(o, f))
            /\ (Open(p, "called pass", "all") <=> Open(o, "called pass", "all"))
        BY <2>1 DEF Unknown
      <4>2. SeverityKnown(w, p, f) = SeverityKnown(w, o, f)
        BY <4>1, Zenon DEF SeverityKnown
      <4>3. ReachKnown(w, p, f) = ReachKnown(w, o, f)
        BY <4>1, Zenon DEF ReachKnown
      <4>4. g.severity = SeverityKnown(w, p, f) /\ h.severity = SeverityKnown(w, o, f)
            /\ g.reach = ReachKnown(w, p, f) /\ h.reach = ReachKnown(w, o, f)
        BY FindingFromVulnIs
      <4> QED
        BY <4>2, <4>3, <4>4, Zenon
    <3>4. (g.failed <=> h.failed) /\ (g.exploited <=> h.exploited)
      BY <2>1, FindingFromVulnIs
    <3> HIDE DEF g, h
    <3>5. g = h
      BY <3>1, <3>2, <3>3, <3>4 DEF FindingsOver
    <3> QED
      BY <3>5 DEF g, h
  <2>3. Open(p, "scan", "all") <=> Open(o, "scan", "all")
    BY <2>1
  <2>4. Open(p, "own advisories", "all") <=> Open(o, "own advisories", "all")
    BY <2>1
  <2> QED
    BY <2>2, <2>3, <2>4 DEF FindingsOf
<1>3. /\ r \in RowsOver(Modules(w), Vulns(w)) /\ q \in RowsOver(Modules(w), Vulns(w))
      /\ q.findings = r.findings
  <2>1. r \in RowsOver(Modules(w), Vulns(w)) /\ r.findings = FindingsOf(w, o, m)
    BY RowOfIs, Zenon
  <2>2. q \in RowsOver(Modules(w), Vulns(w)) /\ q.findings = FindingsOf(w, p, m)
    BY RowOfIs, Zenon
  <2> QED
    BY <1>2, <2>1, <2>2, Zenon
<1>4. /\ q.self <=> r.self
      /\ q.testOnly <=> r.testOnly
      /\ q.notBuilt <=> r.notBuilt
  BY RowOfIs
<1>5. /\ r.archived => q.archived
      /\ q.archived => r.archived \/ r.missing
      /\ ~r.archived /\ q.missing => r.missing
      /\ ~r.unread
  <2>1. (FlagFailed(p, m) => FlagFailed(o, m)) /\ (ModCheckFailed(p, m) => ModCheckFailed(o, m))
    BY <1>1 DEF FlagFailed, ModCheckFailed
  <2>2. q.archived => r.archived \/ r.missing
    BY <1>1, ArchivedWas
  <2> QED
    BY <2>1, <2>2, RowOfIs
<1> HIDE DEF r, q
<1>6. q.self = r.self /\ q.testOnly = r.testOnly /\ q.notBuilt = r.notBuilt
  BY <1>3, <1>4 DEF RowsOver
<1>7. VulnScore(q) = V
  BY <1>3, <1>6, SamePoints
<1>8. UpkeepIfArchived(q) = U
  BY <1>6, Zenon DEF UpkeepIfArchived
<1>9. V \in 0..100 /\ U \in 0..100
  <2>1. V \in 0..100
    BY <1>3, VulnScoreIs
  <2>2. U \in {10, 20, 35}
    BY UpkeepIs
  <2> HIDE DEF U, V
  <2> QED
    BY <2>1, <2>2
<1>10. /\ RowScore(r) = Larger(V, IF r.archived THEN U ELSE 0)
       /\ RowScore(q) = Larger(V, IF q.archived THEN U ELSE 0)
  BY <1>7, <1>8, Zenon DEF RowScore, UpkeepScore
<1>11. /\ RowLetter(r) = IF r.missing /\ ~r.archived /\ Band(U) > Band(RowScore(r))
                         THEN NoLetter ELSE Band(RowScore(r))
       /\ RowLetter(q) = IF q.missing /\ ~q.archived /\ Band(U) > Band(RowScore(q))
                         THEN NoLetter ELSE Band(RowScore(q))
  BY <1>8, Zenon DEF RowLetter
<1>12. RowLetter(r) # NoLetter
  BY DEF r
<1> HIDE DEF U, V
<1>13. Band(U) \in 1..5 /\ Band(V) \in 1..5 /\ (U <= V => Band(U) <= Band(V)) /\ (V <= U => Band(V) <= Band(U))
  <2>1. U \in Nat /\ V \in Nat
    BY <1>9
  <2> QED
    BY <1>9, <2>1, BandsOfScores, Bands
<1>14. CASE r.archived
  <2>1. RowScore(q) = RowScore(r)
    BY <1>5, <1>10, <1>14
  <2> QED
    BY <1>5, <1>11, <1>14, <2>1 DEF r, q, p
<1>15. CASE ~r.archived /\ q.archived
  <2>1. RowScore(r) = V /\ RowScore(q) = Larger(V, U)
    <3>1. RowScore(r) = Larger(V, 0) /\ RowScore(q) = Larger(V, U)
      BY <1>10, <1>15, Zenon
    <3> QED
      BY <1>9, <3>1 DEF Larger
  <2>2. ~(Band(U) > Band(V)) /\ RowLetter(r) = Band(V)
    BY <1>5, <1>11, <1>12, <1>15, <2>1
  <2>3. Band(Larger(V, U)) = Band(V)
    <3>1. CASE U <= V
      BY <1>9, <3>1 DEF Larger
    <3>2. CASE ~(U <= V)
      <4>1. Larger(V, U) = U /\ V <= U
        BY <1>9, <3>2 DEF Larger
      <4>2. Band(U) = Band(V)
        BY <1>13, <2>2, <4>1
      <4> QED
        BY <4>1, <4>2
    <3> QED
      BY <3>1, <3>2
  <2>4. RowLetter(q) = Band(V)
    BY <1>11, <1>15, <2>1, <2>3
  <2> QED
    BY <2>2, <2>4 DEF r, q, p
<1>16. CASE ~r.archived /\ ~q.archived
  <2>1. RowScore(r) = V /\ RowScore(q) = V
    <3>1. RowScore(r) = Larger(V, 0) /\ RowScore(q) = Larger(V, 0)
      BY <1>10, <1>16, Zenon
    <3> QED
      BY <1>9, <3>1 DEF Larger
  <2>2. RowLetter(q) = RowLetter(r)
    BY <1>5, <1>11, <1>12, <1>16, <2>1
  <2> QED
    BY <2>2 DEF r, q, p
<1> QED
  BY <1>14, <1>15, <1>16

-----------------------------------------------------------------------------
(* The grades of one module.                                               *)

(* A check is a kind and what it asks about.                               *)
LEMMA ChecksArePairs ==
  ASSUME NEW w, NEW c \in Checks(w)
  PROVE  \E k, s : c = <<k, s>>
<1>1. \A A, B : \A d \in A \X B : d = <<d[1], d[2]>>
  OBVIOUS
<1>2. \/ \E k \in {"scan", "mod verify", "catalog", "own advisories", "called pass"} : c = <<k, "all">>
      \/ c \in {"severity", "published"} \X Findings(w)
      \/ c \in {"notices", "archived flag"} \X Modules(w)
  BY Zenon DEF Checks
<1> QED
  BY <1>1, <1>2, Zenon

\* The report is the grade of what is known, of a world that may be.
KnowledgeInv ==
  /\ KnownWorld(world)
  /\ open \subseteq Checks(world)
  /\ report = Grade(InputOf(world, open))

(* The world is one that a scene allows, and the report is today's.        *)
THEOREM KnowledgeInvariance == KnowledgeSpec => []KnowledgeInv
<1>1. KnowledgeInit => KnowledgeInv
  <2> SUFFICES ASSUME KnowledgeInit PROVE KnowledgeInv
    OBVIOUS
  <2>1. PICK scene \in Scenes : world \in scene.worlds /\ open \in scene.opens
    BY DEF KnowledgeInit
  <2>2. open \subseteq Checks(world)
    BY <2>1, KnowledgeAssumption
  <2> QED
    BY <2>1, <2>2 DEF KnowledgeInit, KnowledgeInv, KnownWorld
<1>2. KnowledgeInv /\ [KnowledgeNext]_knowledgeVars => KnowledgeInv'
  BY DEF KnowledgeInv, KnowledgeNext, Answer, knowledgeVars
<1> QED
  BY <1>1, <1>2, PTL DEF KnowledgeSpec

(* A check is answered, and what it says is known.                         *)
LEMMA Answered ==
  ASSUME KnowledgeInv, KnowledgeNext
  PROVE  /\ KnowledgeInv' /\ world' = world
         /\ \E k, s : /\ <<k, s>> \in open /\ <<k, s>> \in Checks(world)
                      /\ open' = open \ {<<k, s>>} /\ open \ open' = {<<k, s>>}
                      /\ report' = Grade(InputOf(world, open \ {<<k, s>>}))
<1>1. PICK c \in Checks(world) : Answer(c)
  BY DEF KnowledgeNext
<1>2. PICK k, s : c = <<k, s>>
  BY ChecksArePairs
<1>3. /\ <<k, s>> \in open /\ open' = open \ {<<k, s>>} /\ world' = world
      /\ report' = Grade(InputOf(world, open'))
  BY <1>1, <1>2 DEF Answer
<1>4. report' = Grade(InputOf(world, open \ {<<k, s>>}))
  BY <1>3
<1>5. open \ open' = {<<k, s>>}
  BY <1>3
<1>6. KnowledgeInv'
  BY <1>3 DEF KnowledgeInv
<1> QED
  BY <1>1, <1>2, <1>3, <1>4, <1>5, <1>6

(* A letter without a star or a list is the one the next answer gives,    *)
(* again without them, and so the one that all answers give; a row's letter*)
(* is kept too.  This is so whatever is true of the module, however many   *)
(* dependencies and advisories it has and whichever checks are open, but   *)
(* for the answers that the rules are shown to overlook (Overlooked).      *)
THEOREM LetterStandsHolds == KnowledgeSpec => LetterStands
<1>1. ASSUME KnowledgeInv, KnowledgeNext
      PROVE  LetterKept /\ RowLettersKept
  <2>1. PICK k, s : /\ <<k, s>> \in open /\ <<k, s>> \in Checks(world)
                    /\ open' = open \ {<<k, s>>} /\ open \ open' = {<<k, s>>}
                    /\ report' = Grade(InputOf(world, open \ {<<k, s>>}))
    BY <1>1, Answered
  <2>2. KnownWorld(world) /\ report = Grade(InputOf(world, open))
    BY <1>1 DEF KnowledgeInv
  <2>3. LetterKept
    <3> SUFFICES ASSUME Firm, \A c \in open \ open' : ~Overlooked(world, open, c)
                 PROVE  report'.letter = report.letter /\ Firm'
      BY DEF LetterKept
    <3>1. ~Overlooked(world, open, <<k, s>>)
      BY <2>1
    <3>2. report'.letter = report.letter /\ ~report'.estimated /\ report'.unread = {}
      BY <2>1, <2>2, <3>1, LetterIsKept DEF Firm
    <3> QED
      BY <3>2 DEF Firm
  <2>4. RowLettersKept
    <3> SUFFICES ASSUME NEW m \in Modules(world),
                        open \ open' \subseteq {"notices", "archived flag"} \X {m},
                        RowLetter(RowOf(world, open, m)) # NoLetter,
                        ~RowOf(world, open, m).unread
                 PROVE  RowLetter(RowOf(world, open', m)) = RowLetter(RowOf(world, open, m))
      BY Zenon DEF RowLettersKept
    <3>1. AboutUpkeep(k)
      <4>1. <<k, s>> \in {"notices", "archived flag"} \X {m}
        BY <2>1, Zenon
      <4> QED
        BY <4>1 DEF AboutUpkeep
    <3> QED
      BY <2>1, <2>2, <3>1, RowLetterIsKept
  <2> QED
    BY <2>3, <2>4
<1>2. KnowledgeInv /\ [KnowledgeNext]_knowledgeVars => [LetterKept /\ RowLettersKept]_knowledgeVars
  BY <1>1
<1> QED
  BY <1>2, KnowledgeInvariance, PTL DEF KnowledgeSpec, LetterStands

-----------------------------------------------------------------------------
(* The called pass, when the analysis was right to skip it.                *)

(* What is open but for the called pass is open after it.                  *)
LEMMA PassAnswered ==
  ASSUME NEW w, KnownWorld(w), NEW o
  PROVE  LET p == o \ {<<"called pass", "all">>}
         IN /\ p \in SUBSET o /\ SameSeverities(w, o, p) /\ SameCatalog(o, p) /\ SameVerify(o, p)
            /\ \A m : /\ FlagFailed(p, m) <=> FlagFailed(o, m)
                      /\ ModCheckFailed(p, m) <=> ModCheckFailed(o, m)
<1> DEFINE k == "called pass"
           s == "all"
           p == o \ {<<k, s>>}
<1> HIDE DEF k, s
<1>1. p \in SUBSET o
  BY AnsweredIs
<1>2. \A k2, s2 : Open(p, k2, s2) <=> Open(o, k2, s2) /\ ~(k2 = k /\ s2 = s)
  BY AnsweredIs
<1> HIDE DEF p
<1>3. SameSeverities(w, o, p) /\ SameCatalog(o, p) /\ SameVerify(o, p)
  BY <1>2 DEF SameSeverities, SameCatalog, SameVerify, k
<1>4. \A m : /\ FlagFailed(p, m) <=> FlagFailed(o, m)
             /\ ModCheckFailed(p, m) <=> ModCheckFailed(o, m)
  BY <1>2 DEF FlagFailed, ModCheckFailed, k
<1> QED
  BY <1>1, <1>3, <1>4 DEF p, k, s

(* The upkeep of a module whose checks are as they were.                   *)
LEMMA UpkeepStays ==
  ASSUME NEW w, KnownWorld(w), NEW o, NEW p, NEW m \in Modules(w),
         FlagFailed(p, m) <=> FlagFailed(o, m), ModCheckFailed(p, m) <=> ModCheckFailed(o, m)
  PROVE  /\ RowOf(w, p, m).archived <=> RowOf(w, o, m).archived
         /\ RowOf(w, p, m).unread <=> RowOf(w, o, m).unread
         /\ RowOf(w, p, m).self <=> RowOf(w, o, m).self
         /\ UpkeepIfArchived(RowOf(w, p, m)) = UpkeepIfArchived(RowOf(w, o, m))
<1> DEFINE r == RowOf(w, o, m)
           q == RowOf(w, p, m)
<1>1. /\ q.archived <=> r.archived
      /\ q.unread <=> r.unread
      /\ q.self <=> r.self
      /\ q.testOnly <=> r.testOnly
      /\ q.notBuilt <=> r.notBuilt
  BY RowOfIs
<1>2. r \in RowsOver(Modules(w), Vulns(w)) /\ q \in RowsOver(Modules(w), Vulns(w))
  BY RowOfIs, Zenon
<1> HIDE DEF r, q
<1>3. q.self = r.self /\ q.testOnly = r.testOnly /\ q.notBuilt = r.notBuilt
  BY <1>1, <1>2 DEF RowsOver
<1>4. UpkeepIfArchived(q) = UpkeepIfArchived(r)
  BY <1>3, Zenon DEF UpkeepIfArchived
<1> QED
  BY <1>1, <1>4 DEF r, q

(* The pass leaves the band of every reading.                              *)
LEMMA PassKeepsBands ==
  ASSUME NEW w, KnownWorld(w), NEW o, Open(o, "called pass", "all"), Scanned(o),
         ~StaleCalledPass(w, o), ~CalledUnweighed(w, o), NEW a, NEW s \in Severities
  PROVE  BandOf(w, o \ {<<"called pass", "all">>}, a, s) = BandOf(w, o, a, s)
<1> DEFINE p == o \ {<<"called pass", "all">>}
           K == BandOf(w, o, a, s)
           N == BandOf(w, p, a, s)
<1>1. /\ p \in SUBSET o /\ SameSeverities(w, o, p) /\ SameCatalog(o, p) /\ SameVerify(o, p)
      /\ \A m : /\ FlagFailed(p, m) <=> FlagFailed(o, m)
                /\ ModCheckFailed(p, m) <=> ModCheckFailed(o, m)
  BY PassAnswered
<1> HIDE DEF p
<1>2. Below(w, o, p, a, s, a, s) /\ Above(w, o, p, a, s, a, s)
  BY <1>1, SameReading
<1>3. AllSteady(w, o, p)
  <2>1. ASSUME NEW m \in Modules(w), NEW z \in Pairs(w, o, p, m) PROVE Steady(w, m, z[1], z[2])
    <3> DEFINE g == z[1]
               h == z[2]
    <3>1. g \in Groups(w, o, m) /\ h \in Groups(w, p, m) /\ h.vuln = g.vuln
      BY PairsIn
    <3> HIDE DEF g, h
    <3>2. Steady(w, m, g, h)
      BY <1>1, <3>1, PassIsSteady
    <3> QED
      BY <3>2 DEF g, h
  <2> QED
    BY <2>1 DEF AllSteady
<1>4. ArchivedWithin(w, p, K)
  <2>1. ASSUME NEW m \in Modules(w), RowOf(w, p, m).archived
        PROVE  Band(UpkeepIfArchived(RowOf(w, p, m))) <= K
    <3>1. RowOf(w, o, m).archived /\ UpkeepIfArchived(RowOf(w, p, m)) = UpkeepIfArchived(RowOf(w, o, m))
      BY <1>1, <2>1, UpkeepStays
    <3> QED
      BY <3>1, ArchivedCosts
  <2> QED
    BY <2>1 DEF ArchivedWithin
<1>5. K <= N
  BY <1>1, <1>2, BandOfRises
<1>6. K \in 1..5 /\ N \in 1..5
  BY BandOfIs
<1>7. N <= K
  <2>1. K \in Nat /\ BandOf(w, o, a, s) <= K
    <3> HIDE DEF K
    <3>1. K \in Nat /\ K <= K
      BY ONLY <1>6
    <3> QED
      BY <3>1 DEF K
  <2> HIDE DEF K
  <2> QED
    BY <1>1, <1>2, <1>3, <1>4, <2>1, BandsHold
<1>8. N = K
  <2> HIDE DEF N, K
  <2> QED
    BY ONLY <1>5, <1>6, <1>7
<1> QED
  BY <1>8 DEF p

(* And the report.                                                         *)
LEMMA PassKeepsReport ==
  ASSUME NEW w, KnownWorld(w), NEW o, Open(o, "called pass", "all"), ~CalledUnweighed(w, o),
         Grade(InputOf(w, o)).letter # NoLetter
  PROVE  Grade(InputOf(w, o \ {<<"called pass", "all">>})) = Grade(InputOf(w, o))
<1> DEFINE p == o \ {<<"called pass", "all">>}
           L == KnownBand(w, o)
<1>1. L \in 1..5 /\ QuietKnown(w, o, L) /\ SettledBand(w, o, "failed")
      /\ Grade(InputOf(w, o)) = AReport(L, ~SettledBand(w, o, "estimated"),
                                        ArchivedUnread(Known(w, o), Score(Known(w, o))))
  BY GradeKnown
<1>2. ~Overlooked(w, o, <<"called pass", "all">>)
  BY DEF Overlooked
<1>3. QuietKnown(w, p, L)
  BY <1>1, <1>2, QuietStays
<1>4. \A m : /\ FlagFailed(p, m) <=> FlagFailed(o, m)
             /\ ModCheckFailed(p, m) <=> ModCheckFailed(o, m)
  BY PassAnswered
<1>5. \A a : \A s \in Severities : BandOf(w, p, a, s) = BandOf(w, o, a, s)
  BY <1>1, PassKeepsBands DEF QuietKnown
<1> HIDE DEF p
<1>6. "LOW" \in Severities /\ "CRITICAL" \in Severities
  BY DEF Severities
<1>7. KnownBand(w, p) = L
  BY <1>5, <1>6 DEF KnownBand
<1>8. \A x : SettledBand(w, p, x) <=> SettledBand(w, o, x)
  BY <1>5, <1>6, <1>7 DEF SettledBand
<1>9. Grade(InputOf(w, p)).letter # NoLetter
  <2>1. Grade(InputOf(w, p)).letter = L
    BY <1>1, <1>3, <1>7, <1>8, GradeKnown
  <2>2. L # NoLetter
    <3>1. L \in 1..5
      BY <1>1
    <3> HIDE DEF L
    <3> QED
      BY ONLY <3>1 DEF NoLetter
  <2> QED
    BY <2>1, <2>2
<1>10. ArchivedUnread(Known(w, p), Score(Known(w, p))) = ArchivedUnread(Known(w, o), Score(Known(w, o)))
  <2>1. \A m \in Modules(w) : UnreadWeighs(w, p, m, L) <=> UnreadWeighs(w, o, m, L)
    BY <1>4, UpkeepStays DEF UnreadWeighs
  <2> HIDE DEF L
  <2>2. {m \in Modules(w) : UnreadWeighs(w, p, m, L)} = {m \in Modules(w) : UnreadWeighs(w, o, m, L)}
    BY <2>1
  <2>3. ArchivedUnread(Known(w, p), Score(Known(w, p))) = {m \in Modules(w) : UnreadWeighs(w, p, m, L)}
    BY <1>7, UnreadIs
  <2>4. ArchivedUnread(Known(w, o), Score(Known(w, o))) = {m \in Modules(w) : UnreadWeighs(w, o, m, L)}
    BY UnreadIs DEF L
  <2> QED
    BY <2>2, <2>3, <2>4
<1>11. Grade(InputOf(w, p)) = AReport(L, ~SettledBand(w, p, "estimated"),
                                      ArchivedUnread(Known(w, o), Score(Known(w, o))))
  BY <1>7, <1>9, <1>10, GradeKnown
<1>12. Grade(InputOf(w, p)) = Grade(InputOf(w, o))
  BY <1>1, <1>8, <1>11
<1> QED
  BY <1>12 DEF p

-----------------------------------------------------------------------------
(* The flag of a dependency, read after the letter was given.              *)

\* What the flag says once it is read: the band of an archived dependency.
FlagBand(w, p, m) ==
  IF RowOf(w, p, m).archived THEN Band(UpkeepIfArchived(RowOf(w, p, m))) ELSE 1

(* It is the first or the second.                                          *)
LEMMA FlagBandIs ==
  ASSUME NEW w, KnownWorld(w), NEW p, NEW m \in w.deps
  PROVE  FlagBand(w, p, m) \in {1, 2}
<1> DEFINE q == RowOf(w, p, m)
           U == UpkeepIfArchived(q)
<1>1. m \in Modules(w) /\ m # Self
  BY WorldIs DEF Modules
<1>2. ~q.self
  BY <1>1, RowOfIs
<1>3. U \in {10, 20}
  BY <1>2 DEF UpkeepIfArchived, UpkeepMinor, UpkeepDependency
<1> HIDE DEF U
<1>4. Band(U) \in {1, 2}
  BY <1>3 DEF Band
<1> QED
  BY <1>4 DEF FlagBand, U

(* Every reading is in its band, or in that of the flag when it is worse.  *)
LEMMA FlagMovesBands ==
  ASSUME NEW w, KnownWorld(w), NEW o, Scanned(o), NEW m \in w.deps, NEW a, NEW s \in Severities
  PROVE  BandOf(w, o \ {<<"archived flag", m>>}, a, s)
           = Larger(BandOf(w, o, a, s), FlagBand(w, o \ {<<"archived flag", m>>}, m))
<1> DEFINE p == o \ {<<"archived flag", m>>}
           K == BandOf(w, o, a, s)
           N == BandOf(w, p, a, s)
           U == FlagBand(w, p, m)
           T == Larger(K, U)
<1>1. p \in SUBSET o
  BY AnsweredIs
<1>2. \A k2, s2 : Open(p, k2, s2) <=> Open(o, k2, s2) /\ ~(k2 = "archived flag" /\ s2 = m)
  BY AnsweredIs
<1> HIDE DEF p
<1>3. SameSeverities(w, o, p) /\ SameCatalog(o, p) /\ SamePass(o, p) /\ SameVerify(o, p)
  BY <1>2 DEF SameSeverities, SameCatalog, SamePass, SameVerify
<1>4. m \in Modules(w)
  BY DEF Modules
<1>5. K \in 1..5 /\ N \in 1..5 /\ U \in {1, 2}
  BY BandOfIs, FlagBandIs
<1>6. Below(w, o, p, a, s, a, s) /\ Above(w, o, p, a, s, a, s)
  BY <1>1, <1>3, SameReading
<1>7. AllSteady(w, o, p)
  <2>1. ASSUME NEW l \in Modules(w), NEW z \in Pairs(w, o, p, l) PROVE Steady(w, l, z[1], z[2])
    <3> DEFINE g == z[1]
               h == z[2]
    <3>1. g \in Groups(w, o, l) /\ h \in Groups(w, p, l) /\ h.vuln = g.vuln
      BY PairsIn
    <3> HIDE DEF g, h
    <3>2. h.reach = g.reach /\ (h.exploited <=> g.exploited)
      BY <1>1, <1>3, <3>1, PairIs
    <3>3. Steady(w, l, g, h)
      BY <3>2 DEF Steady, InCalled, InImported
    <3> QED
      BY <3>3 DEF g, h
  <2> QED
    BY <2>1 DEF AllSteady
<1>8. K <= N
  BY <1>1, <1>6, BandOfRises
<1>9. U <= N
  <2>1. CASE RowOf(w, p, m).archived
    BY <1>4, <2>1, ArchivedCosts DEF FlagBand
  <2>2. CASE ~RowOf(w, p, m).archived
    <3>1. U = 1
      BY <2>2 DEF FlagBand
    <3> HIDE DEF U, N
    <3> QED
      BY ONLY <1>5, <3>1
  <2> QED
    BY <2>1, <2>2
<1>10. T \in Nat /\ K <= T /\ U <= T /\ (T = K \/ T = U)
  <2> HIDE DEF K, U
  <2> QED
    BY ONLY <1>5 DEF T, Larger
<1>11. ArchivedWithin(w, p, T)
  <2>1. ASSUME NEW l \in Modules(w), RowOf(w, p, l).archived
        PROVE  Band(UpkeepIfArchived(RowOf(w, p, l))) <= T
    <3>1. CASE l = m
      <4>1. U = Band(UpkeepIfArchived(RowOf(w, p, l)))
        BY <2>1, <3>1 DEF FlagBand
      <4> HIDE DEF U, T
      <4> QED
        BY <1>10, <4>1
    <3>2. CASE l # m
      <4>1. /\ FlagFailed(p, l) <=> FlagFailed(o, l)
            /\ ModCheckFailed(p, l) <=> ModCheckFailed(o, l)
        BY <1>2, <3>2 DEF FlagFailed, ModCheckFailed
      <4>2. RowOf(w, o, l).archived /\ UpkeepIfArchived(RowOf(w, p, l)) = UpkeepIfArchived(RowOf(w, o, l))
        BY <2>1, <4>1, UpkeepStays
      <4> DEFINE n == Band(UpkeepIfArchived(RowOf(w, p, l)))
      <4>3. n <= K
        BY <4>2, ArchivedCosts
      <4>4. n \in 1..5
        <5>1. UpkeepIfArchived(RowOf(w, p, l)) \in Nat
          BY UpkeepIs
        <5> QED
          BY <5>1, Bands
      <4> HIDE DEF n, K, T
      <4>5. n <= T
        BY ONLY <1>5, <1>10, <4>3, <4>4
      <4> QED
        BY <4>5 DEF n
    <3> QED
      BY <3>1, <3>2
  <2> QED
    BY <2>1 DEF ArchivedWithin
<1>12. N <= T
  <2>1. T \in Nat /\ BandOf(w, o, a, s) <= T
    BY <1>10
  <2> HIDE DEF T, K
  <2> QED
    BY <1>1, <1>3, <1>6, <1>7, <1>11, <2>1, BandsHold
<1>13. N = T
  <2> HIDE DEF N, T, K, U
  <2> QED
    BY ONLY <1>5, <1>8, <1>9, <1>10, <1>12
<1> QED
  BY <1>13 DEF p

(* What blocks no letter blocks no worse one.                              *)
LEMMA QuietAbove ==
  ASSUME NEW w, KnownWorld(w), NEW o, NEW L \in 1..5, NEW T \in 1..5, L <= T, QuietKnown(w, o, L)
  PROVE  QuietKnown(w, o, T)
<1>1. ASSUME NEW m \in Modules(w), RowOf(w, o, m).missing
      PROVE  ~(Band(UpkeepIfArchived(RowOf(w, o, m))) > T)
  <2> DEFINE n == Band(UpkeepIfArchived(RowOf(w, o, m)))
  <2>1. UpkeepIfArchived(RowOf(w, o, m)) \in Nat
    BY UpkeepIs
  <2>2. n \in 1..5
    BY <2>1, Bands
  <2>3. ~(n > L)
    BY <1>1 DEF QuietKnown
  <2> HIDE DEF n
  <2>4. ~(n > T)
    BY <2>2, <2>3
  <2> QED
    BY <2>4 DEF n
<1>2. T < 5 => L < 5
  OBVIOUS
<1>3. T < 5 => ~Open(o, "mod verify", "all") /\ ~(KevUnchecked(w, o) > 0)
  BY <1>2 DEF QuietKnown
<1>4. Scanned(o) /\ ~StaleCalledPass(w, o)
  BY DEF QuietKnown
<1> QED
  BY <1>1, <1>3, <1>4, Zenon DEF QuietKnown

(* The letter is that of the flag, when it is worse.                       *)
LEMMA FlagMovesLetter ==
  ASSUME NEW w, KnownWorld(w), NEW o, NEW m \in w.deps, NEW l, l = Grade(InputOf(w, o)).letter, l # NoLetter
  PROVE  Grade(InputOf(w, o \ {<<"archived flag", m>>})).letter \in {l, l + 1}
<1> DEFINE p == o \ {<<"archived flag", m>>}
           L == KnownBand(w, o)
           U == FlagBand(w, p, m)
           T == Larger(L, U)
<1>1. L \in 1..5 /\ l = L /\ QuietKnown(w, o, L) /\ SettledBand(w, o, "failed")
  BY GradeKnown
<1>2. Scanned(o)
  BY <1>1 DEF QuietKnown
<1>3. \A a : \A s \in Severities : BandOf(w, p, a, s) = Larger(BandOf(w, o, a, s), U)
  BY <1>2, FlagMovesBands
<1>4. ~Overlooked(w, o, <<"archived flag", m>>)
  BY DEF Overlooked
<1>5. QuietKnown(w, p, L)
  BY <1>1, <1>4, QuietStays
<1> HIDE DEF p
<1>6. U \in {1, 2}
  BY FlagBandIs
<1>7. "LOW" \in Severities /\ "CRITICAL" \in Severities
  BY DEF Severities
<1>8. KnownBand(w, p) = T
  BY <1>3, <1>7 DEF KnownBand
<1>9. SettledBand(w, p, "failed")
  <2>1. \A s \in {"LOW", "CRITICAL"} : BandOf(w, p, "failed", s) = T
    BY <1>1, <1>3, <1>7 DEF SettledBand
  <2> QED
    BY <1>8, <2>1 DEF SettledBand
<1>10. T \in 1..5 /\ L <= T /\ T \in {L, L + 1}
  <2>1. L \in 1..5
    BY <1>1
  <2> HIDE DEF L, U
  <2> QED
    BY ONLY <1>6, <2>1 DEF T, Larger
<1>11. QuietKnown(w, p, T)
  <2> HIDE DEF T, L
  <2> QED
    BY <1>1, <1>5, <1>10, QuietAbove
<1>12. Grade(InputOf(w, p)).letter = T
  BY <1>8, <1>9, <1>11, GradeKnown
<1> QED
  BY <1>1, <1>10, <1>12 DEF p

-----------------------------------------------------------------------------
(* What the answers promise.                                               *)

(* A report of an analysis that skipped the called pass is the one that the*)
(* pass gives, whatever it finds, unless CalledPassCanChangeLetter missed  *)
(* the weight of a called finding.                                         *)
THEOREM SkippedPassIsHarmlessHolds == KnowledgeSpec => SkippedPassIsHarmless
<1> DEFINE Kept == /\ report.letter # NoLetter
                   /\ open \ open' = {<<"called pass", "all">>}
                   /\ ~CalledUnweighed(world, open)
                   => report' = report
<1>1. ASSUME KnowledgeInv, KnowledgeNext
      PROVE  Kept
  <2> SUFFICES ASSUME report.letter # NoLetter, open \ open' = {<<"called pass", "all">>},
                      ~CalledUnweighed(world, open)
               PROVE  report' = report
    OBVIOUS
  <2>1. PICK k, s : /\ <<k, s>> \in open /\ open \ open' = {<<k, s>>}
                    /\ report' = Grade(InputOf(world, open \ {<<k, s>>}))
    BY <1>1, Answered
  <2>2. <<k, s>> = <<"called pass", "all">>
    BY <2>1
  <2>3. Open(open, "called pass", "all") /\ report' = Grade(InputOf(world, open \ {<<"called pass", "all">>}))
    BY <2>1, <2>2 DEF Open
  <2>4. KnownWorld(world) /\ report = Grade(InputOf(world, open))
    BY <1>1 DEF KnowledgeInv
  <2> QED
    BY <2>3, <2>4, PassKeepsReport
<1>2. KnowledgeInv /\ [KnowledgeNext]_knowledgeVars => [Kept]_knowledgeVars
  BY <1>1
<1> QED
  BY <1>2, KnowledgeInvariance, PTL DEF KnowledgeSpec, SkippedPassIsHarmless

(* An archived flag of a dependency that was not read costs one band at    *)
(* most, with the list of unread flags or without it.                      *)
THEOREM UnreadCostsOneBandHolds == KnowledgeSpec => UnreadCostsOneBand
<1> DEFINE Kept == \A m \in world.deps :
              /\ open \ open' = {<<"archived flag", m>>}
              /\ report.letter # NoLetter
              => report'.letter \in {report.letter, report.letter + 1}
<1>1. ASSUME KnowledgeInv, KnowledgeNext
      PROVE  Kept
  <2> SUFFICES ASSUME NEW m \in world.deps, open \ open' = {<<"archived flag", m>>},
                      report.letter # NoLetter
               PROVE  report'.letter \in {report.letter, report.letter + 1}
    OBVIOUS
  <2>1. PICK k, s : /\ <<k, s>> \in open /\ open \ open' = {<<k, s>>}
                    /\ report' = Grade(InputOf(world, open \ {<<k, s>>}))
    BY <1>1, Answered
  <2>2. <<k, s>> = <<"archived flag", m>>
    BY <2>1
  <2>3. report' = Grade(InputOf(world, open \ {<<"archived flag", m>>}))
    BY <2>1, <2>2
  <2>4. KnownWorld(world) /\ report = Grade(InputOf(world, open))
    BY <1>1 DEF KnowledgeInv
  <2>5. Grade(InputOf(world, open \ {<<"archived flag", m>>})).letter \in {report.letter, report.letter + 1}
    <3> DEFINE l == report.letter
    <3>1. l = Grade(InputOf(world, open)).letter /\ l # NoLetter
      BY <2>4
    <3> HIDE DEF l
    <3>2. Grade(InputOf(world, open \ {<<"archived flag", m>>})).letter \in {l, l + 1}
      BY <2>4, <3>1, FlagMovesLetter
    <3> QED
      BY <3>2 DEF l
  <2> QED
    BY <2>3, <2>5
<1>2. KnowledgeInv /\ [KnowledgeNext]_knowledgeVars => [Kept]_knowledgeVars
  BY <1>1
<1> QED
  BY <1>2, KnowledgeInvariance, PTL DEF KnowledgeSpec, UnreadCostsOneBand
=============================================================================
