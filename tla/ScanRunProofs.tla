---------------------------- MODULE ScanRunProofs ----------------------------
(***************************************************************************)
(* Proofs about ScanRun: what a run claims is true wherever its context    *)
(* ended and wherever it panicked.  Then, about the parser of the stream   *)
(* that a run's scan reads (GovulncheckStream): the order of its findings  *)
(* is forgotten.                                                           *)
(***************************************************************************)
EXTENDS ScanRun, GovulncheckStream, FiniteSetTheorems, WellFoundedInduction, TLAPS

Late == {"status", "advisories", "grade"}
Settled == {"report", "policy", "code", "exit"}
Scanned == {"scan", "pass", "passed", "enrich", "decide", "end",
            "maintenance", "extras", "interrupt"} \cup Late

(* What a later stage has not touched yet.                                 *)
NotYet ==
  /\ pc \notin Settled => status = "none"
  /\ pc \in {"start", "resolve", "probe", "probed", "verify"} => verify = "none"
  /\ pc \in Analysing \ {"pass", "passed", "enrich", "decide", "end"} => ~needed
  /\ pc \in Analysing \ {"enrich", "decide", "end"} => err = "none"

(* The analysis's word on the scan: without a failure it ran to its end,   *)
(* and only offline mode skips it.                                         *)
ScanSaid ==
  /\ pc \in {"end"} \cup Grading /\ err = "none" => scanned
  /\ err = "offline" => conf.offline
  /\ needed => level = "symbol"

(* Whatever the context cut, it had ended.                                 *)
CutMeansEnded ==
  /\ cut # {} => Ended
  /\ cause = "cut" => Ended
  /\ probe = "cut" => Ended
  /\ pc = "probed" => probe # "none"
  /\ err = "transient" => cause = "network"
  /\ err = "scan_deadline" => ctx = "deadline"

(* A mismatch is reported, or the context ended.                           *)
MismatchKnown ==
  /\ verify = "mismatch" => ~conf.offline
  /\ pc \in Scanned /\ verify = "mismatch" => checksum = "false" \/ Ended

(* From the moment Interrupted is read, a run with dependencies that is not*)
(* interrupted has lost nothing to the context but what assessSelf asks.   *)
NothingLostBefore ==
  /\ pc \in Late /\ conf.deps /\ ~interrupted =>
       /\ cut \subseteq {"severity", "catalog", "status", "advisories"}
       /\ verify = "mismatch" => checksum = "false"
  /\ "advisories" \in cut => "advisories" \in failed

(* The status is that of the grade, and code 0 waits for the policy.       *)
StatusStands ==
  /\ pc \in {"report", "policy", "code"} =>
       status = StatusOf(interrupted, err, pending)
  /\ pc = "code" /\ policy = "max_grade" => pending = "none"

IInv == /\ TypeOK /\ NotYet /\ ScanSaid /\ CutMeansEnded /\ MismatchKnown
        /\ NothingLostBefore /\ StatusStands
        /\ CompleteMeansWhole /\ NothingBlamedForTheCut /\ ExitTellsTheTruth

(* A run begins without claims.                                            *)
LEMMA InitIInv == Init => IInv
<1> SUFFICES ASSUME Init PROVE IInv
  OBVIOUS
<1>1. TypeOK
  <2>1. /\ conf \in Confs /\ ctx \in Contexts /\ pc \in PCs
        /\ probe \in Probed /\ verify \in Verified /\ checksum \in Checksums
    BY DEF Init, Contexts, PCs, Analysing, Probed, Verified, Checksums
  <2>2. /\ level \in Levels /\ cause \in Causes /\ err \in Errors
        /\ pending \in PendingChecks /\ status \in Statuses
        /\ policy \in Policies
    BY DEF Init, Levels, Causes, Errors, PendingChecks, Statuses, Policies
  <2>3. exit \in 0..5 /\ (pc = "exit" <=> exit # 5)
    BY DEF Init
  <2>4. /\ failed \subseteq Graded /\ cut \subseteq Stages
        /\ needed \in BOOLEAN /\ scanned \in BOOLEAN
        /\ stopped \in BOOLEAN /\ interrupted \in BOOLEAN
    BY DEF Init
  <2> QED
    BY <2>1, <2>2, <2>3, <2>4 DEF TypeOK
<1>2. NotYet /\ ScanSaid /\ MismatchKnown /\ StatusStands
  BY DEF Init, NotYet, ScanSaid, MismatchKnown, StatusStands, Grading
<1>3. CutMeansEnded /\ NothingLostBefore
  BY DEF Init, CutMeansEnded, NothingLostBefore, Late
<1>4. CompleteMeansWhole /\ NothingBlamedForTheCut /\ ExitTellsTheTruth
  BY DEF Init, CompleteMeansWhole, NothingBlamedForTheCut, ExitTellsTheTruth
<1> QED
  BY <1>1, <1>2, <1>3, <1>4 DEF IInv

(* Every stage keeps the types.                                            *)
LEMMA TypeStep ==
  ASSUME TypeOK, [Next]_vars
  PROVE  TypeOK'
<1> USE DEF TypeOK, analysis, lookups, outcome
<1>1. ASSUME NEW why \in {"deadline", "canceled"}, Cancel(why)
      PROVE  TypeOK'
  BY <1>1 DEF Cancel, Contexts
<1>2. CASE Panics
  BY <1>2 DEF Panics, Exit, PCs
<1>3. CASE Start
  BY <1>3 DEF Start, Goto, Exit, PCs, Analysing, Grading
<1>4. CASE Resolve
  BY <1>4 DEF Resolve, Asks, Unanswered, ProbesToken, Scans, Goto, PCs,
     Analysing, Grading, Graded, Stages
<1>5. CASE ProbeAnswers
  BY <1>5 DEF ProbeAnswers, Goto, PCs, Analysing, Grading, Probed
<1>6. CASE ProbeDecides
  BY <1>6 DEF ProbeDecides, Scans, Goto, Exit, PCs, Analysing, Grading, Probed
<1>7. CASE Verify
  BY <1>7 DEF Verify, Unanswered, Goto, PCs, Analysing, Grading, Verified,
     Graded, Stages
<1>8. CASE VerifyDecides
  BY <1>8 DEF VerifyDecides, Checksum, Goto, PCs, Analysing, Grading,
     Checksums
<1>9. CASE StartScan
  BY <1>9 DEF StartScan, Goto, PCs, Analysing, Grading, Errors, ScanErrors,
     Levels
<1>10. CASE Govulncheck
  BY <1>10 DEF Govulncheck, Unanswered, Goto, PCs, Analysing, Grading,
     Causes, Graded, Stages
<1>11. CASE Parse
  BY <1>11 DEF Parse, Classify, Goto, PCs, Analysing, Grading, Errors,
     ScanErrors
<1>12. CASE Enrich
  BY <1>12 DEF Enrich, Goto, PCs, Analysing, Grading, Graded, Stages
<1>13. CASE Decide
  BY <1>13 DEF Decide, Goto, PCs, Analysing, Grading, Levels
<1>14. CASE EndAnalysis
  BY <1>14 DEF EndAnalysis, Goto, PCs, Analysing, Grading
<1>15. CASE Maintenance
  BY <1>15 DEF Maintenance, Asks, Unanswered, Goto, PCs, Analysing, Grading,
     Graded, Stages
<1>16. CASE Extras
  BY <1>16 DEF Extras, Asks, Unanswered, Goto, PCs, Analysing, Grading,
     Graded, Stages
<1>17. CASE ReadInterrupted
  BY <1>17 DEF ReadInterrupted, WasInterrupted, Goto, PCs, Analysing,
     Grading, Ended
<1>18. CASE SelfStatus
  BY <1>18 DEF SelfStatus, Asks, Unanswered, Goto, PCs, Analysing, Grading,
     Graded, Stages
<1>19. CASE SelfAdvisories
  BY <1>19 DEF SelfAdvisories, Asks, Unanswered, Goto, PCs, Analysing,
     Grading, Graded, Stages
<1>20. CASE Grade
  BY <1>20 DEF Grade, PendingOn, MayMatter, MayMatterLast, StatusOf, Goto,
     PCs, Analysing, Grading, PendingChecks, Statuses
<1>21. CASE Report
  BY <1>21 DEF Report, Goto, Exit, PCs, Analysing, Grading
<1>22. CASE Policy
  BY <1>22 DEF Policy, Goto, Exit, PCs, Analysing, Grading
<1>23. CASE ExitCode
  BY <1>23 DEF ExitCode, Exit, PCs, Analysing, Grading
<1>24. CASE UNCHANGED vars
  BY <1>24 DEF vars
<1> QED
  BY <1>1, <1>2, <1>3, <1>4, <1>5, <1>6, <1>7, <1>8, <1>9, <1>10, <1>11,
     <1>12, <1>13, <1>14, <1>15, <1>16, <1>17, <1>18, <1>19, <1>20, <1>21,
     <1>22, <1>23, <1>24 DEF Next

(* No stage touches what a later one is for.                               *)
LEMMA NotYetStep ==
  ASSUME NotYet, [Next]_vars
  PROVE  NotYet'
<1> USE DEF NotYet, Ended, analysis, lookups, outcome, Analysing, Grading,
     Late, Settled, Scanned
<1>1. ASSUME NEW why \in {"deadline", "canceled"}, Cancel(why)
      PROVE  NotYet'
  BY <1>1 DEF Cancel
<1>2. CASE Verify
  BY <1>2 DEF Verify, Unanswered, Goto
<1>3. CASE StartScan
  BY <1>3 DEF StartScan, Goto
<1>4. CASE Parse
  BY <1>4 DEF Parse, Classify, Goto
<1>5. CASE Decide
  BY <1>5 DEF Decide, Goto
<1>6. CASE Grade
  BY <1>6 DEF Grade, PendingOn, MayMatter, MayMatterLast, StatusOf, Goto
<1>7. CASE Panics \/ Start \/ Resolve \/ ProbeAnswers \/ ProbeDecides \/
     VerifyDecides \/ Govulncheck \/ Enrich \/ EndAnalysis \/ Maintenance \/
     Extras \/ ReadInterrupted \/ SelfStatus \/ SelfAdvisories \/ Report \/
     Policy \/ ExitCode
  BY <1>7 DEF Panics, Start, Resolve, ProbeAnswers, ProbeDecides,
     VerifyDecides, Govulncheck, Enrich, EndAnalysis, Maintenance, Extras,
     ReadInterrupted, SelfStatus, SelfAdvisories, Report, Policy, ExitCode,
     Asks, Checksum, Exit, Goto, ProbesToken, Scans, Unanswered
<1>8. CASE UNCHANGED vars
  BY <1>8 DEF vars
<1> QED
  BY <1>1, <1>2, <1>3, <1>4, <1>5, <1>6, <1>7, <1>8 DEF Next

(* The scan's failure and its result agree.                                *)
LEMMA ScanSaidStep ==
  ASSUME ScanSaid, NotYet, [Next]_vars
  PROVE  ScanSaid'
<1> USE DEF ScanSaid, NotYet, Ended, analysis, lookups, outcome, Analysing,
     Grading, Late, Settled, Scanned
<1>1. ASSUME NEW why \in {"deadline", "canceled"}, Cancel(why)
      PROVE  ScanSaid'
  BY <1>1 DEF Cancel
<1>2. CASE Panics
  BY <1>2 DEF Panics, Exit
<1>3. CASE ProbeDecides
  BY <1>3 DEF ProbeDecides, Scans, Goto, Exit
<1>4. CASE Verify
  BY <1>4 DEF Verify, Unanswered, Goto
<1>5. CASE StartScan
  BY <1>5 DEF StartScan, Goto
<1>6. CASE Parse
  BY <1>6 DEF Parse, Classify, Goto
<1>7. CASE Enrich
  BY <1>7 DEF Enrich, Goto
<1>8. CASE Decide
  <2>1. CASE err # "none"
    BY <1>8, <2>1 DEF Decide, Goto
  <2>2. CASE err = "none" /\ scanned'
    <3>1. \/ needed' = FALSE /\ UNCHANGED level
          \/ UNCHANGED <<level, needed>>
      BY <1>8, <2>2 DEF Decide, Goto
    <3> QED
      BY <1>8, <2>2, <3>1 DEF Decide
  <2>3. CASE err = "none" /\ ~scanned'
    <3>1. pc' = "pass" /\ level' = "symbol" /\ UNCHANGED <<conf, err>>
      BY <1>8, <2>3 DEF Decide, Goto
    <3> QED
      BY <2>3, <3>1
  <2> QED
    BY <2>1, <2>2, <2>3
<1>9. CASE EndAnalysis
  BY <1>9 DEF EndAnalysis, Goto
<1>10. CASE Maintenance
  BY <1>10 DEF Maintenance, Asks, Unanswered, Goto
<1>11. CASE Extras
  BY <1>11 DEF Extras, Asks, Unanswered, Goto
<1>12. CASE ReadInterrupted
  BY <1>12 DEF ReadInterrupted, WasInterrupted, Goto
<1>13. CASE SelfStatus
  BY <1>13 DEF SelfStatus, Asks, Unanswered, Goto
<1>14. CASE SelfAdvisories
  BY <1>14 DEF SelfAdvisories, Asks, Unanswered, Goto
<1>15. CASE Grade
  BY <1>15 DEF Grade, PendingOn, MayMatter, MayMatterLast, StatusOf, Goto
<1>16. CASE Report
  BY <1>16 DEF Report, Goto, Exit
<1>17. CASE Policy
  BY <1>17 DEF Policy, Goto, Exit
<1>18. CASE ExitCode
  BY <1>18 DEF ExitCode, Exit
<1>19. CASE Start \/ Resolve \/ ProbeAnswers \/ VerifyDecides \/ Govulncheck
  BY <1>19 DEF Start, Resolve, ProbeAnswers, VerifyDecides, Govulncheck,
     Asks, Checksum, Exit, Goto, ProbesToken, Scans, Unanswered
<1>20. CASE UNCHANGED vars
  BY <1>20 DEF vars
<1> QED
  BY <1>1, <1>2, <1>3, <1>4, <1>5, <1>6, <1>7, <1>8, <1>9, <1>10, <1>11,
     <1>12, <1>13, <1>14, <1>15, <1>16, <1>17, <1>18, <1>19, <1>20 DEF Next

(* Nothing but an ended context cuts a stage.                              *)
LEMMA CutStep ==
  ASSUME CutMeansEnded, NotYet, [Next]_vars
  PROVE  CutMeansEnded'
<1> USE DEF CutMeansEnded, NotYet, Ended, analysis, lookups, outcome,
     Analysing, Grading, Late, Settled, Scanned
<1>1. ASSUME NEW why \in {"deadline", "canceled"}, Cancel(why)
      PROVE  CutMeansEnded'
  BY <1>1 DEF Cancel
<1>2. CASE Resolve
  BY <1>2 DEF Resolve, Asks, Unanswered, ProbesToken, Scans, Goto
<1>3. CASE ProbeAnswers
  BY <1>3 DEF ProbeAnswers, Goto
<1>4. CASE ProbeDecides
  BY <1>4 DEF ProbeDecides, Scans, Goto, Exit
<1>5. CASE Verify
  BY <1>5 DEF Verify, Unanswered, Goto
<1>6. CASE StartScan
  BY <1>6 DEF StartScan, Goto
<1>7. CASE Govulncheck
  BY <1>7 DEF Govulncheck, Unanswered, Goto
<1>8. CASE Parse
  BY <1>8 DEF Parse, Classify, Goto
<1>9. CASE Enrich
  BY <1>9 DEF Enrich, Goto
<1>10. CASE Maintenance
  BY <1>10 DEF Maintenance, Asks, Unanswered, Goto
<1>11. CASE Extras
  BY <1>11 DEF Extras, Asks, Unanswered, Goto
<1>12. CASE SelfStatus
  BY <1>12 DEF SelfStatus, Asks, Unanswered, Goto
<1>13. CASE SelfAdvisories
  BY <1>13 DEF SelfAdvisories, Asks, Unanswered, Goto
<1>14. CASE Panics \/ Start \/ VerifyDecides \/ Decide \/ EndAnalysis \/
     ReadInterrupted \/ Grade \/ Report \/ Policy \/ ExitCode
  BY <1>14 DEF Panics, Start, VerifyDecides, Decide, EndAnalysis,
     ReadInterrupted, Grade, Report, Policy, ExitCode, Checksum, Exit, Goto,
     MayMatter, MayMatterLast, PendingOn, StatusOf
<1>15. CASE UNCHANGED vars
  BY <1>15 DEF vars
<1> QED
  BY <1>1, <1>2, <1>3, <1>4, <1>5, <1>6, <1>7, <1>8, <1>9, <1>10, <1>11,
     <1>12, <1>13, <1>14, <1>15 DEF Next

(* A mismatch is lost to an ended context only.                            *)
LEMMA MismatchStep ==
  ASSUME MismatchKnown, NotYet, [Next]_vars
  PROVE  MismatchKnown'
<1> USE DEF MismatchKnown, NotYet, Ended, analysis, lookups, outcome,
     Analysing, Grading, Late, Settled, Scanned
<1>1. ASSUME NEW why \in {"deadline", "canceled"}, Cancel(why)
      PROVE  MismatchKnown'
  BY <1>1 DEF Cancel
<1>2. CASE Verify
  BY <1>2 DEF Verify, Unanswered, Goto
<1>3. CASE VerifyDecides
  BY <1>3 DEF VerifyDecides, Checksum, Goto
<1>4. CASE Panics \/ Start \/ Resolve \/ ProbeAnswers \/ ProbeDecides \/
     StartScan \/ Govulncheck \/ Parse \/ Enrich \/ Decide \/ EndAnalysis \/
     Maintenance \/ Extras \/ ReadInterrupted \/ SelfStatus \/ SelfAdvisories
     \/ Grade \/ Report \/ Policy \/ ExitCode
  BY <1>4 DEF Panics, Start, Resolve, ProbeAnswers, ProbeDecides, StartScan,
     Govulncheck, Parse, Enrich, Decide, EndAnalysis, Maintenance, Extras,
     ReadInterrupted, SelfStatus, SelfAdvisories, Grade, Report, Policy,
     ExitCode, Asks, Classify, Exit, Goto, MayMatter, MayMatterLast,
     PendingOn, ProbesToken, Scans, StatusOf, Unanswered
<1>5. CASE UNCHANGED vars
  BY <1>5 DEF vars
<1> QED
  BY <1>1, <1>2, <1>3, <1>4, <1>5 DEF Next

(* What was lost before Interrupted was read made it true.                 *)
LEMMA NothingLostStep ==
  ASSUME NothingLostBefore, CutMeansEnded, MismatchKnown, [Next]_vars
  PROVE  NothingLostBefore'
<1> USE DEF NothingLostBefore, CutMeansEnded, MismatchKnown, Ended, analysis,
     lookups, outcome, Analysing, Grading, Late, Settled, Scanned
<1>1. ASSUME NEW why \in {"deadline", "canceled"}, Cancel(why)
      PROVE  NothingLostBefore'
  BY <1>1 DEF Cancel
<1>2. CASE Resolve
  BY <1>2 DEF Resolve, Asks, Unanswered, ProbesToken, Scans, Goto
<1>3. CASE Verify
  BY <1>3 DEF Verify, Unanswered, Goto
<1>4. CASE VerifyDecides
  BY <1>4 DEF VerifyDecides, Checksum, Goto
<1>5. CASE Govulncheck
  BY <1>5 DEF Govulncheck, Unanswered, Goto
<1>6. CASE Enrich
  BY <1>6 DEF Enrich, Goto
<1>7. CASE EndAnalysis
  BY <1>7 DEF EndAnalysis, Goto
<1>8. CASE Maintenance
  BY <1>8 DEF Maintenance, Asks, Unanswered, Goto
<1>9. CASE Extras
  BY <1>9 DEF Extras, Asks, Unanswered, Goto
<1>10. CASE ReadInterrupted
  BY <1>10 DEF ReadInterrupted, WasInterrupted, Goto
<1>11. CASE SelfStatus
  BY <1>11 DEF SelfStatus, Asks, Unanswered, Goto
<1>12. CASE SelfAdvisories
  <2>1. CASE Asks("advisories")
    BY <1>12, <2>1 DEF SelfAdvisories, Asks, Unanswered, Goto, Graded
  <2>2. ASSUME NEW lost \in SUBSET {"severity", "catalog"}, Unanswered(lost)
        PROVE  NothingLostBefore'
    BY <1>12, <2>2 DEF SelfAdvisories, Unanswered, Goto
  <2> QED
    BY <1>12, <2>1, <2>2 DEF SelfAdvisories
<1>13. CASE Panics \/ Start \/ ProbeAnswers \/ ProbeDecides \/ StartScan \/
     Parse \/ Decide \/ Grade \/ Report \/ Policy \/ ExitCode
  BY <1>13 DEF Panics, Start, ProbeAnswers, ProbeDecides, StartScan, Parse,
     Decide, Grade, Report, Policy, ExitCode, Classify, Exit, Goto,
     MayMatter, MayMatterLast, PendingOn, Scans, StatusOf
<1>14. CASE UNCHANGED vars
  BY <1>14 DEF vars
<1> QED
  BY <1>1, <1>2, <1>3, <1>4, <1>5, <1>6, <1>7, <1>8, <1>9, <1>10, <1>11,
     <1>12, <1>13, <1>14 DEF Next

(* Nothing changes the grade or the status once they are made.             *)
LEMMA StatusStep ==
  ASSUME StatusStands, [Next]_vars
  PROVE  StatusStands'
<1> USE DEF StatusStands, StatusOf, Ended, analysis, lookups, outcome,
     Analysing, Grading, Late, Settled, Scanned
<1>1. ASSUME NEW why \in {"deadline", "canceled"}, Cancel(why)
      PROVE  StatusStands'
  BY <1>1 DEF Cancel
<1>2. CASE Panics
  BY <1>2 DEF Panics, Exit
<1>3. CASE StartScan
  BY <1>3 DEF StartScan, Goto
<1>4. CASE Parse
  BY <1>4 DEF Parse, Classify, Goto
<1>5. CASE Grade
  BY <1>5 DEF Grade, PendingOn, MayMatter, MayMatterLast, StatusOf, Goto
<1>6. CASE Report
  BY <1>6 DEF Report, Goto, Exit
<1>7. CASE Policy
  BY <1>7 DEF Policy, Goto, Exit
<1>8. CASE ExitCode
  BY <1>8 DEF ExitCode, Exit
<1>9. CASE Start \/ Resolve \/ ProbeAnswers \/ ProbeDecides \/ Verify \/
     VerifyDecides \/ Govulncheck \/ Enrich \/ Decide \/ EndAnalysis \/
     Maintenance \/ Extras \/ ReadInterrupted \/ SelfStatus \/ SelfAdvisories
  BY <1>9 DEF Start, Resolve, ProbeAnswers, ProbeDecides, Verify,
     VerifyDecides, Govulncheck, Enrich, Decide, EndAnalysis, Maintenance,
     Extras, ReadInterrupted, SelfStatus, SelfAdvisories, Asks, Checksum,
     Exit, Goto, ProbesToken, Scans, Unanswered
<1>10. CASE UNCHANGED vars
  BY <1>10 DEF vars
<1> QED
  BY <1>1, <1>2, <1>3, <1>4, <1>5, <1>6, <1>7, <1>8, <1>9, <1>10 DEF Next

(* Complete is whole when it is said, and stays so.                        *)
LEMMA WholeStep ==
  ASSUME CompleteMeansWhole, TypeOK, NotYet, ScanSaid, NothingLostBefore,
     [Next]_vars
  PROVE  CompleteMeansWhole'
<1> USE DEF CompleteMeansWhole, TypeOK, NotYet, ScanSaid, NothingLostBefore,
     Errors, Graded, Ended, analysis, lookups, outcome, Analysing, Grading,
     Late, Settled, Scanned
<1>1. ASSUME NEW why \in {"deadline", "canceled"}, Cancel(why)
      PROVE  CompleteMeansWhole'
  BY <1>1 DEF Cancel
<1>2. CASE Grade
  BY <1>2 DEF Grade, PendingOn, MayMatter, MayMatterLast, StatusOf, Goto
<1>3. CASE Report
  BY <1>3 DEF Report, Goto, Exit
<1>4. CASE Policy
  BY <1>4 DEF Policy, Goto, Exit
<1>5. CASE ExitCode
  BY <1>5 DEF ExitCode, Exit
<1>6. CASE Panics \/ Start \/ Resolve \/ ProbeAnswers \/ ProbeDecides \/
     Verify \/ VerifyDecides \/ StartScan \/ Govulncheck \/ Parse \/ Enrich
     \/ Decide \/ EndAnalysis \/ Maintenance \/ Extras \/ ReadInterrupted \/
     SelfStatus \/ SelfAdvisories
  BY <1>6 DEF Panics, Start, Resolve, ProbeAnswers, ProbeDecides, Verify,
     VerifyDecides, StartScan, Govulncheck, Parse, Enrich, Decide,
     EndAnalysis, Maintenance, Extras, ReadInterrupted, SelfStatus,
     SelfAdvisories, Asks, Checksum, Classify, Exit, Goto, ProbesToken,
     Scans, Unanswered
<1>7. CASE UNCHANGED vars
  BY <1>7 DEF vars
<1> QED
  BY <1>1, <1>2, <1>3, <1>4, <1>5, <1>6, <1>7 DEF Next

(* The token and the network are blamed before the context has ended.      *)
LEMMA BlameStep ==
  ASSUME NothingBlamedForTheCut, TypeOK, CutMeansEnded, NotYet, [Next]_vars
  PROVE  NothingBlamedForTheCut'
<1> USE DEF NothingBlamedForTheCut, TypeOK, Probed, CutMeansEnded, NotYet,
     Ended, analysis, lookups, outcome, Analysing, Grading, Late, Settled,
     Scanned
<1>1. ASSUME NEW why \in {"deadline", "canceled"}, Cancel(why)
      PROVE  NothingBlamedForTheCut'
  BY <1>1 DEF Cancel
<1>2. CASE Start
  BY <1>2 DEF Start, Goto, Exit
<1>3. CASE ProbeAnswers
  BY <1>3 DEF ProbeAnswers, Goto
<1>4. CASE ProbeDecides
  BY <1>4 DEF ProbeDecides, Scans, Goto, Exit
<1>5. CASE StartScan
  BY <1>5 DEF StartScan, Goto
<1>6. CASE Govulncheck
  BY <1>6 DEF Govulncheck, Unanswered, Goto
<1>7. CASE Parse
  BY <1>7 DEF Parse, Classify, Goto
<1>8. CASE ExitCode
  BY <1>8 DEF ExitCode, Exit
<1>9. CASE Panics \/ Resolve \/ Verify \/ VerifyDecides \/ Enrich \/ Decide
     \/ EndAnalysis \/ Maintenance \/ Extras \/ ReadInterrupted \/ SelfStatus
     \/ SelfAdvisories \/ Grade \/ Report \/ Policy
  BY <1>9 DEF Panics, Resolve, Verify, VerifyDecides, Enrich, Decide,
     EndAnalysis, Maintenance, Extras, ReadInterrupted, SelfStatus,
     SelfAdvisories, Grade, Report, Policy, Asks, Checksum, Exit, Goto,
     MayMatter, MayMatterLast, PendingOn, ProbesToken, Scans, StatusOf,
     Unanswered
<1>10. CASE UNCHANGED vars
  BY <1>10 DEF vars
<1> QED
  BY <1>1, <1>2, <1>3, <1>4, <1>5, <1>6, <1>7, <1>8, <1>9, <1>10 DEF Next

(* Only the exit code's own step exits with 0.                             *)
LEMMA ExitStep ==
  ASSUME ExitTellsTheTruth, TypeOK, StatusStands, [Next]_vars
  PROVE  ExitTellsTheTruth'
<1> USE DEF ExitTellsTheTruth, TypeOK, Errors, ScanErrors, StatusStands,
     StatusOf, Ended, analysis, lookups, outcome, Analysing, Grading, Late,
     Settled, Scanned
<1>1. ASSUME NEW why \in {"deadline", "canceled"}, Cancel(why)
      PROVE  ExitTellsTheTruth'
  BY <1>1 DEF Cancel
<1>2. CASE Panics
  BY <1>2 DEF Panics, Exit
<1>3. CASE Start
  BY <1>3 DEF Start, Goto, Exit
<1>4. CASE ProbeDecides
  BY <1>4 DEF ProbeDecides, Scans, Goto, Exit
<1>5. CASE StartScan
  BY <1>5 DEF StartScan, Goto
<1>6. CASE Parse
  BY <1>6 DEF Parse, Classify, Goto
<1>7. CASE ReadInterrupted
  BY <1>7 DEF ReadInterrupted, WasInterrupted, Goto
<1>8. CASE Grade
  BY <1>8 DEF Grade, PendingOn, MayMatter, MayMatterLast, StatusOf, Goto
<1>9. CASE Report
  BY <1>9 DEF Report, Goto, Exit
<1>10. CASE Policy
  BY <1>10 DEF Policy, Goto, Exit
<1>11. CASE ExitCode
  <2>1. CASE status \in {"failed", "interrupted"}
    BY <1>11, <2>1 DEF ExitCode, Exit
  <2>2. CASE status \notin {"failed", "interrupted"}
    <3>1. ~interrupted /\ err \notin ScanErrors
      BY <1>11, <2>2 DEF ExitCode
    <3> QED
      BY <1>11, <2>2, <3>1 DEF ExitCode
  <2> QED
    BY <2>1, <2>2
<1>12. CASE Resolve \/ ProbeAnswers \/ Verify \/ VerifyDecides \/ Govulncheck
     \/ Enrich \/ Decide \/ EndAnalysis \/ Maintenance \/ Extras \/
     SelfStatus \/ SelfAdvisories
  BY <1>12 DEF Resolve, ProbeAnswers, Verify, VerifyDecides, Govulncheck,
     Enrich, Decide, EndAnalysis, Maintenance, Extras, SelfStatus,
     SelfAdvisories, Asks, Checksum, Goto, ProbesToken, Scans, Unanswered
<1>13. CASE UNCHANGED vars
  BY <1>13 DEF vars
<1> QED
  BY <1>1, <1>2, <1>3, <1>4, <1>5, <1>6, <1>7, <1>8, <1>9, <1>10, <1>11,
     <1>12, <1>13 DEF Next

(* The inductive invariant holds in every behaviour.                       *)
LEMMA Invariance == Spec => []IInv
<1>1. IInv /\ [Next]_vars => IInv'
  BY TypeStep, NotYetStep, ScanSaidStep, CutStep, MismatchStep,
     NothingLostStep, StatusStep, WholeStep, BlameStep, ExitStep DEF IInv
<1> QED
  BY InitIInv, <1>1, PTL DEF Spec

(* The type invariant of a run.                                            *)
THEOREM Typed == Spec => []TypeOK
<1>1. IInv => TypeOK  BY DEF IInv
<1> QED  BY <1>1, Invariance, PTL

(* A run whose status is complete lost nothing that its result rests on,   *)
(* wherever its context ended.                                             *)
THEOREM CompleteIsWhole == Spec => []CompleteMeansWhole
<1>1. IInv => CompleteMeansWhole  BY DEF IInv
<1> QED  BY <1>1, Invariance, PTL

(* Neither the token nor the network is blamed for an ended context.       *)
THEOREM CutsAreNotBlamed == Spec => []NothingBlamedForTheCut
<1>1. IInv => NothingBlamedForTheCut  BY DEF IInv
<1> QED  BY <1>1, Invariance, PTL

(* Exit code 0 is given only to a run whose scan did not fail and was not  *)
(* interrupted, with a letter if the policy wants one.                     *)
THEOREM ExitIsTrue == Spec => []ExitTellsTheTruth
<1>1. IInv => ExitTellsTheTruth  BY DEF IInv
<1> QED  BY <1>1, Invariance, PTL

-----------------------------------------------------------------------------
(* The merging of govulncheck's findings.  First, the frames of a path.    *)

Frame == [name : Nat \X Nat, line : Nat]
Traces == {<<>>} \cup {f.trace : f \in StreamFindings}

Lower == {pair \in Nat \X Nat : pair[1] < pair[2]}

(* A set of numbers has a least one.                                       *)
LEMMA Least ==
  ASSUME NEW T \in SUBSET Nat, T # {}
  PROVE  \E x \in T : \A y \in T : x <= y
<1>1. IsWellFoundedOn(Lower, Nat)
  BY NatLessThanWellFounded DEF OpToRel, Lower
<1>2. PICK x \in T : \A y \in T : <<y, x>> \notin Lower
  BY <1>1, WFMin
<1>3. \A y \in T : y \in Nat /\ x \in Nat
  OBVIOUS
<1>4. \A y \in T : ~(y < x)
  BY <1>2, <1>3 DEF Lower
<1> QED
  BY <1>3, <1>4

(* Of some places each has its turn.                                       *)
LEMMA EachTurnIsOnes ==
  ASSUME NEW n \in Nat, NEW places \in SUBSET (1..n), NEW k \in 1..Cardinality(places)
  PROVE  \E i \in places : Cardinality({j \in places : j <= i}) = k
<1> DEFINE upTo(m) == {j \in places : j <= m}
<1>0. \A j \in places : j \in Nat /\ 1 <= j /\ j <= n
  OBVIOUS
<1> DEFINE T == {m \in Nat : Cardinality(upTo(m)) >= k}
<1>1. IsFiniteSet(places) /\ \A m \in Nat : IsFiniteSet(upTo(m))
  <2>1. IsFiniteSet(1..n)
    BY FS_Interval
  <2>2. \A m \in Nat : upTo(m) \in SUBSET places
    OBVIOUS
  <2> HIDE DEF upTo
  <2> QED
    BY <2>1, <2>2, FS_Subset
<1>2. Cardinality(places) \in Nat /\ \A m \in Nat : Cardinality(upTo(m)) \in Nat
  BY <1>1, FS_CardinalityType
<1>3. T # {}
  <2>1. upTo(n) = places
    BY <1>0
  <2> HIDE DEF upTo
  <2> QED
    BY <1>2, <2>1
<1>4. PICK m \in T : \A l \in T : m <= l
  <2>1. T \in SUBSET Nat
    OBVIOUS
  <2> HIDE DEF T
  <2> QED
    BY <1>3, <2>1, Least
<1>5. m # 0
  <2>1. upTo(0) = {}
    <3>1. \A j \in places : ~(j <= 0)
      BY <1>0
    <3> QED
      BY <3>1
  <2> HIDE DEF upTo
  <2> QED
    BY <2>1, FS_EmptySet
<1>6. m - 1 \in Nat /\ Cardinality(upTo(m - 1)) < k
  <2>1. m \in Nat /\ m - 1 \in Nat /\ ~(m <= m - 1)
    BY <1>5
  <2>2. m - 1 \notin T
    BY <1>4, <2>1
  <2> HIDE DEF upTo
  <2> QED
    BY <1>2, <2>1, <2>2
<1>7. CASE m \notin places
  <2>1. upTo(m) = upTo(m - 1)
    <3>1. \A j \in places : j <= m <=> j <= m - 1
      BY <1>0, <1>6, <1>7
    <3> QED
      BY <3>1
  <2> HIDE DEF upTo
  <2> QED
    BY <1>2, <1>4, <1>6, <2>1
<1>8. CASE m \in places
  <2>1. upTo(m) = upTo(m - 1) \cup {m} /\ m \notin upTo(m - 1)
    <3>1. \A j \in places : j <= m <=> j = m \/ j <= m - 1
      BY <1>0, <1>6
    <3>2. ~(m <= m - 1)
      BY <1>6
    <3> QED
      BY <1>8, <3>1, <3>2
  <2> HIDE DEF upTo
  <2>2. Cardinality(upTo(m)) = Cardinality(upTo(m - 1)) + 1
    BY <1>1, <1>6, <2>1, FS_AddElement
  <2>3. Cardinality(upTo(m)) = k
    BY <1>2, <1>4, <1>6, <2>2
  <2> QED
    BY <1>8, <2>3 DEF upTo
<1> QED
  BY <1>7, <1>8

(* What is picked from a list is a list of as many as the places.          *)
LEMMA PickedIsAList ==
  ASSUME NEW S, NEW seq \in Seq(S), NEW places \in SUBSET (1..Len(seq))
  PROVE  /\ PickedFrom(seq, places) \in Seq(S)
         /\ Len(PickedFrom(seq, places)) = Cardinality(places)
         /\ Cardinality(places) \in Nat /\ (Cardinality(places) = 0 => places = {})
<1>1. Len(seq) \in Nat /\ \A i \in 1..Len(seq) : seq[i] \in S
  OBVIOUS
<1>2. IsFiniteSet(places) /\ Cardinality(places) \in Nat
  <2>1. IsFiniteSet(1..Len(seq))
    BY <1>1, FS_Interval
  <2>2. IsFiniteSet(places)
    BY <2>1, FS_Subset
  <2> QED
    BY <2>2, FS_CardinalityType
<1>3. ASSUME NEW k \in 1..Cardinality(places)
      PROVE  seq[CHOOSE i \in places : Cardinality({j \in places : j <= i}) = k] \in S
  <2>1. (CHOOSE i \in places : Cardinality({j \in places : j <= i}) = k) \in places
    BY <1>1, EachTurnIsOnes
  <2> QED
    BY <1>1, <2>1
<1>4. PickedFrom(seq, places) \in [1..Cardinality(places) -> S]
  BY <1>3 DEF PickedFrom
<1>5. Cardinality(places) = 0 => places = {}
  BY <1>2, FS_EmptySet
<1> QED
  BY <1>2, <1>4, <1>5

(* The frames of a trace, outermost first.                                 *)
LEMMA FramesAreEntries ==
  ASSUME NEW trace \in Seq(TraceEntry)
  PROVE  /\ Outermost(trace) \in Seq(TraceEntry)
         /\ trace = <<>> => Outermost(trace) = <<>>
<1> DEFINE places == {i \in DOMAIN trace : trace[i].function # 0}
           picked == PickedFrom(trace, places)
<1>1. places \in SUBSET (1..Len(trace))
  OBVIOUS
<1> HIDE DEF places
<1>2. /\ picked \in Seq(TraceEntry) /\ Len(picked) = Cardinality(places)
      /\ Cardinality(places) \in Nat
  BY <1>1, PickedIsAList
<1> HIDE DEF picked
<1>3. Reverse(picked) \in Seq(TraceEntry) /\ Len(Reverse(picked)) = Len(picked)
  <2>1. Reverse(picked) = [i \in 1..Len(picked) |-> picked[(Len(picked) - i) + 1]]
    BY DEF Reverse
  <2>2. \A i \in 1..Len(picked) : (Len(picked) - i) + 1 \in 1..Len(picked)
    BY <1>2
  <2>3. Reverse(picked) \in [1..Len(picked) -> TraceEntry]
    BY <1>2, <2>1, <2>2
  <2> QED
    BY <1>2, <2>3
<1>4. Outermost(trace) = Reverse(picked)
  BY DEF Outermost, picked, places
<1>5. ASSUME trace = <<>> PROVE Reverse(picked) = <<>>
  <2>1. places = {}
    BY <1>5 DEF places
  <2>2. Len(picked) = 0
    BY <1>2, <2>1, FS_EmptySet
  <2> QED
    BY <1>3, <2>2
<1> QED
  BY <1>3, <1>4, <1>5

(* A path is a list of frames; without frames there is none, and without a *)
(* path no condition.                                                      *)
LEMMA PathsAreFrames ==
  ASSUME NEW trace \in Traces
  PROVE  /\ Condense(trace) \in Seq(Frame)
         /\ Condense(trace) = <<>> => CallCondition(trace) = NoCondition
         /\ trace = <<>> => Condense(trace) = <<>>
<1> DEFINE frames == Outermost(trace)
           last == Len(frames)
           places == {i \in 1..last :
                        i = 1 \/ i = last \/ frames[i + 1].package # frames[i].package}
           named == [i \in 1..last |-> CallFrame(frames[i])]
           path == PickedFrom(named, places)
<1>1. trace \in Seq(TraceEntry)
  <2>1. trace = <<>> \/ \E f \in StreamFindings : trace = f.trace
    BY DEF Traces
  <2>2. \A f \in StreamFindings : f.trace \in Seq(TraceEntry)
    BY TracesAssumption
  <2>3. <<>> \in Seq(TraceEntry)
    OBVIOUS
  <2> QED
    BY <2>1, <2>2, <2>3, Zenon
<1>2. frames \in Seq(TraceEntry) /\ last \in Nat /\ (trace = <<>> => frames = <<>>)
  BY <1>1, FramesAreEntries
<1>3. Condense(trace) = IF Len(path) <= MaxFrames THEN path
                        ELSE <<path[1], Elided>>
                               \o SubSeq(path, Len(path) - (MaxFrames - 3), Len(path))
  BY DEF Condense
<1>4. CallCondition(trace) = NoCondition \/ frames # <<>>
  BY DEF CallCondition
<1> HIDE DEF frames
<1>5. named \in Seq(Frame) /\ Len(named) = last
  <2>1. \A i \in 1..last : frames[i] \in TraceEntry
    BY <1>2
  <2>2. \A e \in TraceEntry : CallFrame(e) \in Frame
    BY DEF TraceEntry, CallFrame, FrameName, Frame
  <2>3. named \in [1..last -> Frame]
    BY <2>1, <2>2
  <2> HIDE DEF named
  <2> QED
    BY <1>2, <2>3
<1>6. places \in SUBSET (1..last) /\ (1 <= last => 1 \in places)
  BY <1>2
<1> HIDE DEF named, places
<1>7. /\ path \in Seq(Frame) /\ Len(path) = Cardinality(places) /\ Len(path) \in Nat
      /\ Len(path) = 0 => places = {}
  BY <1>5, <1>6, PickedIsAList
<1> HIDE DEF path
<1>8. path = <<>> <=> frames = <<>>
  <2>1. frames = <<>> => places = {}
    <3>1. frames = <<>> => last = 0
      BY <1>2
    <3> QED
      BY <1>6, <3>1
  <2>2. places = {} => Len(path) = 0
    BY <1>7, FS_EmptySet
  <2>3. Len(path) = 0 => last = 0
    BY <1>2, <1>6, <1>7
  <2> QED
    BY <1>2, <1>7, <2>1, <2>2, <2>3
<1>9. CASE Len(path) <= MaxFrames
  BY <1>2, <1>3, <1>4, <1>7, <1>8, <1>9
<1>10. CASE ~(Len(path) <= MaxFrames)
  <2>1. MaxFrames \in Nat /\ MaxFrames >= 3
    BY BoundsAssumption
  <2>2. path[1] \in Frame /\ path # <<>>
    BY <1>7, <1>10, <2>1
  <2>3. Elided \in Frame
    BY DEF Elided, Frame
  <2>4. PICK rest : rest = SubSeq(path, Len(path) - (MaxFrames - 3), Len(path))
    OBVIOUS
  <2>5. Len(path) - (MaxFrames - 3) \in 1..Len(path)
    BY <1>7, <1>10, <2>1
  <2>6. rest \in Seq(Frame)
    BY <1>7, <2>4, <2>5
  <2>7. PICK first : first = <<path[1], Elided>>
    OBVIOUS
  <2>8. first \in Seq(Frame) /\ Len(first) = 2
    BY <2>2, <2>3, <2>7
  <2>9. first \o rest \in Seq(Frame) /\ Len(first \o rest) > 0
    BY <2>6, <2>8
  <2>10. Condense(trace) = first \o rest
    BY <1>3, <1>10, <2>4, <2>7
  <2> QED
    BY <1>2, <1>8, <2>2, <2>9, <2>10
<1> QED
  BY <1>9, <1>10

-----------------------------------------------------------------------------
(* Lists of numbers of one length are in an order.                        *)

(* Of two different lists one is before the other.                         *)
LEMMA BeforeIsTotal ==
  ASSUME NEW n \in Nat, NEW x \in [1..n -> Int], NEW y \in [1..n -> Int]
  PROVE  x = y \/ Before(x, y) \/ Before(y, x)
<1> SUFFICES ASSUME x # y PROVE Before(x, y) \/ Before(y, x)
  OBVIOUS
<1> DEFINE T == {i \in 1..n : x[i] # y[i]}
<1>1. T # {} /\ T \in SUBSET Nat
  OBVIOUS
<1> HIDE DEF T
<1>2. PICK i \in T : \A j \in T : i <= j
  BY <1>1, Least
<1>3. i \in 1..n /\ x[i] # y[i] /\ \A j \in 1..(i - 1) : x[j] = y[j]
  BY <1>2 DEF T
<1>4. x[i] < y[i] \/ y[i] < x[i]
  BY <1>3
<1> QED
  BY <1>3, <1>4 DEF Before

(* A list before a second one that is before a third is before the third.  *)
LEMMA BeforeIsTransitive ==
  ASSUME NEW n \in Nat, NEW x \in [1..n -> Int], NEW y \in [1..n -> Int],
         NEW z \in [1..n -> Int], Before(x, y), Before(y, z)
  PROVE  Before(x, z)
<1>1. PICK i \in 1..n : x[i] < y[i] /\ \A j \in 1..(i - 1) : x[j] = y[j]
  BY DEF Before
<1>2. PICK k \in 1..n : y[k] < z[k] /\ \A j \in 1..(k - 1) : y[j] = z[j]
  BY DEF Before
<1>3. CASE i < k
  <2>1. x[i] < z[i] /\ \A j \in 1..(i - 1) : x[j] = z[j]
    BY <1>1, <1>2, <1>3
  <2> QED
    BY <2>1 DEF Before
<1>4. CASE i = k
  <2>1. x[i] < z[i] /\ \A j \in 1..(i - 1) : x[j] = z[j]
    BY <1>1, <1>2, <1>4
  <2> QED
    BY <2>1 DEF Before
<1>5. CASE k < i
  <2>1. x[k] < z[k] /\ \A j \in 1..(k - 1) : x[j] = z[j]
    BY <1>1, <1>2, <1>5
  <2> QED
    BY <2>1 DEF Before
<1> QED
  BY <1>3, <1>4, <1>5

(* No list is before itself.                                               *)
LEMMA BeforeIsStrict ==
  ASSUME NEW n \in Nat, NEW x \in [1..n -> Int]
  PROVE  ~Before(x, x)
BY DEF Before

-----------------------------------------------------------------------------
(* Paths are ordered by length, names and positions.                       *)

Prior(a, b) ==
  \/ Len(a) < Len(b)
  \/ /\ Len(a) = Len(b)
     /\ \/ Before(NamesOf(a), NamesOf(b))
        \/ NamesOf(a) = NamesOf(b) /\ Before(LinesOf(a), LinesOf(b))

(* The names and the positions of a path are lists of numbers.             *)
LEMMA PathsAreLists ==
  ASSUME NEW a \in Seq(Frame)
  PROVE  /\ Len(a) \in Nat /\ 2 * Len(a) \in Nat
         /\ NamesOf(a) \in [1..(2 * Len(a)) -> Int] /\ LinesOf(a) \in [1..Len(a) -> Int]
<1>1. \A i \in 1..Len(a) : /\ a[i].name[1] \in Int /\ a[i].name[2] \in Int
                           /\ a[i].line \in Int
  <2>1. \A p \in Nat \X Nat : p[1] \in Int /\ p[2] \in Int
    OBVIOUS
  <2>2. \A f \in Frame : f.name \in Nat \X Nat /\ f.line \in Nat
    BY DEF Frame
  <2>3. \A i \in 1..Len(a) : a[i] \in Frame
    OBVIOUS
  <2> QED
    BY <2>1, <2>2, <2>3
<1>2. \A i \in 1..(2 * Len(a)) : /\ (i + 1) \div 2 \in 1..Len(a)
                                 /\ 2 - (i % 2) \in {1, 2}
  <2>1. \A n \in Nat : \A i \in 1..(2 * n) : (i + 1) \div 2 \in 1..n /\ 2 - (i % 2) \in {1, 2}
    OBVIOUS
  <2> QED
    BY <2>1
<1>3. NamesOf(a) \in [1..(2 * Len(a)) -> Int]
  <2>1. \A i \in 1..(2 * Len(a)) : a[(i + 1) \div 2].name[2 - (i % 2)] \in Int
    BY <1>1, <1>2
  <2> QED
    BY <2>1 DEF NamesOf
<1>4. LinesOf(a) \in [1..Len(a) -> Int]
  BY <1>1 DEF LinesOf
<1> QED
  BY <1>3, <1>4

(* They tell a path.                                                       *)
LEMMA PathsAreTold ==
  ASSUME NEW a \in Seq(Frame), NEW b \in Seq(Frame), Len(a) = Len(b),
         NamesOf(a) = NamesOf(b), LinesOf(a) = LinesOf(b)
  PROVE  a = b
<1>1. ASSUME NEW i \in 1..Len(a) PROVE a[i] = b[i]
  <2>1. /\ 2 * i - 1 \in 1..(2 * Len(a)) /\ 2 * i \in 1..(2 * Len(a))
        /\ (2 * i - 1 + 1) \div 2 = i /\ (2 * i + 1) \div 2 = i
        /\ 2 - ((2 * i - 1) % 2) = 1 /\ 2 - ((2 * i) % 2) = 2
    OBVIOUS
  <2>2. \A c : Len(c) = Len(a) =>
          NamesOf(c)[2 * i - 1] = c[i].name[1] /\ NamesOf(c)[2 * i] = c[i].name[2]
    BY <2>1 DEF NamesOf
  <2>3. a[i].name[1] = b[i].name[1] /\ a[i].name[2] = b[i].name[2]
    BY <2>2
  <2>4. a[i].line = b[i].line
    <3>1. LinesOf(a)[i] = a[i].line /\ LinesOf(b)[i] = b[i].line
      BY DEF LinesOf
    <3> QED
      BY <3>1
  <2>5. a[i] \in Frame /\ b[i] \in Frame
    OBVIOUS
  <2>6. \A f, g \in Frame : f.name[1] = g.name[1] /\ f.name[2] = g.name[2] /\ f.line = g.line
                           => f = g
    <3>1. \A p, q \in Nat \X Nat : p[1] = q[1] /\ p[2] = q[2] => p = q
      OBVIOUS
    <3>2. \A f, g \in Frame : f.name = g.name /\ f.line = g.line => f = g
      <4>1. \A f \in Frame : f = [name |-> f.name, line |-> f.line]
        BY DEF Frame
      <4> QED
        BY <4>1
    <3>3. \A f \in Frame : f.name \in Nat \X Nat
      BY DEF Frame
    <3> QED
      BY <3>1, <3>2, <3>3
  <2> QED
    BY <2>3, <2>4, <2>5, <2>6
<1> QED
  BY <1>1

(* The order of paths is strict and total.                                 *)
LEMMA PriorIsAnOrder ==
  ASSUME NEW a \in Seq(Frame), NEW b \in Seq(Frame), NEW c \in Seq(Frame)
  PROVE  /\ ~Prior(a, a)
         /\ Prior(a, b) /\ Prior(b, c) => Prior(a, c)
         /\ a = b \/ Prior(a, b) \/ Prior(b, a)
<1>1. /\ Len(a) \in Nat /\ Len(b) \in Nat /\ Len(c) \in Nat
      /\ 2 * Len(a) \in Nat
      /\ NamesOf(a) \in [1..(2 * Len(a)) -> Int] /\ LinesOf(a) \in [1..Len(a) -> Int]
      /\ NamesOf(b) \in [1..(2 * Len(b)) -> Int] /\ LinesOf(b) \in [1..Len(b) -> Int]
      /\ NamesOf(c) \in [1..(2 * Len(c)) -> Int] /\ LinesOf(c) \in [1..Len(c) -> Int]
  BY PathsAreLists
<1>2. ~Prior(a, a)
  <2>1. ~Before(NamesOf(a), NamesOf(a)) /\ ~Before(LinesOf(a), LinesOf(a))
    BY <1>1, BeforeIsStrict
  <2> QED
    BY <1>1, <2>1 DEF Prior
<1>3. ASSUME Prior(a, b), Prior(b, c) PROVE Prior(a, c)
  <2>1. CASE Len(a) < Len(b) \/ Len(b) < Len(c)
    <3>1. Len(a) <= Len(b) /\ Len(b) <= Len(c)
      BY <1>1, <1>3 DEF Prior
    <3> QED
      BY <1>1, <2>1, <3>1 DEF Prior
  <2>2. CASE Len(a) = Len(b) /\ Len(b) = Len(c)
    <3>1. /\ \/ Before(NamesOf(a), NamesOf(b))
             \/ NamesOf(a) = NamesOf(b) /\ Before(LinesOf(a), LinesOf(b))
          /\ \/ Before(NamesOf(b), NamesOf(c))
             \/ NamesOf(b) = NamesOf(c) /\ Before(LinesOf(b), LinesOf(c))
      BY <1>1, <1>3, <2>2 DEF Prior
    <3>2. /\ Before(NamesOf(a), NamesOf(b)) /\ Before(NamesOf(b), NamesOf(c))
               => Before(NamesOf(a), NamesOf(c))
          /\ Before(LinesOf(a), LinesOf(b)) /\ Before(LinesOf(b), LinesOf(c))
               => Before(LinesOf(a), LinesOf(c))
      BY <1>1, <2>2, BeforeIsTransitive
    <3> QED
      BY <2>2, <3>1, <3>2 DEF Prior
  <2> QED
    BY <1>1, <1>3, <2>1, <2>2 DEF Prior
<1>4. ASSUME ~Prior(a, b), ~Prior(b, a) PROVE a = b
  <2>1. Len(a) = Len(b)
    BY <1>1, <1>4 DEF Prior
  <2>2. NamesOf(a) = NamesOf(b)
    BY <1>1, <1>4, <2>1, BeforeIsTotal DEF Prior
  <2>3. LinesOf(a) = LinesOf(b)
    BY <1>1, <1>4, <2>1, <2>2, BeforeIsTotal DEF Prior
  <2> QED
    BY <2>1, <2>2, <2>3, PathsAreTold
<1> QED
  BY <1>2, <1>3, <1>4

(* preferCandidate follows it.                                             *)
LEMMA CandidatesArePrior ==
  ASSUME NEW a \in Seq(Frame), NEW b \in Seq(Frame), a # <<>>, b # <<>>
  PROVE  PreferCandidate(a, b) <=> Prior(a, b)
<1>1. /\ Len(a) \in Nat /\ Len(b) \in Nat /\ 2 * Len(a) \in Nat
      /\ NamesOf(a) \in [1..(2 * Len(a)) -> Int]
      /\ NamesOf(b) \in [1..(2 * Len(b)) -> Int]
  BY PathsAreLists
<1>2. CASE Len(a) # Len(b)
  BY <1>1, <1>2 DEF PreferCandidate, PreferPath, Prior
<1>3. CASE Len(a) = Len(b)
  <2>1. /\ NamesOf(a) = NamesOf(b) \/ Before(NamesOf(a), NamesOf(b))
             \/ Before(NamesOf(b), NamesOf(a))
        /\ ~Before(NamesOf(a), NamesOf(a))
        /\ Before(NamesOf(a), NamesOf(b)) /\ Before(NamesOf(b), NamesOf(a))
             => Before(NamesOf(a), NamesOf(a))
    BY <1>1, <1>3, BeforeIsTotal, BeforeIsStrict, BeforeIsTransitive
  <2>2. /\ PreferPath(a, b) <=> Before(NamesOf(a), NamesOf(b))
        /\ PreferPath(b, a) <=> Before(NamesOf(b), NamesOf(a))
    BY <1>1, <1>3 DEF PreferPath
  <2> QED
    BY <1>1, <1>3, <2>1, <2>2 DEF PreferCandidate, Prior
<1> QED
  BY <1>2, <1>3

(* A list of a length and two lists.                                       *)
Joins(u, n, x, y) ==
  /\ n \in Nat /\ x \in [1..(2 * n) -> Int] /\ y \in [1..n -> Int]
  /\ DOMAIN u = 1..(1 + 3 * n)
  /\ u[1] = n
  /\ \A i \in 2..(1 + 2 * n) : u[i] = x[i - 1]
  /\ \A i \in (2 + 2 * n)..(1 + 3 * n) : u[i] = y[i - 1 - 2 * n]

(* Such lists are ordered part by part.                                    *)
LEMMA JoinedOrder ==
  ASSUME NEW n, NEW m, NEW x, NEW y, NEW z, NEW w, NEW u, NEW v,
         Joins(u, n, x, y), Joins(v, m, z, w)
  PROVE  Before(u, v) <=> \/ n < m
                          \/ n = m /\ (Before(x, z) \/ (x = z /\ Before(y, w)))
<1> n \in Nat /\ x \in [1..(2 * n) -> Int] /\ y \in [1..n -> Int]
  BY DEF Joins
<1> m \in Nat /\ z \in [1..(2 * m) -> Int] /\ w \in [1..m -> Int]
  BY DEF Joins
<1>f. /\ DOMAIN u = 1..(1 + 3 * n) /\ DOMAIN v = 1..(1 + 3 * m) /\ u[1] = n /\ v[1] = m
  BY DEF Joins
<1>x. \A i \in 2..(1 + 2 * n) : u[i] = x[i - 1]
  BY DEF Joins
<1>y. \A i \in (2 + 2 * n)..(1 + 3 * n) : u[i] = y[i - 1 - 2 * n]
  BY DEF Joins
<1>z. \A i \in 2..(1 + 2 * m) : v[i] = z[i - 1]
  BY DEF Joins
<1>w. \A i \in (2 + 2 * m)..(1 + 3 * m) : v[i] = w[i - 1 - 2 * m]
  BY DEF Joins
<1>1. ASSUME n < m PROVE Before(u, v)
  <2>1. 1 \in DOMAIN u \cap DOMAIN v /\ u[1] < v[1] /\ \A j \in 1..(1 - 1) : u[j] = v[j]
    BY <1>f, <1>1
  <2> QED
    BY <1>f, <2>1 DEF Before
<1>2. ASSUME n = m, Before(x, z) PROVE Before(u, v)
  <2>1. PICK i \in 1..(2 * n) : x[i] < z[i] /\ \A j \in 1..(i - 1) : x[j] = z[j]
    BY <1>2 DEF Before
  <2>2. /\ i + 1 \in 2..(1 + 2 * n) /\ i + 1 \in 1..(1 + 3 * n) /\ (i + 1) - 1 = i
        /\ i + 1 \in 2..(1 + 2 * m)
    BY <1>2
  <2>3. u[i + 1] < v[i + 1]
    <3>1. u[i + 1] = x[(i + 1) - 1] /\ v[i + 1] = z[(i + 1) - 1]
      BY <1>x, <1>z, <2>2
    <3> QED
      BY <2>1, <2>2, <3>1
  <2>4. ASSUME NEW j \in 1..(i + 1 - 1) PROVE u[j] = v[j]
    <3>1. CASE j = 1
      BY <1>f, <1>2, <3>1
    <3>2. CASE j # 1
      <4>1. j - 1 \in 1..(i - 1) /\ j \in 2..(1 + 2 * n) /\ j \in 2..(1 + 2 * m)
        BY <1>2, <3>2
      <4>2. u[j] = x[j - 1] /\ v[j] = z[j - 1] /\ x[j - 1] = z[j - 1]
        BY <1>x, <1>z, <2>1, <4>1
      <4> QED
        BY <4>2
    <3> QED
      BY <3>1, <3>2
  <2>5. PICK k \in DOMAIN u \cap DOMAIN v : k = i + 1
    BY <1>f, <1>2, <2>2
  <2>6. u[k] < v[k] /\ \A j \in 1..(k - 1) : u[j] = v[j]
    BY <2>3, <2>4, <2>5
  <2> QED
    BY <2>6 DEF Before
<1>3. ASSUME n = m, x = z, Before(y, w) PROVE Before(u, v)
  <2>1. PICK i \in 1..n : y[i] < w[i] /\ \A j \in 1..(i - 1) : y[j] = w[j]
    BY <1>3 DEF Before
  <2>2. PICK k \in (2 + 2 * n)..(1 + 3 * n) : k - 1 - 2 * n = i
    <3>1. i + 1 + 2 * n \in (2 + 2 * n)..(1 + 3 * n) /\ (i + 1 + 2 * n) - 1 - 2 * n = i
      OBVIOUS
    <3> QED
      BY <3>1
  <2>3. u[k] < v[k]
    <3>1. u[k] = y[k - 1 - 2 * n] /\ v[k] = w[k - 1 - 2 * m]
      BY <1>y, <1>w, <1>3
    <3> QED
      BY <1>3, <2>1, <2>2, <3>1
  <2>4. ASSUME NEW j \in 1..(k - 1) PROVE u[j] = v[j]
    <3>1. CASE j = 1
      BY <1>f, <1>3, <3>1
    <3>2. CASE j \in 2..(1 + 2 * n)
      <4>1. u[j] = x[j - 1] /\ v[j] = z[j - 1]
        BY <1>x, <1>z, <1>3, <3>2
      <4> QED
        BY <1>3, <4>1
    <3>3. CASE j \in (2 + 2 * n)..(1 + 3 * n)
      <4>1. u[j] = y[j - 1 - 2 * n] /\ v[j] = w[j - 1 - 2 * m]
        BY <1>y, <1>w, <1>3, <3>3
      <4>2. j - 1 - 2 * n \in 1..(i - 1) /\ j - 1 - 2 * n = j - 1 - 2 * m
        BY <1>3, <2>2, <3>3
      <4> QED
        BY <2>1, <4>1, <4>2
    <3>4. j = 1 \/ j \in 2..(1 + 2 * n) \/ j \in (2 + 2 * n)..(1 + 3 * n)
      BY <2>2
    <3> QED
      BY <3>1, <3>2, <3>3, <3>4
  <2>5. k \in DOMAIN u \cap DOMAIN v
    BY <1>f, <1>3, <2>2
  <2> QED
    BY <1>f, <2>3, <2>4, <2>5 DEF Before
<1>4. ASSUME Before(u, v)
      PROVE  n < m \/ (n = m /\ (Before(x, z) \/ (x = z /\ Before(y, w))))
  <2>1. PICK k \in DOMAIN u \cap DOMAIN v : u[k] < v[k] /\ \A j \in 1..(k - 1) : u[j] = v[j]
    BY <1>f, <1>4 DEF Before
  <2>2. k \in 1..(1 + 3 * n) /\ k \in 1..(1 + 3 * m)
    BY <1>f
  <2>3. CASE k = 1
    BY <1>f, <2>1, <2>3
  <2>4. CASE k # 1
    <3>1. n = m
      <4>1. 1 \in 1..(k - 1)
        BY <2>2, <2>4
      <4> QED
        BY <1>f, <2>1, <4>1
    <3>2. CASE k \in 2..(1 + 2 * n)
      <4>1. u[k] = x[k - 1] /\ v[k] = z[k - 1]
        BY <1>x, <1>z, <3>1, <3>2
      <4>2. ASSUME NEW j \in 1..((k - 1) - 1) PROVE x[j] = z[j]
        <5>1. /\ j + 1 \in 2..(1 + 2 * n) /\ j + 1 \in 1..(k - 1) /\ (j + 1) - 1 = j
          BY <3>2
        <5>3. j + 1 \in 2..(1 + 2 * m)
          BY <3>1, <5>1
        <5>2. u[j + 1] = x[(j + 1) - 1] /\ v[j + 1] = z[(j + 1) - 1] /\ u[j + 1] = v[j + 1]
          BY <1>x, <1>z, <2>1, <5>1, <5>3
        <5> QED
          BY <5>1, <5>2
      <4>3. k - 1 \in DOMAIN x \cap DOMAIN z
        BY <1>f, <3>1, <3>2
      <4>4. Before(x, z)
        BY <2>1, <4>1, <4>2, <4>3 DEF Before
      <4> QED
        BY <3>1, <4>4
    <3>3. CASE k \in (2 + 2 * n)..(1 + 3 * n)
      <4>1. u[k] = y[k - 1 - 2 * n] /\ v[k] = w[k - 1 - 2 * n]
        BY <1>y, <1>w, <3>1, <3>3
      <4>2. ASSUME NEW j \in 1..(2 * n) PROVE x[j] = z[j]
        <5>1. /\ j + 1 \in 2..(1 + 2 * n) /\ j + 1 \in 1..(k - 1) /\ (j + 1) - 1 = j
          BY <3>3
        <5>3. j + 1 \in 2..(1 + 2 * m)
          BY <3>1, <5>1
        <5>2. u[j + 1] = x[(j + 1) - 1] /\ v[j + 1] = z[(j + 1) - 1] /\ u[j + 1] = v[j + 1]
          BY <1>x, <1>z, <2>1, <5>1, <5>3
        <5> QED
          BY <5>1, <5>2
      <4>3. x = z
        BY <3>1, <4>2
      <4>4. ASSUME NEW j \in 1..((k - 1 - 2 * n) - 1) PROVE y[j] = w[j]
        <5>1. PICK i \in (2 + 2 * n)..(1 + 3 * n) : i - 1 - 2 * n = j
          <6>1. /\ j + 1 + 2 * n \in (2 + 2 * n)..(1 + 3 * n)
                /\ (j + 1 + 2 * n) - 1 - 2 * n = j
            BY <3>3
          <6> QED
            BY <6>1
        <5>2. i \in 1..(k - 1) /\ i \in (2 + 2 * m)..(1 + 3 * m)
          <6>1. i \in 1..(k - 1)
            BY <3>3, <5>1
          <6> QED
            BY <3>1, <6>1
        <5>3. /\ u[i] = y[i - 1 - 2 * n] /\ v[i] = w[i - 1 - 2 * m] /\ u[i] = v[i]
              /\ i - 1 - 2 * m = j
          BY <1>y, <1>w, <2>1, <3>1, <5>1, <5>2
        <5> QED
          BY <5>1, <5>3
      <4>5. k - 1 - 2 * n \in DOMAIN y \cap DOMAIN w
        <5>1. k - 1 - 2 * n \in 1..n
          BY <3>3
        <5> QED
          BY <3>1, <5>1
      <4>6. Before(y, w)
        BY <2>1, <4>1, <4>4, <4>5 DEF Before
      <4> QED
        BY <3>1, <4>3, <4>6
    <3>4. k \in 2..(1 + 2 * n) \/ k \in (2 + 2 * n)..(1 + 3 * n)
      BY <2>2, <2>4
    <3> QED
      BY <3>2, <3>3, <3>4
  <2> QED
    BY <2>3, <2>4
<1>5. \/ n < m
      \/ n = m /\ (Before(x, z) \/ (x = z /\ Before(y, w)))
      => Before(u, v)
  BY <1>1, <1>2, <1>3
<1> QED
  BY <1>4, <1>5

(* So the order of length, names and positions as one list is that of paths. *)
LEMMA WholeIsPrior ==
  ASSUME NEW a \in Seq(Frame), NEW b \in Seq(Frame)
  PROVE  Before(<<Len(a)>> \o NamesOf(a) \o LinesOf(a), <<Len(b)>> \o NamesOf(b) \o LinesOf(b))
           <=> Prior(a, b)
<1> DEFINE whole(n, x, y) == <<n>> \o x \o y
<1>1. ASSUME NEW n \in Nat, NEW x \in [1..(2 * n) -> Int], NEW y \in [1..n -> Int]
      PROVE  Joins(whole(n, x, y), n, x, y)
  <2>1. x \in Seq(Int) /\ Len(x) = 2 * n /\ y \in Seq(Int) /\ Len(y) = n
    OBVIOUS
  <2>2. PICK u : u = <<n>> \o x
    OBVIOUS
  <2>3. /\ u \in Seq(Int) /\ Len(u) = 1 + 2 * n /\ u[1] = n
        /\ \A i \in 2..(1 + 2 * n) : u[i] = x[i - 1]
    BY <2>1, <2>2
  <2>4. PICK w : w = u \o y
    OBVIOUS
  <2>5. w \in Seq(Int) /\ Len(w) = 1 + 3 * n
    <3>1. w \in Seq(Int) /\ Len(w) = Len(u) + Len(y)
      <4>1. \A s, r \in Seq(Int) : s \o r \in Seq(Int) /\ Len(s \o r) = Len(s) + Len(r)
        OBVIOUS
      <4> QED
        BY <2>1, <2>3, <2>4, <4>1
    <3> QED
      BY <2>1, <2>3, <3>1
  <2>6. \A i \in 1..(1 + 2 * n) : w[i] = u[i]
    BY <2>1, <2>3, <2>4
  <2>7. \A i \in (2 + 2 * n)..(1 + 3 * n) : w[i] = y[i - 1 - 2 * n]
    <3>1. \A i \in 1..(Len(u) + Len(y)) : i > Len(u) => w[i] = y[i - Len(u)]
      <4>1. \A s, r \in Seq(Int) : \A i \in 1..(Len(s) + Len(r)) :
              i > Len(s) => (s \o r)[i] = r[i - Len(s)]
        OBVIOUS
      <4> QED
        BY <2>1, <2>3, <2>4, <4>1
    <3>2. \A i \in (2 + 2 * n)..(1 + 3 * n) :
            i \in 1..(Len(u) + Len(y)) /\ i > Len(u) /\ i - Len(u) = i - 1 - 2 * n
      BY <2>1, <2>3
    <3> QED
      BY <3>1, <3>2
  <2>8. DOMAIN w = 1..(1 + 3 * n) /\ w[1] = n
    BY <2>3, <2>5, <2>6
  <2>9. \A i \in 2..(1 + 2 * n) : w[i] = x[i - 1]
    <3>1. \A i \in 2..(1 + 2 * n) : i \in 1..(1 + 2 * n)
      OBVIOUS
    <3> QED
      BY <2>3, <2>6, <3>1
  <2> QED
    BY <2>2, <2>4, <2>7, <2>8, <2>9 DEF Joins
<1>2. whole(Len(a), NamesOf(a), LinesOf(a)) = <<Len(a)>> \o NamesOf(a) \o LinesOf(a)
  OBVIOUS
<1>3. whole(Len(b), NamesOf(b), LinesOf(b)) = <<Len(b)>> \o NamesOf(b) \o LinesOf(b)
  OBVIOUS
<1> HIDE DEF whole
<1>4. /\ Len(a) \in Nat /\ Len(b) \in Nat
      /\ NamesOf(a) \in [1..(2 * Len(a)) -> Int] /\ LinesOf(a) \in [1..Len(a) -> Int]
      /\ NamesOf(b) \in [1..(2 * Len(b)) -> Int] /\ LinesOf(b) \in [1..Len(b) -> Int]
  BY PathsAreLists
<1>5. ASSUME NEW n \in Nat, NEW m \in Nat, NEW x \in [1..(2 * n) -> Int],
             NEW y \in [1..n -> Int], NEW z \in [1..(2 * m) -> Int], NEW w \in [1..m -> Int]
      PROVE  Before(whole(n, x, y), whole(m, z, w))
               <=> \/ n < m
                   \/ n = m /\ (Before(x, z) \/ (x = z /\ Before(y, w)))
  <2>1. PICK u, v : u = whole(n, x, y) /\ v = whole(m, z, w)
    OBVIOUS
  <2>2. Joins(u, n, x, y) /\ Joins(v, m, z, w)
    BY <1>1, <2>1
  <2>3. Before(u, v) <=> \/ n < m
                         \/ n = m /\ (Before(x, z) \/ (x = z /\ Before(y, w)))
    BY <2>2, JoinedOrder
  <2> QED
    BY <2>1, <2>3
<1>6. Before(whole(Len(a), NamesOf(a), LinesOf(a)), whole(Len(b), NamesOf(b), LinesOf(b)))
        <=> \/ Len(a) < Len(b)
            \/ /\ Len(a) = Len(b)
               /\ \/ Before(NamesOf(a), NamesOf(b))
                  \/ NamesOf(a) = NamesOf(b) /\ Before(LinesOf(a), LinesOf(b))
  <2>1. PICK n, m, x, y, z, w : /\ n = Len(a) /\ x = NamesOf(a) /\ y = LinesOf(a)
                                /\ m = Len(b) /\ z = NamesOf(b) /\ w = LinesOf(b)
    OBVIOUS
  <2>2. /\ n \in Nat /\ x \in [1..(2 * n) -> Int] /\ y \in [1..n -> Int]
        /\ m \in Nat /\ z \in [1..(2 * m) -> Int] /\ w \in [1..m -> Int]
    BY <1>4, <2>1
  <2>3. Before(whole(n, x, y), whole(m, z, w))
          <=> \/ n < m
              \/ n = m /\ (Before(x, z) \/ (x = z /\ Before(y, w)))
    BY <1>5, <2>2
  <2> QED
    BY <2>1, <2>3
<1> QED
  BY <1>2, <1>3, <1>6 DEF Prior

-----------------------------------------------------------------------------
(* Which of two called traces is shown.                                    *)

(* Between two traces with a path, the one that does more than format a    *)
(* message, then the prior path.                                           *)
Shown(t, u) ==
  \/ FormatsMessage(u) /\ ~FormatsMessage(t)
  \/ FormatsMessage(u) = FormatsMessage(t) /\ Prior(Condense(t), Condense(u))

LEMMA CalledAreShown ==
  ASSUME NEW t \in Traces, NEW u \in Traces, Condense(t) # <<>>, Condense(u) # <<>>
  PROVE  PreferCalled(t, u) <=> Shown(t, u)
<1>1. Condense(t) \in Seq(Frame) /\ Condense(u) \in Seq(Frame)
  BY PathsAreFrames
<1>2. PreferCandidate(Condense(t), Condense(u)) <=> Prior(Condense(t), Condense(u))
  BY <1>1, CandidatesArePrior
<1> QED
  BY <1>2, Zenon DEF PreferCalled, Shown

(* A trace is formatting or it is not.                                     *)
LEMMA FormatsOrNot ==
  ASSUME NEW t
  PROVE  FormatsMessage(t) \in BOOLEAN
BY DEF FormatsMessage

LEMMA ShownIsAnOrder ==
  ASSUME NEW t \in Traces, NEW u \in Traces, NEW w \in Traces
  PROVE  ~Shown(t, t) /\ (Shown(t, u) /\ Shown(u, w) => Shown(t, w))
<1>1. /\ Condense(t) \in Seq(Frame) /\ Condense(u) \in Seq(Frame)
      /\ Condense(w) \in Seq(Frame)
  BY PathsAreFrames
<1>2. /\ ~Prior(Condense(t), Condense(t))
      /\ Prior(Condense(t), Condense(u)) /\ Prior(Condense(u), Condense(w))
           => Prior(Condense(t), Condense(w))
  BY <1>1, PriorIsAnOrder
<1>3. /\ FormatsMessage(t) \in BOOLEAN /\ FormatsMessage(u) \in BOOLEAN
      /\ FormatsMessage(w) \in BOOLEAN
  BY FormatsOrNot
<1> QED
  BY <1>2, <1>3 DEF Shown

(* The trace shown of a set of traces with a path.                         *)
Best(paths, t) ==
  IF paths = {} THEN Condense(t) = <<>> /\ t \in Traces
  ELSE t \in paths /\ \A u \in paths : ~PreferCalled(u, t)

LEMMA BestIsKept ==
  ASSUME NEW paths \in SUBSET Traces, \A p \in paths : Condense(p) # <<>>,
         NEW t, Best(paths, t), NEW u \in Traces
  PROVE  /\ Condense(u) = <<>> => ~PreferCalled(u, t)
         /\ Condense(u) # <<>> =>
              Best(paths \cup {u}, IF PreferCalled(u, t) THEN u ELSE t)
<1>1. ASSUME Condense(u) = <<>> PROVE ~PreferCalled(u, t)
  BY <1>1 DEF PreferCalled
<1>2. ASSUME Condense(u) # <<>>
      PROVE  Best(paths \cup {u}, IF PreferCalled(u, t) THEN u ELSE t)
  <2>1. ~PreferCalled(u, u)
    BY <1>2, CalledAreShown, ShownIsAnOrder
  <2>2. CASE paths = {}
    <3>1. PreferCalled(u, t)
      BY <1>2, <2>2 DEF Best, PreferCalled
    <3> QED
      BY <2>1, <2>2, <3>1 DEF Best
  <2>3. CASE paths # {}
    <3>1. t \in paths /\ t \in Traces /\ Condense(t) # <<>> /\ \A p \in paths : ~PreferCalled(p, t)
      BY <2>3 DEF Best
    <3>2. CASE PreferCalled(u, t)
      <4>1. ASSUME NEW p \in paths PROVE ~PreferCalled(p, u)
        <5>1. PreferCalled(p, u) => PreferCalled(p, t)
          BY <1>2, <3>1, <3>2, CalledAreShown, ShownIsAnOrder
        <5> QED
          BY <3>1, <5>1
      <4> QED
        BY <2>1, <3>2, <4>1 DEF Best
    <3>3. CASE ~PreferCalled(u, t)
      BY <3>1, <3>3 DEF Best
    <3> QED
      BY <3>2, <3>3
  <2> QED
    BY <2>2, <2>3
<1> QED
  BY <1>1, <1>2

(* The best of the contenders is what Wanted asks for.                     *)
LEMMA BestIsWanted ==
  ASSUME NEW F \in SUBSET StreamFindings, NEW t, Best(PathTraces(F), t),
         PathTraces(F) # {},
         NEW best, best = CHOOSE s \in Contenders(F) : \A u \in Contenders(F) : ~Better(u, s)
  PROVE  /\ Contenders(F) # {} /\ t \in PathTraces(F) /\ best \in PathTraces(F)
         /\ Condense(best) = Condense(t)
<1>1. PathTraces(F) \in SUBSET Traces /\ \A p \in PathTraces(F) : Condense(p) # <<>>
  BY DEF PathTraces, CalledTraces, Traces
<1>2. t \in PathTraces(F) /\ \A u \in PathTraces(F) : ~PreferCalled(u, t)
  BY DEF Best
<1>3. \A u \in PathTraces(F) : ~Shown(u, t)
  BY <1>1, <1>2, CalledAreShown
<1>4. /\ t \in Contenders(F) /\ Contenders(F) \in SUBSET PathTraces(F)
      /\ \A u \in Contenders(F) : FormatsMessage(u) = FormatsMessage(t)
  <2>1. CASE \E u \in PathTraces(F) : ~FormatsMessage(u)
    <3>1. ~FormatsMessage(t)
      BY <1>3, <2>1 DEF Shown
    <3> QED
      BY <1>2, <2>1, <3>1, FormatsOrNot DEF Contenders
  <2>2. CASE \A u \in PathTraces(F) : FormatsMessage(u)
    BY <1>2, <2>2, FormatsOrNot DEF Contenders
  <2> QED
    BY <2>1, <2>2
<1>5. ASSUME NEW u \in Traces, NEW w \in Traces
      PROVE  Better(u, w) <=> Prior(Condense(u), Condense(w))
  <2>1. Condense(u) \in Seq(Frame) /\ Condense(w) \in Seq(Frame)
    BY PathsAreFrames
  <2> QED
    BY <2>1, WholeIsPrior DEF Better
<1>6. \A u \in Contenders(F) : ~Better(u, t)
  BY <1>1, <1>3, <1>4, <1>5 DEF Shown
<1>7. best \in Contenders(F) /\ \A u \in Contenders(F) : ~Better(u, best)
  BY <1>4, <1>6
<1>8. ~Prior(Condense(t), Condense(best)) /\ ~Prior(Condense(best), Condense(t))
  BY <1>1, <1>4, <1>5, <1>6, <1>7
<1>9. Condense(t) \in Seq(Frame) /\ Condense(best) \in Seq(Frame)
  BY <1>1, <1>4, <1>7, PathsAreFrames
<1>10. Condense(best) = Condense(t)
  BY <1>8, <1>9, PriorIsAnOrder
<1> QED
  BY <1>4, <1>7, <1>10

-----------------------------------------------------------------------------
(* What the parser knows of the findings it has read.                      *)

HeardOf(key) == {f \in stream \ unread : Known(f) /\ KeyOf(f) = key}

(* A vulnerability made of the findings F.                                 *)
MadeOf(F, v) ==
  /\ v = [reach |-> v.reach, fixed |-> v.fixed, chosen |-> v.chosen, sinks |-> v.sinks]
  /\ \E f \in F : v.reach = ClassifyReachability(f.trace)
  /\ \A f \in F : ReachRank(ClassifyReachability(f.trace)) <= ReachRank(v.reach)
  /\ \E f \in F : v.fixed = FixedVersion(f)
  /\ v.sinks = UNION {CalledSink(t) : t \in CalledTraces(F)}
  /\ Best(PathTraces(F), v.chosen)

StreamInv ==
  /\ stream \in SUBSET StreamFindings /\ unread \in SUBSET stream
  /\ DOMAIN merged = Keys
  /\ \A key \in Keys : IF HeardOf(key) = {} THEN merged[key] = NoVuln
                       ELSE MadeOf(HeardOf(key), merged[key])

(* The ranks of the three reachabilities.                                  *)
LEMMA Ranks ==
  /\ ReachRank("required") = 1 /\ ReachRank("imported") = 2 /\ ReachRank("called") = 3
  /\ \A trace : ClassifyReachability(trace) \in {"required", "imported", "called"}
<1>1. \A i \in 1..3 : /\ Reachabilities[i] = "required" <=> i = 1
                      /\ Reachabilities[i] = "imported" <=> i = 2
                      /\ Reachabilities[i] = "called" <=> i = 3
  BY DEF Reachabilities
<1>2. /\ ReachRank("required") = 1 /\ ReachRank("imported") = 2 /\ ReachRank("called") = 3
  BY <1>1 DEF ReachRank
<1>3. \A trace : ClassifyReachability(trace) \in {"required", "imported", "called"}
  BY DEF ClassifyReachability
<1> QED
  BY <1>2, <1>3

(* A finding adds its trace to those called, and to those with a path.     *)
LEMMA OneMoreTrace ==
  ASSUME NEW F, NEW f
  PROVE  /\ CalledTraces(F \cup {f}) = IF ClassifyReachability(f.trace) = "called"
                                       THEN CalledTraces(F) \cup {f.trace} ELSE CalledTraces(F)
         /\ PathTraces(F \cup {f}) =
              IF ClassifyReachability(f.trace) = "called" /\ Condense(f.trace) # <<>>
              THEN PathTraces(F) \cup {f.trace} ELSE PathTraces(F)
<1>1. CASE ClassifyReachability(f.trace) = "called"
  <2>1. CalledTraces(F \cup {f}) = CalledTraces(F) \cup {f.trace}
    BY <1>1 DEF CalledTraces
  <2> QED
    BY <1>1, <2>1 DEF PathTraces
<1>2. CASE ClassifyReachability(f.trace) # "called"
  <2>1. CalledTraces(F \cup {f}) = CalledTraces(F)
    BY <1>2 DEF CalledTraces
  <2> QED
    BY <1>2, <2>1 DEF PathTraces
<1> QED
  BY <1>1, <1>2

(* Of the first finding the parser makes a vulnerability.                  *)
LEMMA FirstMakes ==
  ASSUME NEW f \in StreamFindings
  PROVE  MadeOf({f}, Vuln(f))
<1> DEFINE reach == ClassifyReachability(f.trace)
<1>1. f.trace \in Traces /\ <<>> \in Traces
  BY DEF Traces
<1>2. Vuln(f) = [reach |-> reach, fixed |-> FixedVersion(f),
                 chosen |-> IF reach = "called" THEN f.trace ELSE <<>>,
                 sinks |-> IF reach = "called" THEN CalledSink(f.trace) ELSE {}]
  BY DEF Vuln
<1>3. /\ CalledTraces({f}) = IF reach = "called" THEN {f.trace} ELSE {}
      /\ PathTraces({f}) = IF reach = "called" /\ Condense(f.trace) # <<>>
                           THEN {f.trace} ELSE {}
  <2>1. CalledTraces({}) = {} /\ PathTraces({}) = {} /\ {} \cup {f} = {f}
    BY DEF CalledTraces, PathTraces
  <2>2. /\ CalledTraces({} \cup {f}) = IF reach = "called" THEN {f.trace} ELSE {}
        /\ PathTraces({} \cup {f}) = IF reach = "called" /\ Condense(f.trace) # <<>>
                                     THEN {f.trace} ELSE {}
    <3>1. CASE reach = "called"
      <4>1. CalledTraces({} \cup {f}) = CalledTraces({}) \cup {f.trace}
        BY <3>1, OneMoreTrace
      <4>2. Condense(f.trace) # <<>> => PathTraces({} \cup {f}) = PathTraces({}) \cup {f.trace}
        BY <3>1, OneMoreTrace
      <4>3. Condense(f.trace) = <<>> => PathTraces({} \cup {f}) = PathTraces({})
        BY <3>1, OneMoreTrace
      <4> QED
        BY <2>1, <3>1, <4>1, <4>2, <4>3
    <3>2. CASE reach # "called"
      <4>1. CalledTraces({} \cup {f}) = CalledTraces({})
        BY <3>2, OneMoreTrace
      <4>2. PathTraces({} \cup {f}) = PathTraces({})
        BY <3>2, OneMoreTrace
      <4> QED
        BY <2>1, <3>2, <4>1, <4>2
    <3> QED
      BY <3>1, <3>2
  <2> QED
    BY <2>1, <2>2
<1>4. ReachRank(reach) <= ReachRank(reach)
  BY Ranks
<1>5. UNION {CalledSink(t) : t \in CalledTraces({f})} =
        IF reach = "called" THEN CalledSink(f.trace) ELSE {}
  BY <1>3
<1>6. Best(PathTraces({f}), IF reach = "called" THEN f.trace ELSE <<>>)
  <2>1. CASE reach = "called" /\ Condense(f.trace) # <<>>
    <3>1. ~PreferCalled(f.trace, f.trace)
      BY <1>1, <2>1, CalledAreShown, ShownIsAnOrder
    <3> QED
      BY <1>3, <2>1, <3>1 DEF Best
  <2>2. CASE ~(reach = "called" /\ Condense(f.trace) # <<>>)
    BY <1>1, <1>3, <2>2, PathsAreFrames DEF Best
  <2> QED
    BY <2>1, <2>2
<1> HIDE DEF reach
<1>7. /\ Vuln(f).reach = reach /\ Vuln(f).fixed = FixedVersion(f)
      /\ Vuln(f).chosen = (IF reach = "called" THEN f.trace ELSE <<>>)
      /\ Vuln(f).sinks = (IF reach = "called" THEN CalledSink(f.trace) ELSE {})
  BY <1>2
<1>8. Vuln(f) = [reach |-> Vuln(f).reach, fixed |-> Vuln(f).fixed,
                 chosen |-> Vuln(f).chosen, sinks |-> Vuln(f).sinks]
  BY <1>2, <1>7
<1>9. reach = ClassifyReachability(f.trace)
  BY DEF reach
<1> QED
  BY <1>4, <1>5, <1>6, <1>7, <1>8, <1>9 DEF MadeOf

(* A further finding keeps it so.                                          *)
LEMMA NextMakes ==
  ASSUME NEW F \in SUBSET StreamFindings, NEW v, MadeOf(F, v), NEW f \in StreamFindings
  PROVE  MadeOf(F \cup {f}, Upgraded(v, f))
<1> DEFINE reach == ClassifyReachability(f.trace)
           next == Upgraded(v, f)
<1>1. f.trace \in Traces
  BY DEF Traces
<1>2. v = [reach |-> v.reach, fixed |-> v.fixed, chosen |-> v.chosen, sinks |-> v.sinks]
  BY DEF MadeOf
<1>3. /\ next.reach = (IF ReachRank(reach) > ReachRank(v.reach) THEN reach ELSE v.reach)
      /\ next.fixed = v.fixed
      /\ next.chosen = (IF reach = "called" /\ PreferCalled(f.trace, v.chosen)
                        THEN f.trace ELSE v.chosen)
      /\ next.sinks = (IF reach = "called" THEN v.sinks \cup CalledSink(f.trace) ELSE v.sinks)
      /\ next = [reach |-> next.reach, fixed |-> next.fixed,
                 chosen |-> next.chosen, sinks |-> next.sinks]
  <2>1. PICK r, x, c, s : /\ v = [reach |-> r, fixed |-> x, chosen |-> c, sinks |-> s]
                          /\ v.reach = r /\ v.fixed = x /\ v.chosen = c /\ v.sinks = s
    BY <1>2
  <2>2. next = [reach |-> IF ReachRank(reach) > ReachRank(r) THEN reach ELSE r,
                fixed |-> x,
                chosen |-> IF reach = "called" /\ PreferCalled(f.trace, c) THEN f.trace ELSE c,
                sinks |-> IF reach = "called" THEN s \cup CalledSink(f.trace) ELSE s]
    <3>1. \A r2, c2, s2 : [[[v EXCEPT !.reach = r2] EXCEPT !.chosen = c2] EXCEPT !.sinks = s2]
            = [reach |-> r2, fixed |-> x, chosen |-> c2, sinks |-> s2]
      <4> DEFINE made(k, l, m, n) == [reach |-> k, fixed |-> l, chosen |-> m, sinks |-> n]
      <4>1. \A k, l, m, n, e : [made(k, l, m, n) EXCEPT !.reach = e] = made(e, l, m, n)
        OBVIOUS
      <4>2. \A k, l, m, n, e : [made(k, l, m, n) EXCEPT !.chosen = e] = made(k, l, e, n)
        OBVIOUS
      <4>3. \A k, l, m, n, e : [made(k, l, m, n) EXCEPT !.sinks = e] = made(k, l, m, e)
        OBVIOUS
      <4>4. v = made(r, x, c, s)
        BY <2>1
      <4> HIDE DEF made
      <4>5. \A r2, c2, s2 :
              [[[v EXCEPT !.reach = r2] EXCEPT !.chosen = c2] EXCEPT !.sinks = s2]
                = made(r2, x, c2, s2)
        <5> TAKE r2, c2, s2
        <5>1. PICK v1 : v1 = [v EXCEPT !.reach = r2]
          OBVIOUS
        <5>2. v1 = made(r2, x, c, s)
          BY <4>1, <4>4, <5>1
        <5>3. PICK v2 : v2 = [v1 EXCEPT !.chosen = c2]
          OBVIOUS
        <5>4. v2 = made(r2, x, c2, s)
          BY <4>2, <5>2, <5>3
        <5>5. [v2 EXCEPT !.sinks = s2] = made(r2, x, c2, s2)
          BY <4>3, <5>4
        <5> QED
          BY <5>1, <5>3, <5>5
      <4> QED
        BY <4>5 DEF made
    <3>2. next = [[[v EXCEPT
                      !.reach = IF ReachRank(reach) > ReachRank(v.reach) THEN reach ELSE v.reach]
                    EXCEPT
                      !.chosen = IF reach = "called" /\ PreferCalled(f.trace, v.chosen)
                                 THEN f.trace ELSE v.chosen]
                  EXCEPT !.sinks = IF reach = "called" THEN v.sinks \cup CalledSink(f.trace)
                                   ELSE v.sinks]
      BY <2>1 DEF Upgraded
    <3> QED
      BY <2>1, <3>1, <3>2
  <2> QED
    BY <2>1, <2>2
<1>4. /\ \E g \in F \cup {f} : next.reach = ClassifyReachability(g.trace)
      /\ \A g \in F \cup {f} : ReachRank(ClassifyReachability(g.trace)) <= ReachRank(next.reach)
  <2>1. PICK g \in F : v.reach = ClassifyReachability(g.trace)
    BY DEF MadeOf
  <2>2. \A trace : ReachRank(ClassifyReachability(trace)) \in Int
    BY Ranks
  <2>3. \A h \in F : ReachRank(ClassifyReachability(h.trace)) <= ReachRank(v.reach)
    BY DEF MadeOf
  <2>4. CASE ReachRank(reach) > ReachRank(v.reach)
    <3>1. next.reach = ClassifyReachability(f.trace)
      BY <1>3, <2>4
    <3> QED
      BY <2>1, <2>2, <2>3, <2>4, <3>1
  <2>5. CASE ~(ReachRank(reach) > ReachRank(v.reach))
    <3>1. next.reach = v.reach
      BY <1>3, <2>5
    <3> QED
      BY <2>1, <2>2, <2>3, <2>5, <3>1
  <2> QED
    BY <2>4, <2>5
<1>5. \E g \in F \cup {f} : next.fixed = FixedVersion(g)
  BY <1>3 DEF MadeOf
<1>6. next.sinks = UNION {CalledSink(t) : t \in CalledTraces(F \cup {f})}
  <2>1. v.sinks = UNION {CalledSink(t) : t \in CalledTraces(F)}
    BY DEF MadeOf
  <2>2. CASE reach = "called"
    <3>1. CalledTraces(F \cup {f}) = CalledTraces(F) \cup {f.trace}
      BY <2>2, OneMoreTrace
    <3>2. next.sinks = v.sinks \cup CalledSink(f.trace)
      BY <1>3, <2>2
    <3> QED
      BY <2>1, <3>1, <3>2
  <2>3. CASE reach # "called"
    <3>1. CalledTraces(F \cup {f}) = CalledTraces(F)
      BY <2>3, OneMoreTrace
    <3> QED
      BY <1>3, <2>1, <2>3, <3>1
  <2> QED
    BY <2>2, <2>3
<1>7. Best(PathTraces(F \cup {f}), next.chosen)
  <2>1. PathTraces(F) \in SUBSET Traces /\ \A p \in PathTraces(F) : Condense(p) # <<>>
    BY DEF PathTraces, CalledTraces, Traces
  <2>2. Best(PathTraces(F), v.chosen)
    BY DEF MadeOf
  <2>3. CASE reach = "called" /\ Condense(f.trace) # <<>>
    <3>1. PathTraces(F \cup {f}) = PathTraces(F) \cup {f.trace}
      BY <2>3, OneMoreTrace
    <3>2. Best(PathTraces(F) \cup {f.trace},
               IF PreferCalled(f.trace, v.chosen) THEN f.trace ELSE v.chosen)
      BY <1>1, <2>1, <2>2, <2>3, BestIsKept
    <3>3. next.chosen = IF PreferCalled(f.trace, v.chosen) THEN f.trace ELSE v.chosen
      BY <1>3, <2>3
    <3> QED
      BY <3>1, <3>2, <3>3
  <2>4. CASE ~(reach = "called" /\ Condense(f.trace) # <<>>)
    <3>1. PathTraces(F \cup {f}) = PathTraces(F)
      BY <2>4, OneMoreTrace
    <3>2. Condense(f.trace) = <<>> => ~PreferCalled(f.trace, v.chosen)
      BY <1>1, <2>1, <2>2, BestIsKept
    <3>3. next.chosen = v.chosen
      BY <1>3, <2>4, <3>2
    <3> QED
      BY <2>2, <3>1, <3>3
  <2> QED
    BY <2>3, <2>4
<1> QED
  BY <1>3, <1>4, <1>5, <1>6, <1>7 DEF MadeOf

(* What is made of a finding is a vulnerability.                           *)
LEMMA MadeIsSome ==
  ASSUME NEW F, NEW v, MadeOf(F, v)
  PROVE  v # NoVuln
<1>1. v.reach \in {"required", "imported", "called"}
  BY Ranks DEF MadeOf
<1> QED
  BY <1>1 DEF NoVuln

-----------------------------------------------------------------------------
(* The invariant.                                                          *)

LEMMA StreamInvInit == StreamInit => StreamInv
BY DEF StreamInit, StreamInv, HeardOf

LEMMA StreamInvNext == StreamInv /\ [StreamNext]_streamVars => StreamInv'
<1> SUFFICES ASSUME StreamInv, [StreamNext]_streamVars PROVE StreamInv'
  OBVIOUS
<1>1. CASE UNCHANGED streamVars
  BY <1>1 DEF streamVars, StreamInv, HeardOf
<1>2. CASE StreamNext
  <2>1. PICK f \in unread :
          /\ Skip(f) \/ Add(f) \/ Merge(f)
          /\ unread' = unread \ {f} /\ UNCHANGED stream
    BY <1>2 DEF StreamNext, ParseGovulncheckJSON
  <2>2. f \in stream /\ f \in StreamFindings
    BY DEF StreamInv
  <2>3. stream' \in SUBSET StreamFindings /\ unread' \in SUBSET stream'
    BY <2>1 DEF StreamInv
  <2>4. stream' \ unread' = (stream \ unread) \cup {f}
    BY <2>1, <2>2
  <2>5. \A key : HeardOf(key)' = IF Known(f) /\ KeyOf(f) = key
                                 THEN HeardOf(key) \cup {f} ELSE HeardOf(key)
    <3>1. SUFFICES ASSUME NEW key
                   PROVE  HeardOf(key)' = IF Known(f) /\ KeyOf(f) = key
                                          THEN HeardOf(key) \cup {f} ELSE HeardOf(key)
      OBVIOUS
    <3>2. HeardOf(key)' = {g \in (stream \ unread) \cup {f} : Known(g) /\ KeyOf(g) = key}
      BY <2>4 DEF HeardOf
    <3> QED
      BY <3>2 DEF HeardOf
  <2>6. \A key \in Keys : HeardOf(key) \in SUBSET StreamFindings
    BY DEF HeardOf, StreamInv
  <2>7. ASSUME NEW key \in Keys, ~(Known(f) /\ KeyOf(f) = key), merged'[key] = merged[key]
        PROVE  IF HeardOf(key)' = {} THEN merged'[key] = NoVuln
               ELSE MadeOf(HeardOf(key)', merged'[key])
    <3>1. HeardOf(key)' = HeardOf(key)
      BY <2>5, <2>7
    <3> QED
      BY <2>7, <3>1 DEF StreamInv
  <2>8. CASE Skip(f)
    <3>1. merged' = merged /\ ~Known(f)
      BY <2>8 DEF Skip
    <3>2. \A key \in Keys : IF HeardOf(key)' = {} THEN merged'[key] = NoVuln
                            ELSE MadeOf(HeardOf(key)', merged'[key])
      BY <2>7, <3>1
    <3>3. DOMAIN merged' = Keys
      BY <3>1 DEF StreamInv
    <3> QED
      BY <2>3, <3>2, <3>3 DEF StreamInv
  <2>9. ASSUME NEW v, Known(f), merged' = [merged EXCEPT ![KeyOf(f)] = v],
               MadeOf(HeardOf(KeyOf(f)) \cup {f}, v)
        PROVE  StreamInv'
    <3>1. KeyOf(f) \in Keys
      BY <2>2, <2>9 DEF Keys
    <3>2. DOMAIN merged' = Keys /\ merged'[KeyOf(f)] = v
          /\ \A key \in Keys : key # KeyOf(f) => merged'[key] = merged[key]
      BY <2>9, <3>1 DEF StreamInv
    <3>3. ASSUME NEW key \in Keys
          PROVE  IF HeardOf(key)' = {} THEN merged'[key] = NoVuln
                 ELSE MadeOf(HeardOf(key)', merged'[key])
      <4>1. CASE key = KeyOf(f)
        <5>1. HeardOf(key)' = HeardOf(KeyOf(f)) \cup {f}
          BY <2>5, <2>9, <4>1
        <5> QED
          BY <2>9, <3>2, <4>1, <5>1
      <4>2. CASE key # KeyOf(f)
        BY <2>7, <3>2, <4>2
      <4> QED
        BY <4>1, <4>2
    <3> QED
      BY <2>3, <3>2, <3>3 DEF StreamInv
  <2>10. CASE Add(f)
    <3>1. /\ Known(f) /\ merged[KeyOf(f)] = NoVuln
          /\ merged' = [merged EXCEPT ![KeyOf(f)] = Vuln(f)]
      BY <2>10 DEF Add
    <3>2. KeyOf(f) \in Keys
      BY <2>2, <3>1 DEF Keys
    <3>3. HeardOf(KeyOf(f)) = {}
      BY <3>1, <3>2, MadeIsSome DEF StreamInv
    <3>4. MadeOf(HeardOf(KeyOf(f)) \cup {f}, Vuln(f))
      <4>1. HeardOf(KeyOf(f)) \cup {f} = {f}
        BY <3>3
      <4> QED
        BY <2>2, <4>1, FirstMakes
    <3> QED
      BY <2>9, <3>1, <3>4
  <2>11. CASE Merge(f)
    <3>1. /\ Known(f) /\ merged[KeyOf(f)] # NoVuln
          /\ merged' = [merged EXCEPT ![KeyOf(f)] = Upgraded(@, f)]
      BY <2>11 DEF Merge
    <3>2. KeyOf(f) \in Keys
      BY <2>2, <3>1 DEF Keys
    <3>3. MadeOf(HeardOf(KeyOf(f)), merged[KeyOf(f)])
      BY <3>1, <3>2 DEF StreamInv
    <3>4. MadeOf(HeardOf(KeyOf(f)) \cup {f}, Upgraded(merged[KeyOf(f)], f))
      BY <2>2, <2>6, <3>2, <3>3, NextMakes
    <3> QED
      BY <2>9, <3>1, <3>4
  <2> QED
    BY <2>1, <2>8, <2>10, <2>11
<1> QED
  BY <1>1, <1>2

THEOREM StreamIsMerged == StreamSpec => []StreamInv
BY StreamInvInit, StreamInvNext, PTL DEF StreamSpec

-----------------------------------------------------------------------------
(* What the report says of them.                                           *)

(* All but the fix and the condition is what Wanted asks for.              *)
LEMMA MadeIsWanted ==
  ASSUME NEW F \in SUBSET StreamFindings, F # {}, NEW v, MadeOf(F, v)
  PROVE  /\ Reported(v).reach = Wanted(F).reach
         /\ Reported(v).path = Wanted(F).path
         /\ Reported(v).symbols = Wanted(F).symbols
<1>1. /\ Reported(v).reach = v.reach /\ Reported(v).path = Condense(v.chosen)
      /\ Reported(v).symbols = CapCalledSymbols(v.sinks)
  BY DEF Reported
<1>2. Wanted(F).reach = v.reach
  <2> DEFINE levels == {ClassifyReachability(f.trace) : f \in F}
  <2>1. Wanted(F).reach = CHOOSE l \in levels : \A k \in levels : ReachRank(k) <= ReachRank(l)
    BY DEF Wanted
  <2>2. v.reach \in levels /\ \A k \in levels : ReachRank(k) <= ReachRank(v.reach)
    BY DEF MadeOf
  <2>3. \A k, l \in levels : ReachRank(k) \in Int /\ (ReachRank(k) = ReachRank(l) => k = l)
    BY Ranks
  <2> HIDE DEF levels
  <2>4. PICK l \in levels : /\ l = Wanted(F).reach
                            /\ \A k \in levels : ReachRank(k) <= ReachRank(l)
    BY <2>1, <2>2
  <2> QED
    BY <2>2, <2>3, <2>4
<1>3. Wanted(F).path = Condense(v.chosen)
  <2> DEFINE best == CHOOSE t \in Contenders(F) : \A u \in Contenders(F) : ~Better(u, t)
  <2>1. Wanted(F).path = IF Contenders(F) = {} THEN <<>> ELSE Condense(best)
    BY DEF Wanted
  <2>2. Best(PathTraces(F), v.chosen)
    BY DEF MadeOf
  <2>3. CASE PathTraces(F) = {}
    <3>1. Contenders(F) = {}
      BY <2>3 DEF Contenders
    <3> QED
      BY <2>1, <2>2, <2>3, <3>1 DEF Best
  <2>4. CASE PathTraces(F) # {}
    <3>1. Contenders(F) # {} /\ Condense(best) = Condense(v.chosen)
      BY <2>2, <2>4, BestIsWanted
    <3> QED
      BY <2>1, <3>1
  <2> QED
    BY <2>3, <2>4
<1>4. Wanted(F).symbols = CapCalledSymbols(v.sinks)
  <2>1. v.sinks = UNION {CalledSink(t) : t \in CalledTraces(F)}
    BY DEF MadeOf
  <2> QED
    BY <2>1 DEF Wanted
<1> QED
  BY <1>1, <1>2, <1>3, <1>4

(* The fix and the condition are too, where the messages determine them.   *)
LEMMA MadeIsDetermined ==
  ASSUME Determined, NEW key, NEW F \in SUBSET StreamFindings, F # {}, NEW v, MadeOf(F, v),
         \A f \in F : Known(f) /\ KeyOf(f) = key
  PROVE  Reported(v).fixed = Wanted(F).fixed /\ Reported(v).condition = Wanted(F).condition
<1>1. Reported(v).fixed = v.fixed /\ Reported(v).condition = CallCondition(v.chosen)
  BY DEF Reported
<1>2. Wanted(F).fixed = v.fixed
  <2> DEFINE fixes == {FixedVersion(f) : f \in F}
  <2>1. Wanted(F).fixed = CHOOSE x \in fixes : TRUE
    BY DEF Wanted
  <2>2. v.fixed \in fixes
    BY DEF MadeOf
  <2>3. \A x, y \in fixes : x = y
    BY DEF Determined
  <2> HIDE DEF fixes
  <2> QED
    BY <2>1, <2>2, <2>3
<1>3. Wanted(F).condition = CallCondition(v.chosen)
  <2> DEFINE best == CHOOSE t \in Contenders(F) : \A u \in Contenders(F) : ~Better(u, t)
  <2>1. Wanted(F).condition = IF Contenders(F) = {} THEN NoCondition ELSE CallCondition(best)
    BY DEF Wanted
  <2>2. Best(PathTraces(F), v.chosen)
    BY DEF MadeOf
  <2>3. CASE PathTraces(F) = {}
    <3>1. Contenders(F) = {}
      BY <2>3 DEF Contenders
    <3> QED
      BY <2>1, <2>2, <2>3, <3>1, PathsAreFrames DEF Best
  <2>4. CASE PathTraces(F) # {}
    <3>1. /\ Contenders(F) # {} /\ Condense(best) = Condense(v.chosen)
          /\ v.chosen \in PathTraces(F) /\ best \in PathTraces(F)
      BY <2>2, <2>4, BestIsWanted
    <3> HIDE DEF best
    <3>2. PICK f \in F, g \in F : best = f.trace /\ v.chosen = g.trace
      BY <3>1 DEF PathTraces, CalledTraces
    <3>3. CallCondition(best) = CallCondition(v.chosen)
      BY <3>1, <3>2 DEF Determined
    <3> QED
      BY <2>1, <3>1, <3>3
  <2> QED
    BY <2>3, <2>4
<1> QED
  BY <1>1, <1>2, <1>3

(* In whatever order the stream's findings come, the reachability, the call *)
(* path and the called symbols of a vulnerability are those its set of      *)
(* findings determines (classifyReachability, preferCalled and              *)
(* appendCalledSink in vuln.go).                                            *)
OrderTellsNothing ==
  unread = {} =>
    \A key \in Keys :
       LET findings == {f \in stream : Known(f) /\ KeyOf(f) = key}
       IN findings # {} => LET said == Reported(merged[key]) wanted == Wanted(findings)
                           IN /\ said.reach = wanted.reach
                              /\ said.path = wanted.path
                              /\ said.symbols = wanted.symbols

THEOREM OrderTellsNothingHolds == StreamSpec => []OrderTellsNothing
<1>1. StreamInv => OrderTellsNothing
  <2> SUFFICES ASSUME StreamInv, unread = {}, NEW key \in Keys,
                      NEW F, F = {f \in stream : Known(f) /\ KeyOf(f) = key}, F # {}
               PROVE  /\ Reported(merged[key]).reach = Wanted(F).reach
                      /\ Reported(merged[key]).path = Wanted(F).path
                      /\ Reported(merged[key]).symbols = Wanted(F).symbols
    BY Zenon DEF OrderTellsNothing
  <2>1. HeardOf(key) = F /\ F \in SUBSET StreamFindings
    BY DEF HeardOf, StreamInv
  <2>2. MadeOf(F, merged[key])
    BY <2>1 DEF StreamInv
  <2> QED
    BY <2>1, <2>2, MadeIsWanted
<1> QED
  BY <1>1, StreamIsMerged, PTL

(* With the fix and the condition determined by the messages, the whole     *)
(* report of a vulnerability is (the merging of findings in vuln.go).       *)
THEOREM OrderIsForgottenHolds ==
  ASSUME Determined
  PROVE  StreamSpec => []OrderIsForgotten
<1>1. StreamInv => OrderIsForgotten
  <2> SUFFICES ASSUME StreamInv, unread = {}, NEW key \in Keys,
                      NEW F, F = {f \in stream : Known(f) /\ KeyOf(f) = key}
               PROVE  IF F = {} THEN merged[key] = NoVuln
                      ELSE Reported(merged[key]) = Wanted(F)
    BY Zenon DEF OrderIsForgotten
  <2>1. HeardOf(key) = F /\ F \in SUBSET StreamFindings
    BY DEF HeardOf, StreamInv
  <2>2. CASE F = {}
    BY <2>1, <2>2 DEF StreamInv
  <2>3. CASE F # {}
    <3>1. MadeOf(F, merged[key])
      BY <2>1, <2>3 DEF StreamInv
    <3>2. PICK v : v = merged[key]
      OBVIOUS
    <3>3. MadeOf(F, v) /\ \A f \in F : Known(f) /\ KeyOf(f) = key
      BY <3>1, <3>2
    <3>4. /\ Reported(v).reach = Wanted(F).reach
          /\ Reported(v).path = Wanted(F).path
          /\ Reported(v).symbols = Wanted(F).symbols
      BY <2>1, <2>3, <3>3, MadeIsWanted
    <3>5. Reported(v).fixed = Wanted(F).fixed /\ Reported(v).condition = Wanted(F).condition
      BY <2>1, <2>3, <3>3, MadeIsDetermined
    <3>6. Reported(v) = [reach |-> Reported(v).reach, fixed |-> Reported(v).fixed,
                         path |-> Reported(v).path, symbols |-> Reported(v).symbols,
                         condition |-> Reported(v).condition]
      BY DEF Reported
    <3>7. Wanted(F) = [reach |-> Wanted(F).reach, fixed |-> Wanted(F).fixed,
                       path |-> Wanted(F).path, symbols |-> Wanted(F).symbols,
                       condition |-> Wanted(F).condition]
      BY DEF Wanted
    <3>8. Reported(v) = Wanted(F)
      BY <3>4, <3>5, <3>6, <3>7
    <3> QED
      BY <2>3, <3>2, <3>8
  <2> QED
    BY <2>2, <2>3
<1> QED
  BY <1>1, StreamIsMerged, PTL
=============================================================================
