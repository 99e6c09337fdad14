----------------------------- MODULE FactsStore -----------------------------
(***************************************************************************)
(* Grading stored analyses on later days over a shared facts store:        *)
(* factReader of pkg/runner/regrade_facts.go over facts.Memory, as Grade   *)
(* (regrade.go) calls it.  One advisory and one module version stand for   *)
(* all of them, since each is read and written by itself.                  *)
(*                                                                         *)
(* What matters of a severity, a known-exploited status or a maintenance   *)
(* status here is how old it is.  A reading is therefore the time at which *)
(* its source was asked; 0 is no reading (no severity published or lookup  *)
(* failed, catalog not read).  Each call of the store is one step, because *)
(* Memory holds its mutex for one call and no longer.                      *)
(***************************************************************************)
EXTENDS Naturals

CONSTANTS
  Analyses,    \* the stored analyses, all of modules with the advisory
  Graders,     \* the concurrent calls of Grade
  MaxAge,      \* Policy.Advisory and Policy.Module
  MaxTime, MaxGrades   \* bounds: the clock, the grades made

ASSUME FactsAssumption ==
  /\ MaxAge \in Nat /\ MaxTime \in Nat \ {0} /\ MaxGrades \in Nat
  /\ Analyses # {}

VARIABLES
  now,        \* the clock
  analysis,   \* the analyses; at = 0 is one that is not made yet
  advisory,   \* the store's facts.Advisory; at is FetchedAt, 0 for a miss
  status,     \* the store's facts.Module
  pc, job,    \* where a grader is; the analysis and the date it grades
  vuln,       \* the grader's clone of the finding
  put,        \* the fact the grader is about to write
  info,       \* the maintenance status the grader has
  grades,     \* the grades begun
  overlapped  \* whether two grades were under way at once

store == <<advisory, status>>
vars == <<now, analysis, store, pc, job, vuln, put, info, grades, overlapped>>

Times == 0..MaxTime
Findings == [sev : Times, kev : Times]
Facts == [at : Times, sev : Times, kev : Times]
Statuses == [at : Times, read : Times, whole : BOOLEAN]

NoFact == [at |-> 0, sev |-> 0, kev |-> 0]
NoStatus == [at |-> 0, read |-> 0, whole |-> FALSE]

TypeOK ==
  /\ now \in 1..MaxTime /\ grades \in 0..MaxGrades
  /\ analysis \in [Analyses -> Facts]
  /\ advisory \in Facts /\ status \in Statuses
  /\ pc \in [Graders -> {"idle", "apply", "read", "put", "split", "scan",
                         "store"}]
  /\ job \in [Graders -> [an : Analyses, date : Times]]
  /\ vuln \in [Graders -> Findings]
  /\ put \in [Graders -> Facts]
  /\ info \in [Graders -> Statuses]
  /\ overlapped \in BOOLEAN

Init ==
  /\ now = 1 /\ grades = 0
  /\ analysis = [a \in Analyses |-> NoFact]
  /\ advisory = NoFact /\ status = NoStatus
  /\ pc = [g \in Graders |-> "idle"]
  /\ job = [g \in Graders |-> [an |-> CHOOSE a \in Analyses : TRUE, date |-> 0]]
  /\ vuln = [g \in Graders |-> [sev |-> 0, kev |-> 0]]
  /\ put = [g \in Graders |-> NoFact]
  /\ info = [g \in Graders |-> NoStatus]
  /\ overlapped = FALSE

Goto(g, to) == pc' = [pc EXCEPT ![g] = to]
Analysed(g) == analysis[job[g].an].at

Latest(a, b) == IF a # 0 THEN a ELSE b

(* facts.Fresh: a fact from after the date is fresh.                       *)
Fresh(at, date) == at # 0 /\ date <= at + MaxAge

-----------------------------------------------------------------------------
Tick ==
  /\ now < MaxTime
  /\ now' = now + 1
  /\ UNCHANGED <<analysis, store, pc, job, vuln, put, info, grades, overlapped>>

(* Analyse learns what it can of the advisory, as of AnalysedAt.           *)
Analyse(a) ==
  /\ analysis[a] = NoFact
  /\ \E sev, kev \in {0, now} :
       analysis' = [analysis EXCEPT ![a] = [at |-> now, sev |-> sev, kev |-> kev]]
  /\ UNCHANGED <<now, store, pc, job, vuln, put, info, grades, overlapped>>

(* Grade is called for an analysis and a date; it works on a clone of the  *)
(* analysis's findings.                                                    *)
Begin(g) ==
  /\ pc[g] = "idle" /\ grades < MaxGrades
  /\ grades' = grades + 1
  /\ overlapped' = (overlapped \/ \E h \in Graders : pc[h] # "idle")
  /\ \E a \in Analyses, d \in 1..now :
       /\ analysis[a] # NoFact
       /\ job' = [job EXCEPT ![g] = [an |-> a, date |-> d]]
       /\ vuln' = [vuln EXCEPT ![g] =
                     [sev |-> analysis[a].sev, kev |-> analysis[a].kev]]
  /\ Goto(g, "apply")
  /\ UNCHANGED <<now, analysis, store, put, info>>

\* Mutant: a fact older than the analysis replaces its values too.
AppliesAnyFact(g) == Fresh(advisory.at, job[g].date)

(* Whether the store's fact replaces what the analysis knows.              *)
Applies(g) == Fresh(advisory.at, job[g].date) /\ advisory.at > Analysed(g)

(* applyAdvisories.                                                        *)
ApplyAdvisories(g) ==
  LET v == IF Applies(g)
           THEN [sev |-> Latest(advisory.sev, vuln[g].sev),
                 kev |-> Latest(advisory.kev, vuln[g].kev)]
           ELSE vuln[g]
  IN /\ pc[g] = "apply"
     /\ vuln' = [vuln EXCEPT ![g] = v]
     /\ Goto(g, "read")
     /\ UNCHANGED <<now, analysis, store, job, put, info, grades, overlapped>>

\* Mutant: the store's fact is not looked at before it is written.
ReadAdvisoryBlind(g) ==
  /\ pc[g] = "read"
  /\ put' = [put EXCEPT ![g] = [at |-> Analysed(g),
                sev |-> Latest(vuln[g].sev, advisory.sev),
                kev |-> Latest(vuln[g].kev, advisory.kev)]]
  /\ Goto(g, "put")
  /\ UNCHANGED <<now, analysis, store, job, vuln, info, grades, overlapped>>

\* Mutant: what the analysis could not learn is stored as not known.
ReadAdvisoryForgets(g) ==
  /\ pc[g] = "read"
  /\ IF advisory.at >= Analysed(g)
     THEN Goto(g, "split") /\ UNCHANGED put
     ELSE /\ put' = [put EXCEPT ![g] = [at |-> Analysed(g),
                       sev |-> vuln[g].sev, kev |-> vuln[g].kev]]
          /\ Goto(g, "put")
  /\ UNCHANGED <<now, analysis, store, job, vuln, info, grades, overlapped>>

(* storeAdvisories looks first: it leaves a fact as new as the analysis    *)
(* alone, and takes from an older one what the analysis could not learn.   *)
ReadAdvisory(g) ==
  /\ pc[g] = "read"
  /\ IF advisory.at >= Analysed(g)
     THEN Goto(g, "split") /\ UNCHANGED put
     ELSE /\ put' = [put EXCEPT ![g] = [at |-> Analysed(g),
                       sev |-> Latest(vuln[g].sev, advisory.sev),
                       kev |-> Latest(vuln[g].kev, advisory.kev)]]
          /\ Goto(g, "put")
  /\ UNCHANGED <<now, analysis, store, job, vuln, info, grades, overlapped>>

PutAdvisory(g) ==
  /\ pc[g] = "put"
  /\ advisory' = put[g]
  /\ put' = [put EXCEPT ![g] = NoFact]
  /\ Goto(g, "split")
  /\ UNCHANGED <<now, analysis, status, job, vuln, info, grades, overlapped>>

(* splitModules: a fresh status is used, any other is looked up.           *)
SplitModules(g) ==
  /\ pc[g] = "split"
  /\ IF Fresh(status.at, job[g].date)
     THEN info' = [info EXCEPT ![g] = status] /\ Goto(g, "idle")
     ELSE UNCHANGED info /\ Goto(g, "scan")
  /\ UNCHANGED <<now, analysis, store, job, vuln, put, grades, overlapped>>

(* The maintenance and archived-flag scans, which may leave something      *)
(* unread.                                                                 *)
ScanModules(g) ==
  /\ pc[g] = "scan"
  /\ \E whole \in BOOLEAN :
       info' = [info EXCEPT ![g] = [at |-> job[g].date, read |-> now,
                                    whole |-> whole]]
  /\ Goto(g, "store")
  /\ UNCHANGED <<now, analysis, store, job, vuln, put, grades, overlapped>>

\* Mutant: an answer with parts missing is stored too.
StoreModulesAnyway(g) ==
  /\ pc[g] = "store"
  /\ status' = info[g]
  /\ Goto(g, "idle")
  /\ UNCHANGED <<now, analysis, advisory, job, vuln, put, info, grades,
                 overlapped>>

(* putModule: only whole answers, under the date of the grade.             *)
StoreModules(g) ==
  /\ pc[g] = "store"
  /\ status' = IF info[g].whole THEN info[g] ELSE status
  /\ Goto(g, "idle")
  /\ UNCHANGED <<now, analysis, advisory, job, vuln, put, info, grades,
                 overlapped>>

Grader(g) ==
  \/ Begin(g) \/ ApplyAdvisories(g) \/ ReadAdvisory(g) \/ PutAdvisory(g)
  \/ SplitModules(g) \/ ScanModules(g) \/ StoreModules(g)

Next ==
  \/ Tick
  \/ \E a \in Analyses : Analyse(a)
  \/ \E g \in Graders : Grader(g)

Spec == Init /\ [][Next]_vars

-----------------------------------------------------------------------------
(* "Unless the store already has something newer": a fact is never replaced*)
(* by an older one (storeAdvisories, regrade_facts.go:128-129), however    *)
(* grades overlap.                                                         *)
NewerFactStays == [][advisory'.at >= advisory.at]_vars

(* The same as long as no two grades have overlapped, whatever the analyses*)
(* failed to learn.                                                        *)
NewerFactStaysAlone == [][~overlapped' => advisory'.at >= advisory.at]_vars

(* "What the analysis could not learn is not forgotten" (regrade_facts.go: *)
(* 151): while grades do not overlap, the store never goes back to an older*)
(* reading of the severity or the known-exploited status, nor to none.     *)
NothingForgotten ==
  [][~overlapped' => /\ advisory'.sev >= advisory.sev
                     /\ advisory'.kev >= advisory.kev]_vars

(* Every analysis that was made learned everything.                        *)
WholeAnalyses == \A a \in Analyses :
  analysis[a].sev = analysis[a].at /\ analysis[a].kev = analysis[a].at

(* "The analysis keeps what it learned when it was made, and the store what*)
(* was learned since" (regrade_facts.go:104-105): while analyses learn     *)
(* everything, a grade never uses a reading older than its analysis's own, *)
(* however grades overlap.                                                 *)
OwnReadingKept ==
  WholeAnalyses => \A g \in Graders : pc[g] \notin {"idle", "apply"} =>
    /\ vuln[g].sev >= analysis[job[g].an].sev
    /\ vuln[g].kev >= analysis[job[g].an].kev

(* A status a grade takes from the store was complete, and read no longer  *)
(* before the grade's date than the policy allows: neither the label of a  *)
(* re-grade of an earlier day nor another grade's half answer passes for   *)
(* more than it is (putModule, splitModules).                              *)
StatusFreshAndWhole ==
  [][\A g \in Graders : pc[g] = "split" /\ pc'[g] = "idle" =>
       info'[g].whole /\ job[g].date <= info'[g].read + MaxAge]_vars

-----------------------------------------------------------------------------
(* Inductive strengthenings, for the proofs in FactsProofs.           *)

Own(g) == /\ vuln[g].sev = analysis[job[g].an].sev
          /\ vuln[g].kev = analysis[job[g].an].kev

(* What overlapping grades keep when every analysis learned everything: a  *)
(* fact holds no reading older than its date, and a grade none older than  *)
(* its analysis.                                                           *)
Complete ==
  /\ \A a \in Analyses : analysis[a].at = 0 => analysis[a] = NoFact
  /\ \A g \in Graders : pc[g] # "idle" => Analysed(g) # 0
  /\ WholeAnalyses =>
       /\ advisory.sev >= advisory.at /\ advisory.kev >= advisory.at
       /\ \A g \in Graders :
            /\ put[g].sev >= put[g].at /\ put[g].kev >= put[g].at
            /\ pc[g] # "idle" => /\ vuln[g].sev >= Analysed(g)
                                 /\ vuln[g].kev >= Analysed(g)

(* What grades that do not overlap keep: a fact holds no reading newer than*)
(* its date, and the one about to be written is newer than the store's and *)
(* knows all it knows.                                                     *)
OneAtATime ==
  /\ \A a \in Analyses : /\ analysis[a].sev \in {0, analysis[a].at}
                          /\ analysis[a].kev \in {0, analysis[a].at}
  /\ \A g \in Graders : pc[g] # "idle" => Analysed(g) # 0
  /\ ~overlapped =>
       /\ \A g, h \in Graders : pc[g] # "idle" /\ pc[h] # "idle" => g = h
       /\ advisory.sev <= advisory.at /\ advisory.kev <= advisory.at
       /\ \A g \in Graders :
            /\ pc[g] = "apply" => Own(g)
            /\ pc[g] = "read" => advisory.at > Analysed(g) \/ Own(g)
            /\ pc[g] = "put" =>
                 /\ put[g].at > advisory.at
                 /\ advisory.sev <= put[g].sev /\ put[g].sev <= put[g].at
                 /\ advisory.kev <= put[g].kev /\ put[g].kev <= put[g].at

(* What is stored of a module was complete and is labelled with no date    *)
(* after the one it was read on, and so is what a grader holds.            *)
HonestLabels ==
  /\ status.at <= status.read /\ (status.at # 0 => status.whole)
  /\ \A g \in Graders : job[g].date <= now /\ info[g].at <= info[g].read
=============================================================================
