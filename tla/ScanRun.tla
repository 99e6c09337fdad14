------------------------------- MODULE ScanRun -------------------------------
(***************************************************************************)
(* One run of unisupply, from the command line to its exit code:           *)
(* runner.Run (analyse, then gradeAnalysis) under a context that may end,  *)
(* by a deadline or a signal, between any two steps, and a panic in any of *)
(* them.                                                                   *)
(*                                                                         *)
(* A stage is one step, cut if it needed an answer after the context had   *)
(* ended; where the code asks for the context's error after something      *)
(* failed, the failure and the question are two steps.  Findings, scores   *)
(* and the report's contents are left out: a grade is the check it is      *)
(* Pending on, or a letter.                                                *)
(***************************************************************************)
EXTENDS Naturals

VARIABLES
  conf,      \* the module and the options
  ctx,       \* "live", or why the context ended
  pc,
  probe,     \* what the token probe was told, "cut" if nothing in time
  verify,    \* how go mod verify ended, "killed" with the context
  checksum,  \* what the report says of go.sum
  level,     \* the govulncheck pass whose findings the analysis has
  cause,     \* how govulncheck ended, "cut" with the context
  err,       \* the vulnerability scan's failure
  needed,    \* the called pass could change the letter
  scanned, stopped, interrupted,  \* VulnScan.Scanned, both Interrupted flags
  failed,    \* the stages without the answer that the grade asks for
  cut,       \* the stages without one because the context had ended
  pending,   \* the check the grade is Pending on, or "none" for a letter
  status,
  policy,    \* the policy in force, once it is loaded
  exit

analysis == <<probe, verify, checksum, level, cause, err, needed, scanned, stopped>>
lookups == <<failed, cut>>
outcome == <<interrupted, pending, status, policy, exit>>
vars == <<conf, ctx, pc, analysis, lookups, outcome>>

ScanErrors == {"permanent", "transient", "scan_deadline", "unknown"}
Graded == {"severity", "catalog", "maintenance", "status", "advisories"}
Stages == Graded \cup {"resolve", "verify", "scan", "extras"}
PendingChecks == {"vulnerability_scan", "scan_incomplete", "called_pass",
                  "checksum", "known_exploited", "module_status",
                  "module_advisories", "dependency_maintenance",
                  "severity_lookup", "none"}
Policies == {"none", "max_grade", "allow_pending"}
Analysing == {"start", "resolve", "probe", "probed", "verify", "verified",
              "scan", "pass", "passed", "enrich", "decide", "end"}
Grading == {"maintenance", "extras", "interrupt", "status", "advisories", "grade"}
PCs == Analysing \cup Grading \cup {"report", "policy", "code", "exit"}
Contexts == {"live", "deadline", "canceled"}
Probed == {"none", "good", "bad", "unsure", "cut"}
Verified == {"none", "ok", "mismatch", "killed", "not run"}
Checksums == {"none", "true", "false", "skipped", "offline"}
Levels == {"none", "package", "symbol"}
Causes == {"none", "ok", "permanent", "network", "cut"}
Errors == ScanErrors \cup {"none", "offline"}
Statuses == {"none", "complete", "pending", "interrupted", "failed"}
Confs == [deps : BOOLEAN, versioned : BOOLEAN, gradeStdlib : BOOLEAN,
          offline : BOOLEAN, require : BOOLEAN, token : BOOLEAN,
          mode : {"auto", "always", "never"}]

TypeOK ==
  /\ conf \in Confs /\ ctx \in Contexts /\ pc \in PCs
  /\ probe \in Probed /\ verify \in Verified /\ checksum \in Checksums
  /\ level \in Levels /\ cause \in Causes /\ err \in Errors
  /\ needed \in BOOLEAN /\ scanned \in BOOLEAN
  /\ stopped \in BOOLEAN /\ interrupted \in BOOLEAN
  /\ failed \subseteq Graded /\ cut \subseteq Stages
  /\ pending \in PendingChecks /\ status \in Statuses
  /\ policy \in Policies
  /\ exit \in 0..5
  /\ pc = "exit" <=> exit # 5

Init ==
  /\ conf \in Confs
  /\ ctx = "live" /\ pc = "start"
  /\ probe = "none" /\ verify = "none" /\ checksum = "none"
  /\ level = "none" /\ cause = "none" /\ err = "none"
  /\ needed = FALSE /\ scanned = FALSE /\ stopped = FALSE
  /\ interrupted = FALSE
  /\ failed = {} /\ cut = {}
  /\ pending = "none" /\ status = "none" /\ policy = "none"
  /\ exit = 5   \* not yet

Ended == ctx # "live"

Goto(to) == pc' = to /\ UNCHANGED exit
Exit(code) == pc' = "exit" /\ exit' = code

Unanswered(stages) ==
  /\ failed' = failed \cup (stages \cap Graded)
  /\ cut' = IF Ended THEN cut \cup stages ELSE cut

(* A stage that may have something to ask, and goes on whether or not it   *)
(* was answered.                                                           *)
Asks(stage) == UNCHANGED lookups \/ Unanswered({stage})

-----------------------------------------------------------------------------
(* The context ends: a signal, or the caller's deadline.                   *)
Cancel(why) ==
  /\ pc # "exit" /\ ctx = "live"
  /\ ctx' = why
  /\ UNCHANGED <<conf, pc, analysis, lookups, outcome>>

(* A panic, on Run's goroutine or carried over from a worker, or a Trust   *)
(* Index URL that is refused: no Result.                                   *)
Panics ==
  /\ pc \in Analysing \cup Grading
  /\ Exit(1)
  /\ UNCHANGED <<conf, ctx, analysis, lookups, interrupted, pending, status, policy>>

-----------------------------------------------------------------------------
(* The token precondition's offline half, and a go.mod that can be read.   *)
Start ==
  /\ pc = "start"
  /\ \/ conf.require /\ ~conf.token /\ Exit(3)
     \/ ~(conf.require /\ ~conf.token) /\ (Exit(1) \/ Goto("resolve"))
  /\ UNCHANGED <<conf, ctx, analysis, lookups, interrupted, pending, status, policy>>

ProbesToken == conf.deps \/ conf.require \/ conf.versioned

Scans == IF conf.deps THEN "verify" ELSE "scan"

(* Resolve falls back on go.mod when the go command does not answer.       *)
Resolve ==
  /\ pc = "resolve"
  /\ Asks("resolve")
  /\ Goto(IF ProbesToken /\ conf.token /\ ~conf.offline THEN "probe" ELSE Scans)
  /\ UNCHANGED <<conf, ctx, analysis, interrupted, pending, status, policy>>

ProbeAnswers ==
  /\ pc = "probe"
  /\ probe' \in IF Ended THEN {"cut"} ELSE {"good", "bad", "unsure"}
  /\ Goto("probed")
  /\ UNCHANGED <<conf, ctx, verify, checksum, level, cause, err, needed, scanned,
                 stopped, lookups, interrupted, pending, status, policy>>

(* checkGitHubToken looks at the context first.  A token that passes is    *)
(* not thought of again.                                                   *)
ProbeDecides ==
  /\ pc = "probed"
  /\ CASE Ended -> Exit(1) /\ UNCHANGED probe
       [] ~Ended /\ conf.require /\ probe # "good" -> Exit(3) /\ UNCHANGED probe
       [] OTHER -> Goto(Scans) /\ probe' = "none"
  /\ UNCHANGED <<conf, ctx, verify, checksum, level, cause, err, needed, scanned,
                 stopped, lookups, interrupted, pending, status, policy>>

Verify ==
  /\ pc = "verify"
  /\ verify' \in CASE conf.offline -> {"not run"}
                   [] ~conf.offline /\ Ended -> {"killed", "not run"}
                   [] OTHER -> {"ok", "mismatch", "not run"}
  /\ Goto("verified")
  /\ IF verify' = "killed" THEN Unanswered({"verify"}) ELSE UNCHANGED lookups
  /\ UNCHANGED <<conf, ctx, probe, checksum, level, cause, err, needed, scanned,
                 stopped, interrupted, pending, status, policy>>

(* A go command that fails after the context has ended says nothing about  *)
(* the checksums, whatever it printed.                                     *)
Checksum ==
  IF conf.offline THEN "offline"
  ELSE CASE verify = "ok" -> "true"
         [] verify = "mismatch" /\ ~Ended -> "false"
         [] OTHER -> "skipped"

VerifyDecides ==
  /\ pc = "verified"
  /\ checksum' = Checksum
  /\ Goto("scan")
  /\ UNCHANGED <<conf, ctx, probe, verify, level, cause, err, needed, scanned,
                 stopped, lookups, interrupted, pending, status, policy>>

-----------------------------------------------------------------------------
(* ScanVulnsWithOptions: no scan offline, none of code that needs a newer  *)
(* Go, else the pass its mode begins with.                                 *)
StartScan ==
  /\ pc = "scan"
  /\ \/ /\ conf.offline /\ err' = "offline"
        /\ Goto("end") /\ UNCHANGED level
     \/ /\ ~conf.offline /\ ~Ended /\ err' = "permanent"
        /\ Goto("end") /\ UNCHANGED level
     \/ /\ ~conf.offline
        /\ level' = IF conf.mode = "always" THEN "symbol" ELSE "package"
        /\ Goto("pass") /\ UNCHANGED err
  /\ UNCHANGED <<conf, ctx, probe, verify, checksum, cause, needed, scanned,
                 stopped, lookups, interrupted, pending, status, policy>>

(* govulncheck returns: with the whole output, or with a failure that is   *)
(* the module's, the network's, or that of the context.                    *)
Govulncheck ==
  /\ pc = "pass"
  /\ cause' \in IF Ended THEN {"permanent", "cut"}
                ELSE {"ok", "permanent", "network"}
  /\ IF cause' = "cut" THEN Unanswered({"scan"}) ELSE UNCHANGED lookups
  /\ Goto("passed")
  /\ UNCHANGED <<conf, ctx, probe, verify, checksum, level, err, needed, scanned,
                 stopped, interrupted, pending, status, policy>>

\* Mutant: the rules for network failures apply after the context ended too.
ClassifyAnyway(c) ==
  CASE c = "ok" -> "none"
    [] c = "permanent" -> "permanent"
    [] OTHER -> "transient"

(* classifyScanFailure: once the context has ended, a failure that looks   *)
(* like the network's is the scan's own limit, or nobody's fault.          *)
Classify(c) ==
  CASE c = "ok" -> "none"
    [] c = "permanent" -> "permanent"
    [] c \in {"network", "cut"} /\ ctx = "live" -> "transient"
    [] c \in {"network", "cut"} /\ ctx = "deadline" -> "scan_deadline"
    [] OTHER -> "unknown"

(* A failed pass may have printed something, which is enriched, too.       *)
Parse ==
  /\ pc = "passed"
  /\ err' = Classify(cause)
  /\ \/ Goto("enrich")
     \/ cause # "ok" /\ Goto("end")
  /\ UNCHANGED <<conf, ctx, probe, verify, checksum, level, cause, needed, scanned,
                 stopped, lookups, interrupted, pending, status, policy>>

(* Severities, and the known-exploited catalog; the second pass asks again.*)
Enrich ==
  /\ pc = "enrich"
  /\ \E lost \in SUBSET {"severity", "catalog"} :
       /\ failed' = (failed \ {"severity", "catalog"}) \cup lost
       /\ cut' = (cut \ {"severity", "catalog"}) \cup (IF Ended THEN lost ELSE {})
  /\ Goto("decide")
  /\ UNCHANGED <<conf, ctx, analysis, interrupted, pending, status, policy>>

(* The called pass runs after the imported one if it can change the letter,*)
(* and replaces it; a pass that failed is a scan that failed.              *)
Decide ==
  /\ pc = "decide"
  /\ \/ /\ err # "none" \/ conf.mode # "auto" \/ level = "symbol"
        /\ scanned' = (err = "none")
        /\ Goto("end") /\ UNCHANGED <<level, needed>>
     \/ /\ err = "none" /\ conf.mode = "auto" /\ level = "package"
        /\ needed' \in BOOLEAN
        /\ scanned' = ~needed'
        /\ IF needed' THEN level' = "symbol" /\ Goto("pass")
           ELSE UNCHANGED level /\ Goto("end")
  /\ UNCHANGED <<conf, ctx, probe, verify, checksum, cause, err, stopped, lookups,
                 interrupted, pending, status, policy>>

(* The analysis notes whether its context has ended, if the module has     *)
(* dependencies.                                                           *)
EndAnalysis ==
  /\ pc = "end"
  /\ stopped' = (conf.deps /\ Ended)
  /\ Goto(IF conf.deps THEN "maintenance" ELSE "status")
  /\ UNCHANGED <<conf, ctx, probe, verify, checksum, level, cause, err, needed,
                 scanned, lookups, interrupted, pending, status, policy>>

-----------------------------------------------------------------------------
(* The maintenance, maintainer and archived-flag scans; then the activity, *)
(* resilience and Trust Index lookups.                                     *)
Maintenance ==
  /\ pc = "maintenance"
  /\ Asks("maintenance") /\ Goto("extras")
  /\ UNCHANGED <<conf, ctx, analysis, interrupted, pending, status, policy>>

Extras ==
  /\ pc = "extras"
  /\ Asks("extras") /\ Goto("interrupt")
  /\ UNCHANGED <<conf, ctx, analysis, interrupted, pending, status, policy>>

\* Mutant: the grade takes the analysis's word for it.
WasInterruptedEarlier == stopped
WasInterrupted == stopped \/ Ended

ReadInterrupted ==
  /\ pc = "interrupt"
  /\ interrupted' = WasInterrupted
  /\ Goto("status")
  /\ UNCHANGED <<conf, ctx, analysis, lookups, pending, status, policy>>

(* assessSelf: the module's own status and its own advisories.             *)
SelfStatus ==
  /\ pc = "status"
  /\ IF conf.versioned THEN Asks("status") /\ Goto("advisories")
     ELSE UNCHANGED lookups /\ Goto("grade")
  /\ UNCHANGED <<conf, ctx, analysis, interrupted, pending, status, policy>>

SelfAdvisories ==
  /\ pc = "advisories"
  /\ \/ Asks("advisories")
     \/ \E lost \in SUBSET {"severity", "catalog"} : Unanswered(lost)
  /\ Goto("grade")
  /\ UNCHANGED <<conf, ctx, analysis, interrupted, pending, status, policy>>

(* The checks that lack an answer, and that the grade is Pending on only if*)
(* the answer could still change the letter.                               *)
MayMatter ==
  (IF checksum = "skipped" THEN {"checksum"} ELSE {})
  \cup (IF "catalog" \in failed THEN {"known_exploited"} ELSE {})
  \cup (IF "status" \in failed THEN {"module_status"} ELSE {})
  \cup (IF scanned /\ level = "package" /\ conf.mode = "auto"
        THEN {"called_pass"} ELSE {})

MayMatterLast ==
  (IF "maintenance" \in failed THEN {"dependency_maintenance"} ELSE {})
  \cup (IF "severity" \in failed THEN {"severity_lookup"} ELSE {})

(* pendingFor, then severityLookupPending.                                 *)
PendingOn ==
  IF err # "none" /\ (conf.deps \/ conf.gradeStdlib) THEN {"vulnerability_scan"}
  ELSE IF interrupted THEN {"scan_incomplete"}
  ELSE IF "advisories" \in failed THEN MayMatter \cup {"module_advisories"}
  ELSE MayMatter \cup MayMatterLast \cup {"none"}

(* scanStatusOf: a scan that offline mode skipped has not failed.          *)
StatusOf(i, e, p) ==
  IF i \/ e = "scan_deadline" \/ p = "scan_incomplete" THEN "interrupted"
  ELSE IF e \in ScanErrors THEN "failed"
  ELSE IF p # "none" THEN "pending" ELSE "complete"

Grade ==
  /\ pc = "grade"
  /\ pending' \in PendingOn
  /\ status' = StatusOf(interrupted, err, pending')
  /\ Goto("report")
  /\ UNCHANGED <<conf, ctx, analysis, lookups, interrupted, policy>>

-----------------------------------------------------------------------------
NoReport == ~conf.deps /\ ~conf.versioned

\* Mutant: nothing to report, nothing to check.
ReportOrReturn ==
  /\ pc = "report"
  /\ IF NoReport THEN Exit(0) ELSE Goto("policy") \/ Exit(1)
  /\ UNCHANGED <<conf, ctx, analysis, lookups, interrupted, pending, status, policy>>

(* The files are written, if they can be: the analysis, and a report unless*)
(* there is nothing to report.                                             *)
Report ==
  /\ pc = "report"
  /\ Goto("policy") \/ Exit(1)
  /\ UNCHANGED <<conf, ctx, analysis, lookups, interrupted, pending, status, policy>>

(* A Pending grade violates max_grade unless allow_pending is set; a letter*)
(* or another rule may, too, and the policy may be unreadable.             *)
Policy ==
  /\ pc = "policy"
  /\ policy' \in Policies
  /\ \/ policy' # "none" /\ (Exit(2) \/ Exit(1))
     \/ ~(policy' = "max_grade" /\ pending # "none") /\ Goto("code")
  /\ UNCHANGED <<conf, ctx, analysis, lookups, interrupted, pending, status>>

ExitCode ==
  /\ pc = "code"
  /\ Exit(IF status \in {"failed", "interrupted"} THEN 4 ELSE 0)
  /\ UNCHANGED <<conf, ctx, analysis, lookups, interrupted, pending, status, policy>>

Next ==
  \/ \E why \in {"deadline", "canceled"} : Cancel(why)
  \/ Panics
  \/ Start \/ Resolve \/ ProbeAnswers \/ ProbeDecides \/ Verify \/ VerifyDecides
  \/ StartScan \/ Govulncheck \/ Parse \/ Enrich \/ Decide \/ EndAnalysis
  \/ Maintenance \/ Extras \/ ReadInterrupted \/ SelfStatus \/ SelfAdvisories
  \/ Grade \/ Report \/ Policy \/ ExitCode

Spec == Init /\ [][Next]_vars

-----------------------------------------------------------------------------
(* "Only Status "complete" means the result is whole" (status.go:17-18):   *)
(* the vulnerability scan ran to the end, with the called pass if that     *)
(* could change the letter; and of a module with dependencies no checksum  *)
(* mismatch was lost, and no stage was cut short by the context but        *)
(* lookups whose answer the grade did not need.  Offline, a module without *)
(* dependencies is not scanned.                                            *)
CompleteMeansWhole ==
  status = "complete" =>
    /\ scanned \/ (conf.offline /\ ~conf.deps /\ ~conf.gradeStdlib)
    /\ needed => level = "symbol"
    /\ conf.deps => /\ verify = "mismatch" => checksum = "false"
                    /\ cut \subseteq {"severity", "catalog", "status"}

(* Nothing is blamed for what the context did: "an interrupted run is not  *)
(* blamed on the token" (githubtoken.go:52-53), and once the context has   *)
(* ended a timeout "is the scan's own limit and not a network fault"       *)
(* (scanerror.go:198-199), so a retry is suggested for network faults only.*)
NothingBlamedForTheCut ==
  /\ exit = 3 => ~conf.token \/ probe \in {"bad", "unsure"}
  /\ err = "transient" => cause = "network"
  /\ err = "scan_deadline" => ctx = "deadline"

(* "A gate must not pass because there was nothing to look at" (main.go):  *)
(* exit code 0 means that the vulnerability scan did not fail and nothing  *)
(* cut the scan short, and under a policy that wants a letter that there   *)
(* is one, for a module without a report, too.                             *)
ExitTellsTheTruth ==
  exit = 0 => /\ err \in {"none", "offline"} /\ ~interrupted
              /\ policy = "max_grade" => pending = "none"
=============================================================================
