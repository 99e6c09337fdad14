---------------------------- MODULE ResilienceScan ----------------------------
(***************************************************************************)
(* ScanAll of the resilience scan (pkg/scanner/resilience.go): how a       *)
(* budget of version-date requests is spent over the modules of a scan.    *)
(*                                                                         *)
(* It works in three phases: workers fetch the version lists; the caller   *)
(* reserves each module's date requests, in the order of their paths; and  *)
(* workers, each with a fan-out of its own, fetch the dates.  Two          *)
(* semaphores bound the modules and the date requests in flight, and any   *)
(* worker may panic.  A module is its place in that order, a version its   *)
(* place in its module's history: 1 is the oldest.                         *)
(***************************************************************************)
EXTENDS Integers, Sequences, FiniteSets

CONSTANTS
  N,                   \* the modules
  MaxList,             \* bound: the versions of a module
  Samples,             \* maxResilienceVersionSamples
  ScanBudget,          \* maxResilienceScanInfoRequests
  ModuleConcurrency,   \* resilienceModuleConcurrency
  InfoConcurrency,     \* resilienceInfoConcurrency
  WorkerMayPanic             \* whether a worker may panic

ASSUME SizesAssumption ==
  /\ N \in Nat /\ MaxList \in Nat /\ ScanBudget \in Nat
  /\ Samples \in Nat /\ Samples >= 2
  /\ ModuleConcurrency \in Nat \ {0} /\ InfoConcurrency \in Nat \ {0}
  /\ WorkerMayPanic \in BOOLEAN

Modules == 1..N

VARIABLES
  stage,      \* "lists", "reserve", "dates", and then "returned" or "panicked"
  worker,     \* [Modules -> where the worker of the phase is]
  total,      \* [Modules -> the length of the version list, 0 when there is none]
  budget,     \* infoBudget
  reserved,   \* the modules that reserveInfoRequests was called for
  granted,    \* [Modules -> the date requests reserved]
  date,       \* [Modules -> the sequence of its date workers]
  result      \* [Modules -> what ScanAll says of it]

resilienceVars == <<stage, worker, total, budget, reserved, granted, date, result>>

NoResult == [available |-> FALSE, limited |-> FALSE, dated |-> {}, intervals |-> 0]

ResilienceInit ==
  /\ stage = "lists"
  /\ worker = [i \in Modules |-> "waiting"]
  /\ total = [i \in Modules |-> 0]
  /\ budget = ScanBudget
  /\ reserved = {}
  /\ granted = [i \in Modules |-> 0]
  /\ date = [i \in Modules |-> <<>>]
  /\ result = [i \in Modules |-> NoResult]

-----------------------------------------------------------------------------
(* runBounded: a worker for each module, few of them at once.  One that     *)
(* panics gives its slot back, and Repanic waits for all of them.           *)

Running == {i \in Modules : worker[i] \in {"working", "fetching"}}
AllEnded == \A i \in Modules : worker[i] \in {"done", "panicked"}
Panicked == \E i \in Modules : worker[i] = "panicked"

Enter(i) ==
  /\ worker[i] = "waiting" /\ Cardinality(Running) < ModuleConcurrency
  /\ worker' = [worker EXCEPT ![i] = "working"]
  /\ UNCHANGED <<stage, total, budget, reserved, granted, date, result>>

Panic(i) ==
  /\ WorkerMayPanic /\ worker[i] = "working"
  /\ worker' = [worker EXCEPT ![i] = "panicked"]
  /\ UNCHANGED <<stage, total, budget, reserved, granted, date, result>>

(* fetchVersionList: the valid versions of the proxy's list, if it answers. *)
FetchVersionList == 0..MaxList

(* Phase 1: planModule.  An empty list is no list.                          *)
PlanModule(i) ==
  /\ stage = "lists" /\ worker[i] = "working"
  /\ \E n \in FetchVersionList : total' = [total EXCEPT ![i] = n]
  /\ worker' = [worker EXCEPT ![i] = "done"]
  /\ UNCHANGED <<stage, budget, reserved, granted, date, result>>

ListsRead ==
  /\ stage = "lists" /\ AllEnded
  /\ stage' = IF Panicked THEN "panicked" ELSE "reserve"
  /\ UNCHANGED <<worker, total, budget, reserved, granted, date, result>>

-----------------------------------------------------------------------------
(* Phase 2: one module after the other, in the order of their paths.        *)

Min2(a, b) == IF a <= b THEN a ELSE b

(* sampleVersions: the newest, the oldest, then the next newest ones.  The  *)
(* oldest is only told apart when something is cut.                         *)
SampleVersions(n) ==
  IF n <= Samples THEN [k \in 1..n |-> n + 1 - k]
  ELSE [k \in 1..Samples |-> CASE k = 1 -> n [] k = 2 -> 1 [] OTHER -> n + 2 - k]

Needs(i) == Min2(total[i], Samples)

(* Mutant: the requests are reserved by the workers, as they come to it.    *)
AnyTurn(i) == i \notin reserved

(* The loop over the sorted paths.                                          *)
Turn(i) == i \notin reserved /\ \A j \in Modules : j < i => j \in reserved

ReserveInfoRequests(i) ==
  /\ stage = "reserve" /\ Turn(i)
  /\ LET n == Min2(Needs(i), budget)
     IN /\ granted' = [granted EXCEPT ![i] = n]
        /\ budget' = budget - n
  /\ reserved' = reserved \cup {i}
  /\ UNCHANGED <<stage, worker, total, date, result>>

AllReserved ==
  /\ stage = "reserve" /\ reserved = Modules
  /\ stage' = "dates"
  /\ worker' = [i \in Modules |-> "waiting"]
  /\ UNCHANGED <<total, budget, reserved, granted, date, result>>

-----------------------------------------------------------------------------
(* Phase 3: finishModule and, under it, fetchVersionTimes.                  *)

FinishModule(i) ==
  /\ stage = "dates" /\ worker[i] = "working"
  /\ IF total[i] = 0
     THEN worker' = [worker EXCEPT ![i] = "done"] /\ UNCHANGED date
     ELSE /\ worker' = [worker EXCEPT ![i] = "fetching"]
          /\ date' = [date EXCEPT ![i] = [k \in 1..granted[i] |-> "waiting"]]
  /\ UNCHANGED <<stage, total, budget, reserved, granted, result>>

Dates == {d \in Modules \X (1..Samples) : d[2] <= Len(date[d[1]])}

(* Mutant: a date worker that panics keeps its slot.                        *)
InFlightWithPanicked == {d \in Dates : date[d[1]][d[2]] \in {"fetching", "panicked"}}

(* infoSem, shared by all modules.                                          *)
InFlight == {d \in Dates : date[d[1]][d[2]] = "fetching"}

EnterDate(i, k) ==
  /\ date[i][k] = "waiting" /\ Cardinality(InFlight) < InfoConcurrency
  /\ date' = [date EXCEPT ![i][k] = "fetching"]
  /\ UNCHANGED <<stage, worker, total, budget, reserved, granted, result>>

FetchVersionTime(i, k) ==
  /\ date[i][k] = "fetching"
  /\ \E outcome \in {"dated", "undated"} \cup (IF WorkerMayPanic THEN {"panicked"} ELSE {}) :
       date' = [date EXCEPT ![i][k] = outcome]
  /\ UNCHANGED <<stage, worker, total, budget, reserved, granted, result>>

Dated(i) == {SampleVersions(total[i])[k] : k \in {k \in 1..Len(date[i]) : date[i][k] = "dated"}}

(* Mutant: a module is only limited when its sample was cut.                *)
LimitedBySample(i) == Cardinality(Dated(i)) < Needs(i) /\ total[i] > Samples

(* Fewer dates than versions: a sample, a spent budget or a failed request. *)
Limited(i) == Cardinality(Dated(i)) < total[i]

OldestFound(i) == total[i] > Samples /\ 1 \in Dated(i)

Intervals(i) ==
  IF Cardinality(Dated(i)) < 2 THEN 0
  ELSE IF Limited(i) /\ OldestFound(i) THEN total[i] - 1
  ELSE Cardinality(Dated(i)) - 1

(* Without any date there is no data, as without a list.                    *)
Report(i) ==
  IF Dated(i) = {} THEN [NoResult EXCEPT !.limited = TRUE]
  ELSE [available |-> TRUE, limited |-> Limited(i), dated |-> Dated(i), intervals |-> Intervals(i)]

Collect(i) ==
  /\ worker[i] = "fetching"
  /\ \A k \in 1..Len(date[i]) : date[i][k] \notin {"waiting", "fetching"}
  /\ IF \E k \in 1..Len(date[i]) : date[i][k] = "panicked"
     THEN worker' = [worker EXCEPT ![i] = "panicked"] /\ UNCHANGED result
     ELSE /\ worker' = [worker EXCEPT ![i] = "done"]
          /\ result' = [result EXCEPT ![i] = Report(i)]
  /\ UNCHANGED <<stage, total, budget, reserved, granted, date>>

DatesRead ==
  /\ stage = "dates" /\ AllEnded
  /\ stage' = IF Panicked THEN "panicked" ELSE "returned"
  /\ UNCHANGED <<worker, total, budget, reserved, granted, date, result>>

-----------------------------------------------------------------------------
Work(i) ==
  \/ Enter(i) \/ Panic(i) \/ PlanModule(i) \/ ReserveInfoRequests(i) \/ FinishModule(i)
  \/ \E k \in 1..Len(date[i]) : EnterDate(i, k) \/ FetchVersionTime(i, k)
  \/ Collect(i)

ResilienceNext == (\E i \in Modules : Work(i)) \/ ListsRead \/ AllReserved \/ DatesRead

ResilienceSpec == ResilienceInit /\ [][ResilienceNext]_resilienceVars

(* Every goroutine that can go on does: a request ends, by its answer or by *)
(* its timeout, and a semaphore that is free is taken.                      *)
ResilienceFairness == WF_resilienceVars(ResilienceNext)

-----------------------------------------------------------------------------
(* Properties.                                                             *)

(* "Which modules end up Limited under a spent budget therefore depends on  *)
(* the module paths alone": a module that got less than it needs has spent  *)
(* the budget, and those after it got nothing, whoever was the faster.      *)
CutByPathAlone ==
  \A i \in reserved : granted[i] < Needs(i) =>
    budget = 0 /\ \A j \in reserved : j > i => granted[j] = 0

(* A module that is not marked as limited has the date of every version; a  *)
(* marked one lacks some; one without any is never said to have data; and a *)
(* scan that returns has told each module that has a list something.        *)
WholeUnlessLimited ==
  /\ \A i \in Modules :
       result[i].available => /\ result[i].dated # {}
                              /\ result[i].limited <=> result[i].dated # 1..total[i]
  /\ stage = "returned" => \A i \in Modules :
       total[i] # 0 => result[i].available \/ result[i].limited

ResilienceEnded == stage \in {"returned", "panicked"}
=============================================================================
