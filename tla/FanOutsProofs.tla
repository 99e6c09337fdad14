--------------------------- MODULE FanOutsProofs ---------------------------
(***************************************************************************)
(* Proofs about the fan-outs of a scan.  MaintainerScan, for any modules,  *)
(* names and renames and any size of the semaphore:                        *)
(*   - the fan-outs use the repository cache as OnceCache says, so that    *)
(*     what is proved of the cache holds of them;                          *)
(*   - a worker's panic reaches the caller;                                *)
(*   - the modules of one name of a repository are told one answer by both *)
(*     fan-outs.                                                           *)
(* ResilienceScan, for any number of modules, lengths of version lists,    *)
(* samples, budget and concurrency:                                        *)
(*   - the budget is spent along the paths;                                *)
(*   - a history that is not whole is said to be limited.                  *)
(* ResponseHistory, for any histories, numbers of releases, fixes, pages   *)
(* and samples, budget and concurrency:                                    *)
(*   - whatever failed, no module looks faster than it was.                *)
(***************************************************************************)
EXTENDS MaintainerScan, ResilienceScan, ResponseHistory, FiniteSetTheorems, SequenceTheorems,
        WellFoundedInduction, TLAPS

-----------------------------------------------------------------------------
(* The maintainer scan.                                                    *)

Cache == INSTANCE OnceCacheProofs WITH
  Calls <- Jobs, pc <- opc, Ctxs <- {Scan}, CtxOf <- [j \in Jobs |-> Scan]

(* The cache's assumptions follow from the scan's.                         *)
LEMMA CacheAssumption == Cache!OnceAssumption
BY ScanAssumption DEF KeyOf

(* The steps of a worker around its calls of the cache.                    *)
LEMMA WorkerSteps ==
  ASSUME [Next]_vars
  PROVE  \/ \E j \in Jobs : Meta(j)
         \/ CancelScan
         \/ UNCHANGED onceVars
BY DEF Next, Worker, Acquire, Look, Lock, Relook, MetaReturns, Enrich, Unwind,
       Release, Recover, WgDone, WaitAndRepanic, vars, onceVars

(* A step of the scan is a step of the cache or leaves it alone.           *)
LEMMA CacheStep == [Next]_vars => [Cache!Next]_(Cache!vars)
<1> SUFFICES ASSUME [Next]_vars PROVE [Cache!Next]_(Cache!vars)
  OBVIOUS
<1>1. ASSUME NEW j \in Jobs, Meta(j) PROVE Cache!Next
  <2>1. Cache!Step(j)
    BY <1>1 DEF Meta, Once!Step, Cache!Step, Once!Join, Cache!Join, Once!Lead,
       Cache!Lead, Once!FnReturns, Cache!FnReturns, Once!FnPanics,
       Cache!FnPanics, Once!Settle, Cache!Settle, Once!Close, Cache!Close,
       Once!WaitEnds, Cache!WaitEnds, Once!Return, Cache!Return, Once!Forgets,
       Cache!Forgets, Once!Cancelled, Cache!Cancelled, Once!Result,
       Cache!Result, Once!ValueOf, Cache!ValueOf, Once!Finished,
       Cache!Finished, Once!Answers, Cache!Answers
  <2> QED
    BY <2>1 DEF Cache!Next
<1>2. CASE CancelScan
  BY <1>2 DEF CancelScan, Once!Cancel, Cache!Cancel, Cache!Next
<1>3. CASE UNCHANGED onceVars
  BY <1>3 DEF onceVars, Cache!vars
<1> QED
  BY <1>1, <1>2, <1>3, WorkerSteps

(* Both fan-outs together use the repository cache as OnceCache's callers  *)
(* do: however workers queue for slots and mutexes, are cancelled or are   *)
(* unwound by a panic, the scan implements the cache's specification.      *)
THEOREM ScanUsesTheCache == Spec => Cache!Spec
<1>1. Init => Cache!Init
  BY DEF Init, Once!Init, Cache!Init
<1> QED
  BY <1>1, CacheStep, PTL DEF Spec, Cache!Spec

-----------------------------------------------------------------------------
WorkerPCs == {"new", "look", "lock", "relook", "meta", "enrich", "release",
              "recover", "wgdone", "done"}
Answered == {"none", "ok", "gone", "failed"}

TypeOK ==
  /\ phase \in {"maintainers", "archived", "finished", "panicked"}
  /\ wpc \in [Jobs -> WorkerPCs]
  /\ repoLock \in [Names -> Jobs \cup {None}]
  /\ cache \in [Names -> Answered] /\ info \in [Jobs -> Answered]
  /\ asked \subseteq Jobs /\ panicking \subseteq Jobs
  /\ first \in Jobs \cup {None}

(* Workers run in their own fan-out only, and only the maintainer scan's   *)
(* look in ms.cache.                                                       *)
InPhase ==
  /\ \A j \in Jobs : wpc[j] \notin {"new", "done"} => phase = PhaseOf[j]
  /\ \A j \in Jobs : wpc[j] \in {"look", "lock", "relook", "enrich"} =>
                       PhaseOf[j] = "maintainers"

(* A call of repoMeta hands over a value of its type.                      *)
LEMMA ResultTyped ==
  ASSUME Cache!IInv, NEW j \in Jobs PROVE Once!Result(j) \in Answered
BY CacheAssumption
DEF Cache!IInv, Cache!TypeOK, Cache!Answers, Cache!Entries, Once!Result,
    Once!ValueOf, Answered

(* The state of the fan-outs keeps its types, and workers their fan-out.   *)
LEMMA ScanTypedStep ==
  ASSUME TypeOK, InPhase, Cache!IInv, [Next]_vars PROVE TypeOK' /\ InPhase'
<1> USE ScanAssumption DEF TypeOK, InPhase, WorkerPCs, Answered, Goto, Unlock,
        workerVars
<1>1. ASSUME NEW j \in Jobs, Acquire(j) PROVE TypeOK' /\ InPhase'
  BY <1>1 DEF Acquire
<1>2. ASSUME NEW j \in Jobs, Look(j) PROVE TypeOK' /\ InPhase'
  BY <1>2 DEF Look
<1>3. ASSUME NEW j \in Jobs, Lock(j) PROVE TypeOK' /\ InPhase'
  BY <1>3 DEF Lock
<1>4. ASSUME NEW j \in Jobs, Relook(j) PROVE TypeOK' /\ InPhase'
  BY <1>4 DEF Relook
<1>5. ASSUME NEW j \in Jobs, Meta(j) PROVE TypeOK' /\ InPhase'
  BY <1>5 DEF Meta
<1>6. ASSUME NEW j \in Jobs, MetaReturns(j) PROVE TypeOK' /\ InPhase'
  <2>1. Once!Result(j) \in Answered
    BY ResultTyped
  <2> QED
    BY <1>6, <2>1 DEF MetaReturns
<1>7. ASSUME NEW j \in Jobs, Enrich(j) PROVE TypeOK' /\ InPhase'
  BY <1>7 DEF Enrich
<1>8. ASSUME NEW j \in Jobs, Unwind(j) PROVE TypeOK' /\ InPhase'
  BY <1>8 DEF Unwind
<1>9. ASSUME NEW j \in Jobs, Release(j) \/ Recover(j) \/ WgDone(j)
      PROVE  TypeOK' /\ InPhase'
  BY <1>9 DEF Release, Recover, WgDone
<1>10. CASE WaitAndRepanic
  BY <1>10 DEF WaitAndRepanic, AllDone
<1>11. CASE CancelScan
  BY <1>11 DEF CancelScan
<1>12. CASE UNCHANGED vars
  BY <1>12 DEF vars
<1> QED
  BY <1>1, <1>2, <1>3, <1>4, <1>5, <1>6, <1>7, <1>8, <1>9, <1>10, <1>11, <1>12
  DEF Next, Worker

(* The state of the fan-outs keeps its types.                              *)
THEOREM ScanTyped == Spec => [](TypeOK /\ InPhase)
<1>1. Init => TypeOK /\ InPhase
  BY ScanAssumption DEF Init, TypeOK, InPhase, WorkerPCs, Answered
<1>2. Spec => []Cache!IInv
  BY ScanUsesTheCache, Cache!Invariance, CacheAssumption, PTL
<1> QED
  BY <1>1, <1>2, ScanTypedStep, PTL DEF Spec

-----------------------------------------------------------------------------
(* A panicked worker is on its way through its deferred calls, and has left*)
(* its panic with the Catcher before wg.Done; the fan-out it belongs to is *)
(* the running one until the caller panics.                                *)
PanicsKept ==
  \A j \in panicking :
    /\ wpc[j] \in {"release", "recover", "wgdone", "done"}
    /\ wpc[j] \in {"wgdone", "done"} => first # None
    /\ phase # PhaseOf[j] => phase = "panicked"

(* Every step keeps the panics: Recover runs before wg.Done, and the caller*)
(* looks at the Catcher after every worker's wg.Done.                      *)
LEMMA PanicsKeptStep ==
  ASSUME TypeOK, InPhase, PanicsKept, [Next]_vars PROVE PanicsKept'
<1> USE ScanAssumption DEF TypeOK, InPhase, PanicsKept, WorkerPCs, Goto,
        workerVars
<1>1. ASSUME NEW j \in Jobs,
             \/ Acquire(j) \/ Look(j) \/ Lock(j) \/ Relook(j)
             \/ MetaReturns(j) \/ Enrich(j) \/ Release(j) \/ WgDone(j)
      PROVE  PanicsKept'
  BY <1>1 DEF Acquire, Look, Lock, Relook, MetaReturns, Enrich, Release, WgDone
<1>2. ASSUME NEW j \in Jobs, Unwind(j) PROVE PanicsKept'
  BY <1>2 DEF Unwind
<1>3. ASSUME NEW j \in Jobs, Recover(j) PROVE PanicsKept'
  BY <1>3 DEF Recover
<1>4. CASE WaitAndRepanic
  <2>1. \A j \in panicking : phase = PhaseOf[j] => first # None
    BY <1>4 DEF WaitAndRepanic, AllDone
  <2>2. first # None => phase' = "panicked"
    BY <1>4 DEF WaitAndRepanic
  <2>3. \A j \in panicking : phase # "panicked"
    BY <1>4 DEF WaitAndRepanic
  <2> QED
    BY <1>4, <2>1, <2>2, <2>3 DEF WaitAndRepanic
<1>5. CASE \/ \E j \in Jobs : Meta(j)
           \/ CancelScan
           \/ UNCHANGED vars
  BY <1>5 DEF Meta, CancelScan, vars
<1> QED
  BY <1>1, <1>2, <1>3, <1>4, <1>5 DEF Next, Worker

(* When a fan-out's caller goes on to the next one, or finishes, no worker *)
(* of it has panicked (safego.go:23-27).                                   *)
THEOREM PanicReachesTheCaller == Spec => []PanicReachesCaller
<1>1. Init => PanicsKept
  BY DEF Init, PanicsKept
<1>2. Spec => []PanicsKept
  BY <1>1, ScanTyped, PanicsKeptStep, PTL DEF Spec
<1>3. PanicsKept => PanicReachesCaller
  BY DEF PanicsKept, PanicReachesCaller
<1> QED
  BY <1>2, <1>3, PTL

-----------------------------------------------------------------------------
Analysing(j) == PhaseOf[j] = "maintainers" /\ wpc[j] \in {"meta", "enrich"}

(* From its second look until it remembers what it was told, a worker holds*)
(* its name's mutex and nothing is remembered under the name; what a module*)
(* was told is what is remembered; and whoever asked for the contributors  *)
(* has left something to remember.                                         *)
OneAtAName ==
  /\ \A j \in Jobs : Analysing(j) \/ wpc[j] = "relook" => repoLock[NameOf[j]] = j
  /\ \A j \in Jobs : Analysing(j) => cache[NameOf[j]] = "none"
  /\ \A j \in asked : cache[NameOf[j]] # "none"
  /\ ContributorsAskedOnce
  /\ \A j \in Jobs : PhaseOf[j] = "maintainers" /\ info[j] # "none" =>
                       info[j] = cache[NameOf[j]]

(* Every step keeps OneAtAName: of the workers of one name, only the one   *)
(* with the mutex writes what is remembered of it.                         *)
LEMMA OneAtANameStep ==
  ASSUME TypeOK, InPhase, OneAtAName, Cache!IInv, [Next]_vars PROVE OneAtAName'
<1> USE ScanAssumption DEF TypeOK, InPhase, OneAtAName, WorkerPCs, Goto, Unlock,
        workerVars, Analysing, ContributorsAskedOnce
<1>1. ASSUME NEW j \in Jobs, Acquire(j) PROVE OneAtAName'
  BY <1>1 DEF Acquire
<1>2. ASSUME NEW j \in Jobs, Look(j) PROVE OneAtAName'
  BY <1>2 DEF Look
<1>3. ASSUME NEW j \in Jobs, Lock(j) PROVE OneAtAName'
  BY <1>3 DEF Lock
<1>4. ASSUME NEW j \in Jobs, Relook(j) PROVE OneAtAName'
  <2>1. CASE cache[NameOf[j]] = "none"
    BY <1>4, <2>1 DEF Relook
  <2>2. CASE cache[NameOf[j]] # "none"
    BY <1>4, <2>2 DEF Relook
  <2> QED
    BY <2>1, <2>2
<1>5. ASSUME NEW j \in Jobs, MetaReturns(j) PROVE OneAtAName'
  <2> DEFINE r == Once!Result(j)
  <2>1. r \in Answered
    BY ResultTyped
  <2>2. CASE PhaseOf[j] = "maintainers" /\ r = "ok"
    BY <1>5, <2>2 DEF MetaReturns
  <2>3. CASE PhaseOf[j] = "maintainers" /\ r # "ok"
    <3>1. /\ Analysing(j) /\ repoLock[NameOf[j]] = j
          /\ cache[NameOf[j]] = "none" /\ NameOf[j] \in Names
      BY <1>5, <2>3 DEF MetaReturns
    <3>2. /\ wpc' = [wpc EXCEPT ![j] = "release"]
          /\ info' = [info EXCEPT ![j] = r]
          /\ cache' = [cache EXCEPT ![NameOf[j]] = r]
          /\ repoLock' = [n \in Names |-> IF repoLock[n] = j THEN None
                                          ELSE repoLock[n]]
          /\ asked' = asked
      BY <1>5, <2>3 DEF MetaReturns
    <3>3. \A i \in Jobs : NameOf[i] = NameOf[j] /\ i # j =>
            /\ ~Analysing(i) /\ wpc[i] # "relook" /\ i \notin asked
            /\ PhaseOf[i] = "maintainers" => info[i] = "none"
      BY <3>1
    <3> HIDE DEF r
    <3> QED
      BY <2>1, <3>1, <3>2, <3>3
  <2>4. CASE PhaseOf[j] # "maintainers"
    BY <1>5, <2>1, <2>4 DEF MetaReturns
  <2> QED
    BY <2>2, <2>3, <2>4
<1>6. ASSUME NEW j \in Jobs, Enrich(j) PROVE OneAtAName'
  BY <1>6 DEF Enrich, Answered
<1>7. ASSUME NEW j \in Jobs, Unwind(j) PROVE OneAtAName'
  BY <1>7 DEF Unwind
<1>8. ASSUME NEW j \in Jobs, Release(j) \/ Recover(j) \/ WgDone(j)
      PROVE  OneAtAName'
  BY <1>8 DEF Release, Recover, WgDone
<1>9. CASE \/ \E j \in Jobs : Meta(j)
           \/ WaitAndRepanic
           \/ CancelScan
           \/ UNCHANGED vars
  BY <1>9 DEF Meta, WaitAndRepanic, CancelScan, vars
<1> QED
  BY <1>1, <1>2, <1>3, <1>4, <1>5, <1>6, <1>7, <1>8, <1>9 DEF Next, Worker

(* While nobody cancels, what is remembered of a name, and what a module   *)
(* of the second fan-out was told, is what the cache answers for its key.  *)
ToldByTheCache ==
  cancelled = {} =>
    /\ \A j \in Jobs : wpc[j] = "enrich" => Cache!Answer(KeyOf[j]) = "ok"
    /\ \A n \in Names : cache[n] # "none" => cache[n] = Cache!Answer(LowerOf[n])
    /\ \A j \in Jobs : PhaseOf[j] = "archived" /\ info[j] # "none" =>
                         info[j] = Cache!Answer(KeyOf[j])

(* Every step keeps ToldByTheCache: an answer, once given, stays.          *)
LEMMA ToldByTheCacheStep ==
  ASSUME TypeOK, InPhase, ToldByTheCache, Cache!IInv, Cache!JoinedStays,
         Cache!AnsweredWhenFinished, [Next]_vars
  PROVE  ToldByTheCache'
<1> SUFFICES ASSUME cancelled' = {} PROVE ToldByTheCache'
  BY DEF ToldByTheCache
<1>1. cancelled = {}
  BY WorkerSteps DEF Meta, CancelScan, onceVars, Once!Step, Once!Join,
     Once!Lead, Once!FnReturns, Once!FnPanics, Once!Settle, Once!Close,
     Once!WaitEnds, Once!Return, Once!Cancel
<1>2. \A k \in Keys : Cache!Answer(k) # "none" =>
                       Cache!Answer(k)' = Cache!Answer(k)
  BY CacheStep, CacheAssumption, Cache!AnswerStays
<1>3. \A j \in Jobs : KeyOf[j] = LowerOf[NameOf[j]] /\ KeyOf[j] \in Keys
  BY ScanAssumption DEF KeyOf
<1>4. CASE UNCHANGED <<wpc, cache, info>>
  BY <1>1, <1>2, <1>3, <1>4, ScanAssumption DEF ToldByTheCache
<1>5. ASSUME NEW j \in Jobs, Look(j) \/ Relook(j) PROVE ToldByTheCache'
  BY <1>1, <1>2, <1>3, <1>5, ScanAssumption
  DEF ToldByTheCache, Look, Relook, Goto, TypeOK, InPhase
<1>6. ASSUME NEW j \in Jobs, MetaReturns(j) PROVE ToldByTheCache'
  <2>1. Once!Result(j) = Cache!Answer(KeyOf[j])
    <3>1. Cache!Result(j) = Cache!Answer(KeyOf[j])
      <4>1. \A e : ~Cache!CutShort(e)
        BY <1>1 DEF Cache!CutShort, Cache!Cancelled
      <4> QED
        BY <1>6, <4>1, CacheAssumption, Cache!ToldTheAnswer DEF MetaReturns
    <3> QED
      BY <3>1 DEF Once!Result, Cache!Result, Once!ValueOf, Cache!ValueOf
  <2>2. UNCHANGED onceVars
    BY <1>6 DEF MetaReturns
  <2>3. \A k \in Keys : Cache!Answer(k)' = Cache!Answer(k)
    BY <2>2 DEF onceVars, Cache!Answer, Cache!Finished, Cache!ValueOf
  <2> QED
    BY <1>1, <1>3, <1>6, <2>1, <2>3, ScanAssumption
    DEF ToldByTheCache, MetaReturns, Goto, TypeOK
<1>7. ASSUME NEW j \in Jobs, Enrich(j) PROVE ToldByTheCache'
  <2>1. PhaseOf[j] = "maintainers" /\ Cache!Answer(KeyOf[j]) = "ok"
    BY <1>1, <1>7 DEF Enrich, InPhase, ToldByTheCache
  <2>2. \A k \in Keys : Cache!Answer(k)' = Cache!Answer(k)
    BY <1>7 DEF Enrich, onceVars, Cache!Answer, Cache!Finished, Cache!ValueOf
  <2>3. /\ wpc' = [wpc EXCEPT ![j] = "release"]
        /\ info' = [info EXCEPT ![j] = "ok"]
        /\ cache' = [cache EXCEPT ![NameOf[j]] = "ok"]
    BY <1>7 DEF Enrich, Goto
  <2>4. \A n \in Names : n = NameOf[j] => LowerOf[n] = KeyOf[j]
    BY <1>3
  <2> QED
    BY <1>1, <1>3, <2>1, <2>2, <2>3, <2>4, ScanAssumption
    DEF ToldByTheCache, TypeOK
<1>8. ASSUME NEW j \in Jobs,
             \/ Acquire(j) \/ Lock(j) \/ Unwind(j)
             \/ Release(j) \/ Recover(j) \/ WgDone(j)
      PROVE  ToldByTheCache'
  BY <1>1, <1>2, <1>3, <1>8, ScanAssumption
  DEF ToldByTheCache, Acquire, Lock, Unwind, Release, Recover, WgDone, Goto, TypeOK
<1> QED
  BY <1>4, <1>5, <1>6, <1>7, <1>8
  DEF Next, Worker, Meta, WaitAndRepanic, CancelScan, vars, workerVars

(* The modules of one name of a repository are told one answer: the        *)
(* contributors are asked for once per name as it is spelled, the modules  *)
(* of a spelling are told the same thing even when the scan is cancelled   *)
(* half way, and in a scan nobody cancels the archived flag of a name, in  *)
(* any case of its letters, is that of the record the maintainer scan read. *)
(* Nothing is said of the old and the new name of a renamed repository.    *)
THEOREM OneRepositoryIsToldOneAnswer == Spec => []OneRepositoryOneAnswer
<1>1. Init => OneAtAName /\ ToldByTheCache
  BY ScanAssumption DEF Init, OneAtAName, ToldByTheCache, Analysing, ContributorsAskedOnce
<1>2. Spec => [](Cache!IInv /\ Cache!JoinedStays /\ Cache!AnsweredWhenFinished)
  BY ScanUsesTheCache, Cache!Invariance, Cache!JoinedStaysInvariant,
     Cache!AnsweredWhenFinishedInvariant, CacheAssumption, PTL
<1>3. Spec => [](OneAtAName /\ ToldByTheCache)
  BY <1>1, <1>2, ScanTyped, OneAtANameStep, ToldByTheCacheStep, PTL DEF Spec
<1>4. OneAtAName /\ ToldByTheCache => OneRepositoryOneAnswer
  <2> SUFFICES ASSUME OneAtAName, ToldByTheCache
               PROVE  OneNameOneInfo /\ ArchivedAgrees
    BY DEF OneAtAName, OneRepositoryOneAnswer
  <2>1. OneNameOneInfo
    BY DEF OneAtAName, OneNameOneInfo
  <2>2. ArchivedAgrees
    BY ScanAssumption DEF OneAtAName, ToldByTheCache, ArchivedAgrees, KeyOf
  <2> QED
    BY <2>1, <2>2
<1> QED
  BY <1>3, <1>4, PTL

-----------------------------------------------------------------------------
(* The resilience scan.                                                    *)

WorkerStates == {"waiting", "working", "fetching", "done", "panicked"}
DateStates == {"waiting", "fetching", "dated", "undated", "panicked"}

ResilienceTypeOK ==
  /\ stage \in {"lists", "reserve", "dates", "returned", "panicked"}
  /\ worker \in [Modules -> WorkerStates]
  /\ total \in [Modules -> Nat]
  /\ budget \in Nat
  /\ reserved \subseteq Modules
  /\ granted \in [Modules -> Nat]
  /\ date \in [Modules -> Seq(DateStates)]
  /\ result = [i \in Modules |-> result[i]]

(* What the phases leave to the later ones.                                *)
Phases ==
  /\ stage = "lists" => reserved = {} /\ \A i \in Modules : granted[i] = 0
  /\ stage \in {"lists", "reserve"} =>
       \A i \in Modules : date[i] = <<>> /\ result[i] = NoResult
  /\ stage # "dates" => \A i \in Modules : worker[i] # "fetching"
  /\ stage \notin {"lists", "dates"} => AllEnded
  /\ stage \in {"reserve", "returned"} => \A i \in Modules : worker[i] = "done"

(* The budget is spent along the paths, and no module asks for more than   *)
(* it was granted, or is granted more than it needs.                       *)
InOrder == \A i \in reserved : \A j \in Modules : j < i => j \in reserved
WithinGrant ==
  \A i \in Modules : granted[i] <= Needs(i) /\ Len(date[i]) <= granted[i]

(* WholeUnlessLimited, of a single module.                                 *)
SaysWhatItLacks(i) ==
  result[i].available =>
    /\ result[i].dated # {}
    /\ result[i].limited <=> result[i].dated # 1..total[i]
Heard ==
  stage \in {"dates", "returned"} =>
    \A i \in Modules : worker[i] = "done" /\ total[i] # 0 =>
      result[i].available \/ result[i].limited

ResilienceInv ==
  /\ ResilienceTypeOK /\ Phases /\ InOrder /\ CutByPathAlone /\ WithinGrant
  /\ (\A i \in Modules : SaysWhatItLacks(i)) /\ Heard

(* Nothing is listed, granted or dated at first.                            *)
LEMMA InitResilience == ResilienceInit => ResilienceInv
<1> SUFFICES ASSUME ResilienceInit PROVE ResilienceInv
  OBVIOUS
<1> USE SizesAssumption DEF ResilienceInit
<1>1. ResilienceTypeOK
  BY EmptySeq DEF ResilienceTypeOK, WorkerStates
<1>2. Phases
  BY DEF Phases
<1>3. InOrder /\ CutByPathAlone /\ Heard
  BY DEF InOrder, CutByPathAlone, Heard
<1>4. WithinGrant
  BY EmptySeq DEF WithinGrant, Needs, Min2
<1>5. \A i \in Modules : SaysWhatItLacks(i)
  BY DEF SaysWhatItLacks, NoResult
<1> QED
  BY <1>1, <1>2, <1>3, <1>4, <1>5 DEF ResilienceInv

-----------------------------------------------------------------------------
(* A sample holds versions of the list, each for one request.              *)
LEMMA SampleOfList ==
  ASSUME NEW n \in Nat, NEW k \in 1..Min2(n, Samples) PROVE SampleVersions(n)[k] \in 1..n
<1>1. Samples \in Nat /\ k \in Nat /\ k >= 1 /\ k <= n /\ k <= Samples
  BY SizesAssumption DEF Min2
<1>2. CASE n <= Samples
  <2>1. SampleVersions(n)[k] = n + 1 - k
    BY <1>1, <1>2 DEF SampleVersions
  <2> QED
    BY <1>1, <2>1
<1>3. CASE ~(n <= Samples)
  <2>1. k \in 1..Samples
    BY <1>1
  <2>2. SampleVersions(n)[k] = CASE k = 1 -> n [] k = 2 -> 1 [] OTHER -> n + 2 - k
    BY <1>3, <2>1 DEF SampleVersions
  <2>3. CASE k = 1
    BY <1>1, <2>2, <2>3
  <2>4. CASE k = 2
    BY <1>1, <2>2, <2>4
  <2>5. CASE k # 1 /\ k # 2
    BY <1>1, <2>2, <2>5
  <2> QED
    BY <2>3, <2>4, <2>5
<1> QED
  BY <1>2, <1>3

(* What was dated is some of the list, and as many only when it is all.    *)
LEMMA DatedOfList ==
  ASSUME ResilienceInv, NEW i \in Modules
  PROVE  Dated(i) \subseteq 1..total[i] /\ (Limited(i) <=> Dated(i) # 1..total[i])
<1>1. total[i] \in Nat /\ date[i] \in Seq(DateStates) /\ granted[i] \in Nat
  BY DEF ResilienceInv, ResilienceTypeOK
<1>2. Len(date[i]) \in Nat /\ Len(date[i]) <= Min2(total[i], Samples)
  BY <1>1, LenProperties, SizesAssumption DEF ResilienceInv, WithinGrant, Needs, Min2
<1>3. Dated(i) \subseteq 1..total[i]
  <2>1. \A k \in 1..Len(date[i]) : k \in 1..Min2(total[i], Samples)
    BY <1>1, <1>2, SizesAssumption DEF Min2
  <2> QED
    BY <1>1, <2>1, SampleOfList DEF Dated
<1>4. IsFiniteSet(1..total[i]) /\ Cardinality(1..total[i]) = total[i]
  <2> DEFINE n == total[i]
  <2>1. n \in Int /\ n >= 0 /\ 1 \in Int
    BY <1>1
  <2> HIDE DEF n
  <2>2. IsFiniteSet(1..n)
    BY <2>1, FS_Interval, Zenon
  <2>3. Cardinality(1..n) = IF 1 > n THEN 0 ELSE n - 1 + 1
    BY <2>1, FS_Interval, Zenon
  <2>4. Cardinality(1..n) = n
    BY <2>1, <2>3
  <2> QED
    BY <2>2, <2>4 DEF n
<1>5. /\ Cardinality(Dated(i)) <= total[i]
      /\ total[i] = Cardinality(Dated(i)) => Dated(i) = 1..total[i]
  BY <1>3, <1>4, FS_Subset
<1>6. IsFiniteSet(Dated(i))
  BY <1>3, <1>4, FS_Subset
<1>7. Cardinality(Dated(i)) \in Nat
  BY <1>6, FS_CardinalityType
<1>8. Cardinality(Dated(i)) < total[i] \/ Cardinality(Dated(i)) = total[i]
  BY <1>1, <1>5, <1>7
<1>9. ASSUME Cardinality(Dated(i)) < total[i] PROVE Cardinality(Dated(i)) # total[i]
  BY <1>1, <1>7, <1>9
<1>10. CASE Dated(i) = 1..total[i]
  <2>1. Cardinality(Dated(i)) = total[i]
    BY <1>4, <1>10
  <2>2. ~ Limited(i)
    BY <2>1, <1>9 DEF Limited
  <2> QED
    BY <2>2, <1>3, <1>10
<1>11. CASE Dated(i) # 1..total[i]
  <2>1. Cardinality(Dated(i)) # total[i]
    BY <1>5, <1>11
  <2>2. Limited(i)
    BY <2>1, <1>8 DEF Limited
  <2> QED
    BY <2>2, <1>3, <1>11
<1> QED
  BY <1>10, <1>11

(* A report with data is limited exactly when it lacks a date.              *)
LEMMA ReportSaysWhatItLacks ==
  ASSUME ResilienceInv, NEW i \in Modules
  PROVE  /\ Report(i).available \/ Report(i).limited
         /\ Report(i).available => /\ Report(i).dated # {}
                                   /\ Report(i).limited <=> Report(i).dated # 1..total[i]
<1>1. CASE Dated(i) = {}
  BY <1>1 DEF Report, NoResult
<1>2. CASE Dated(i) # {}
  <2>1. Report(i) = [available |-> TRUE, limited |-> Limited(i), dated |-> Dated(i),
                     intervals |-> Intervals(i)]
    BY <1>2 DEF Report
  <2>2. Report(i).available = TRUE /\ Report(i).limited = Limited(i)
        /\ Report(i).dated = Dated(i)
    BY <2>1
  <2> QED
    BY <1>2, <2>2, DatedOfList
<1> QED BY <1>1, <1>2

(* One date worker goes on: every list of requests keeps its length.       *)
LEMMA DateGoesOn ==
  ASSUME ResilienceTypeOK, NEW i \in Modules, NEW k \in 1..Len(date[i]), NEW e \in DateStates,
         date' = [date EXCEPT ![i][k] = e]
  PROVE  /\ date' \in [Modules -> Seq(DateStates)]
         /\ \A j \in Modules : Len(date'[j]) = Len(date[j])
<1>1. date \in [Modules -> Seq(DateStates)]
  BY DEF ResilienceTypeOK
<1> DEFINE s == [date[i] EXCEPT ![k] = e]
<1>2. s \in Seq(DateStates) /\ Len(s) = Len(date[i])
  BY <1>1, ExceptSeq
<1>3. date' = [date EXCEPT ![i] = s]
  OBVIOUS
<1> HIDE DEF s
<1> QED
  BY <1>1, <1>2, <1>3

-----------------------------------------------------------------------------
(* The steps of a worker that neither plan nor report.                     *)
LEMMA WorkerStep ==
  ASSUME ResilienceInv, NEW i \in Modules, Enter(i) \/ Panic(i) PROVE ResilienceInv'
<1>1. /\ worker[i] \in {"waiting", "working"}
      /\ worker' = [worker EXCEPT ![i] = worker'[i]] /\ worker'[i] \in {"working", "panicked"}
      /\ UNCHANGED <<stage, total, budget, reserved, granted, date, result>>
  BY DEF Enter, Panic, ResilienceInv, ResilienceTypeOK
<1>2. stage \in {"lists", "dates"}
  BY <1>1 DEF ResilienceInv, ResilienceTypeOK, Phases, AllEnded
<1>3. ResilienceTypeOK'
  BY <1>1 DEF ResilienceInv, ResilienceTypeOK, WorkerStates
<1>4. Phases'
  BY <1>1, <1>2 DEF ResilienceInv, ResilienceTypeOK, Phases, AllEnded
<1>5. InOrder' /\ CutByPathAlone' /\ WithinGrant'
  BY <1>1 DEF ResilienceInv, InOrder, CutByPathAlone, WithinGrant, Needs
<1>6. (\A j \in Modules : SaysWhatItLacks(j))'
  BY <1>1 DEF ResilienceInv, SaysWhatItLacks
<1>7. Heard'
  BY <1>1 DEF ResilienceInv, ResilienceTypeOK, Heard
<1> QED
  BY <1>3, <1>4, <1>5, <1>6, <1>7 DEF ResilienceInv

(* Phase 1: nothing is reserved yet, so a list may have any length.        *)
LEMMA PlanStep ==
  ASSUME ResilienceInv, NEW i \in Modules, PlanModule(i) PROVE ResilienceInv'
<1>1. PICK n \in FetchVersionList : total' = [total EXCEPT ![i] = n]
  BY DEF PlanModule
<1>2. /\ stage = "lists" /\ worker[i] = "working" /\ worker' = [worker EXCEPT ![i] = "done"]
      /\ UNCHANGED <<stage, budget, reserved, granted, date, result>>
  BY DEF PlanModule
<1>3. n \in Nat
  BY SizesAssumption DEF FetchVersionList
<1>4. ResilienceTypeOK'
  BY <1>1, <1>2, <1>3 DEF ResilienceInv, ResilienceTypeOK, WorkerStates
<1>5. Phases'
  BY <1>2 DEF ResilienceInv, ResilienceTypeOK, Phases, AllEnded
<1>6. InOrder' /\ CutByPathAlone'
  BY <1>2 DEF ResilienceInv, Phases, InOrder, CutByPathAlone
<1>7. WithinGrant'
  <2>1. \A j \in Modules : total'[j] \in Nat /\ granted'[j] = 0 /\ date'[j] = <<>>
    BY <1>2, <1>4 DEF ResilienceInv, Phases, ResilienceTypeOK
  <2>2. \A j \in Modules : Needs(j)' \in Nat
    BY <2>1, SizesAssumption DEF Needs, Min2
  <2> QED
    BY <2>1, <2>2, EmptySeq DEF WithinGrant
<1>8. (\A j \in Modules : SaysWhatItLacks(j))'
  <2>1. \A j \in Modules : result'[j] = NoResult
    BY <1>2 DEF ResilienceInv, Phases
  <2> QED
    BY <2>1 DEF SaysWhatItLacks, NoResult
<1>9. Heard'
  BY <1>2 DEF Heard
<1> QED
  BY <1>4, <1>5, <1>6, <1>7, <1>8, <1>9 DEF ResilienceInv

(* Phase 2: in the order of the paths; once it got less than it needs,     *)
(* nothing is left, and those after it get nothing.                        *)
LEMMA ReserveStep ==
  ASSUME ResilienceInv, NEW i \in Modules, ReserveInfoRequests(i) PROVE ResilienceInv'
<1> DEFINE n == Min2(Needs(i), budget)
<1>1. /\ stage = "reserve" /\ Turn(i)
      /\ granted' = [granted EXCEPT ![i] = n] /\ budget' = budget - n
      /\ reserved' = reserved \cup {i}
      /\ UNCHANGED <<stage, worker, total, date, result>>
  BY DEF ReserveInfoRequests
<1>2. Needs(i) \in Nat /\ budget \in Nat
  BY SizesAssumption DEF ResilienceInv, ResilienceTypeOK, Needs, Min2
<1>3. /\ n \in Nat /\ n <= Needs(i) /\ n <= budget
      /\ n < Needs(i) => n = budget
  BY <1>2 DEF Min2
<1> HIDE DEF n
<1>4. \A j \in Modules : Needs(j)' = Needs(j)
  BY <1>1 DEF Needs
<1>5. budget' \in Nat
  BY <1>1, <1>2, <1>3
<1>6. ResilienceTypeOK'
  BY <1>1, <1>3, <1>5 DEF ResilienceInv, ResilienceTypeOK
<1>7. Phases'
  BY <1>1 DEF ResilienceInv, Phases, AllEnded
<1>8. InOrder'
  BY <1>1 DEF ResilienceInv, InOrder, Turn
<1>9. CutByPathAlone'
  <2> SUFFICES ASSUME NEW k \in reserved', granted'[k] < Needs(k)'
               PROVE  budget' = 0 /\ \A j \in reserved' : j > k => granted'[j] = 0
    BY DEF CutByPathAlone
  <2>1. k \in Modules /\ \A j \in reserved' : j \in Modules
    BY <1>1 DEF ResilienceInv, ResilienceTypeOK
  <2>2. CASE k = i
    <3>1. n < Needs(i)
      BY <1>1, <1>4, <2>1, <2>2 DEF ResilienceInv, ResilienceTypeOK
    <3>2. budget' = 0
      BY <1>1, <1>2, <1>3, <3>1
    <3>3. \A j \in reserved' : ~(j > i)
      BY <1>1, <2>1 DEF ResilienceInv, InOrder, Turn, Modules
    <3> QED
      BY <2>2, <3>2, <3>3
  <2>3. CASE k # i
    <3>1. k \in reserved /\ granted[k] < Needs(k)
      BY <1>1, <1>4, <2>1, <2>3 DEF ResilienceInv, ResilienceTypeOK
    <3>2. budget = 0 /\ \A j \in reserved : j > k => granted[j] = 0
      BY <3>1 DEF ResilienceInv, CutByPathAlone
    <3>3. n = 0 /\ budget' = 0
      BY <1>1, <1>2, <1>3, <3>2
    <3> QED
      BY <1>1, <3>2, <3>3 DEF ResilienceInv, ResilienceTypeOK
  <2> QED BY <2>2, <2>3
<1>10. WithinGrant'
  <2>1. \A j \in Modules : Len(date'[j]) = 0
    BY <1>1, EmptySeq DEF ResilienceInv, Phases
  <2> QED
    BY <1>1, <1>3, <1>4, <1>6, <2>1 DEF ResilienceInv, ResilienceTypeOK, WithinGrant
<1>11. (\A j \in Modules : SaysWhatItLacks(j))'
  BY <1>1 DEF ResilienceInv, SaysWhatItLacks
<1>12. Heard'
  BY <1>1 DEF Heard
<1> QED
  BY <1>6, <1>7, <1>8, <1>9, <1>10, <1>11, <1>12 DEF ResilienceInv

(* Phase 3: the requests, as many as were granted, and what they tell.     *)
LEMMA FinishStep ==
  ASSUME ResilienceInv, NEW i \in Modules, FinishModule(i) PROVE ResilienceInv'
<1>1. /\ stage = "dates" /\ worker[i] = "working"
      /\ UNCHANGED <<stage, total, budget, reserved, granted, result>>
  BY DEF FinishModule
<1>2. /\ worker' = [worker EXCEPT ![i] = worker'[i]]
      /\ worker'[i] \in {"done", "fetching"}
      /\ worker'[i] = "done" => total[i] = 0
  BY DEF FinishModule, ResilienceInv, ResilienceTypeOK
<1>3. /\ date' \in [Modules -> Seq(DateStates)]
      /\ \A j \in Modules : Len(date'[j]) <= granted[j]
  <2>1. CASE UNCHANGED date
    BY <2>1 DEF ResilienceInv, ResilienceTypeOK, WithinGrant
  <2>2. CASE date' = [date EXCEPT ![i] = [k \in 1..granted[i] |-> "waiting"]]
    <3> DEFINE s == [k \in 1..granted[i] |-> "waiting"]
    <3>1. granted[i] \in Nat
      BY DEF ResilienceInv, ResilienceTypeOK
    <3>2. s \in Seq(DateStates) /\ Len(s) = granted[i]
      BY <3>1 DEF DateStates
    <3>3. date' = [date EXCEPT ![i] = s]
      BY <2>2
    <3> HIDE DEF s
    <3> QED
      BY <3>1, <3>2, <3>3 DEF ResilienceInv, ResilienceTypeOK, WithinGrant
  <2> QED
    BY <2>1, <2>2 DEF FinishModule
<1>4. ResilienceTypeOK'
  BY <1>1, <1>2, <1>3 DEF ResilienceInv, ResilienceTypeOK, WorkerStates
<1>5. Phases'
  BY <1>1 DEF Phases
<1>6. InOrder' /\ CutByPathAlone'
  BY <1>1 DEF ResilienceInv, InOrder, CutByPathAlone, Needs
<1>7. WithinGrant'
  BY <1>1, <1>3 DEF ResilienceInv, WithinGrant, Needs
<1>8. (\A j \in Modules : SaysWhatItLacks(j))'
  BY <1>1 DEF ResilienceInv, SaysWhatItLacks
<1>9. Heard'
  BY <1>1, <1>2 DEF ResilienceInv, ResilienceTypeOK, Heard
<1> QED
  BY <1>4, <1>5, <1>6, <1>7, <1>8, <1>9 DEF ResilienceInv

(* A date request starts, is answered, fails or panics.                     *)
LEMMA DateStep ==
  ASSUME ResilienceInv, NEW i \in Modules, NEW k \in 1..Len(date[i]),
         EnterDate(i, k) \/ FetchVersionTime(i, k)
  PROVE  ResilienceInv'
<1>1. UNCHANGED <<stage, worker, total, budget, reserved, granted, result>>
  BY DEF EnterDate, FetchVersionTime
<1>2. PICK e \in DateStates : date' = [date EXCEPT ![i][k] = e]
  BY DEF EnterDate, FetchVersionTime, DateStates
<1>3. /\ date' \in [Modules -> Seq(DateStates)]
      /\ \A j \in Modules : Len(date'[j]) = Len(date[j])
  BY <1>2, DateGoesOn DEF ResilienceInv
<1>4. stage \notin {"lists", "reserve"}
  <2>1. 1..Len(date[i]) # {}
    OBVIOUS
  <2> QED
    BY <2>1, EmptySeq DEF ResilienceInv, Phases
<1>5. ResilienceTypeOK'
  BY <1>1, <1>3 DEF ResilienceInv, ResilienceTypeOK
<1>6. Phases'
  BY <1>1, <1>4 DEF ResilienceInv, Phases, AllEnded
<1>7. InOrder' /\ CutByPathAlone'
  BY <1>1 DEF ResilienceInv, InOrder, CutByPathAlone, Needs
<1>8. WithinGrant'
  BY <1>1, <1>3 DEF ResilienceInv, WithinGrant, Needs
<1>9. (\A j \in Modules : SaysWhatItLacks(j))' /\ Heard'
  BY <1>1 DEF ResilienceInv, SaysWhatItLacks, Heard
<1> QED
  BY <1>5, <1>6, <1>7, <1>8, <1>9 DEF ResilienceInv

(* A module's dates are gathered into its report.                           *)
LEMMA CollectStep ==
  ASSUME ResilienceInv, NEW i \in Modules, Collect(i) PROVE ResilienceInv'
<1>1. /\ worker[i] = "fetching"
      /\ UNCHANGED <<stage, total, budget, reserved, granted, date>>
  BY DEF Collect
<1>2. stage = "dates"
  BY <1>1 DEF ResilienceInv, Phases
<1>3. InOrder' /\ CutByPathAlone' /\ WithinGrant'
  BY <1>1 DEF ResilienceInv, InOrder, CutByPathAlone, WithinGrant, Needs
<1>4. Phases'
  BY <1>1, <1>2 DEF Phases
<1>5. CASE worker' = [worker EXCEPT ![i] = "panicked"] /\ UNCHANGED result
  <2>1. ResilienceTypeOK'
    BY <1>1, <1>5 DEF ResilienceInv, ResilienceTypeOK, WorkerStates
  <2>2. (\A j \in Modules : SaysWhatItLacks(j))' /\ Heard'
    BY <1>1, <1>5 DEF ResilienceInv, ResilienceTypeOK, SaysWhatItLacks, Heard
  <2> QED
    BY <1>3, <1>4, <2>1, <2>2 DEF ResilienceInv
<1>6. CASE /\ worker' = [worker EXCEPT ![i] = "done"]
           /\ result' = [result EXCEPT ![i] = Report(i)]
  <2>1. result'[i] = Report(i) /\ \A j \in Modules : j # i => result'[j] = result[j]
    BY <1>6 DEF ResilienceInv, ResilienceTypeOK
  <2>2. ResilienceTypeOK'
    BY <1>1, <1>6 DEF ResilienceInv, ResilienceTypeOK, WorkerStates
  <2>3. (\A j \in Modules : SaysWhatItLacks(j))'
    BY <1>1, <2>1, ReportSaysWhatItLacks DEF ResilienceInv, SaysWhatItLacks
  <2>4. Heard'
    BY <1>1, <1>2, <1>6, <2>1, ReportSaysWhatItLacks DEF ResilienceInv, ResilienceTypeOK, Heard
  <2> QED
    BY <1>3, <1>4, <2>2, <2>3, <2>4 DEF ResilienceInv
<1> QED
  BY <1>5, <1>6 DEF Collect

(* The caller, between the phases.                                         *)
LEMMA CallerStep ==
  ASSUME ResilienceInv, ListsRead \/ AllReserved \/ DatesRead PROVE ResilienceInv'
<1>1. UNCHANGED <<total, budget, reserved, granted, date, result>>
  BY DEF ListsRead, AllReserved, DatesRead
<1>2. InOrder' /\ CutByPathAlone' /\ WithinGrant' /\ (\A j \in Modules : SaysWhatItLacks(j))'
  BY <1>1 DEF ResilienceInv, InOrder, CutByPathAlone, WithinGrant, Needs, SaysWhatItLacks
<1>3. ResilienceTypeOK'
  BY <1>1 DEF ListsRead, AllReserved, DatesRead, ResilienceInv, ResilienceTypeOK, WorkerStates
<1>4. Phases'
  <2>1. CASE ListsRead
    BY <2>1 DEF ListsRead, ResilienceInv, Phases, AllEnded, Panicked
  <2>2. CASE AllReserved
    BY <2>2 DEF AllReserved, ResilienceInv, Phases
  <2>3. CASE DatesRead
    BY <2>3 DEF DatesRead, ResilienceInv, Phases, AllEnded, Panicked
  <2> QED BY <2>1, <2>2, <2>3
<1>5. Heard'
  BY <1>1 DEF ListsRead, AllReserved, DatesRead, ResilienceInv, Heard
<1> QED
  BY <1>2, <1>3, <1>4, <1>5 DEF ResilienceInv

(* Every step keeps the invariant.                                          *)
LEMMA ResilienceStep == ResilienceInv /\ [ResilienceNext]_resilienceVars => ResilienceInv'
<1> SUFFICES ASSUME ResilienceInv, [ResilienceNext]_resilienceVars PROVE ResilienceInv'
  OBVIOUS
<1>1. CASE UNCHANGED resilienceVars
  BY <1>1 DEF resilienceVars, ResilienceInv, ResilienceTypeOK, Phases, AllEnded, InOrder,
              CutByPathAlone, WithinGrant, Needs, SaysWhatItLacks, Heard
<1>2. ASSUME NEW i \in Modules, Work(i) PROVE ResilienceInv'
  BY <1>2, WorkerStep, PlanStep, ReserveStep, FinishStep, DateStep, CollectStep DEF Work
<1> QED
  BY <1>1, <1>2, CallerStep DEF ResilienceNext

(* The invariant holds in every behaviour.                                  *)
LEMMA ResilienceInvariant == ResilienceSpec => []ResilienceInv
BY InitResilience, ResilienceStep, PTL DEF ResilienceSpec

-----------------------------------------------------------------------------
(* Which modules are cut depends on the paths alone, however the workers   *)
(* are scheduled (ScanAll and reserveInfoRequests, resilience.go).         *)
THEOREM CutIsByPathAlone == ResilienceSpec => []CutByPathAlone
<1>1. ResilienceInv => CutByPathAlone
  BY DEF ResilienceInv
<1> QED
  BY <1>1, ResilienceInvariant, PTL

(* A module that is not marked as limited has the date of every version,   *)
(* and a scan that returns has said something of each module that has a    *)
(* list (finishModule, resilience.go).                                     *)
THEOREM LimitsAreSaid == ResilienceSpec => []WholeUnlessLimited
<1>1. ResilienceInv => WholeUnlessLimited
  <2> SUFFICES ASSUME ResilienceInv PROVE WholeUnlessLimited
    OBVIOUS
  <2>1. stage = "returned" => \A i \in Modules :
          total[i] # 0 => result[i].available \/ result[i].limited
    BY DEF ResilienceInv, Phases, Heard
  <2>2. \A i \in Modules : SaysWhatItLacks(i)
    BY DEF ResilienceInv
  <2> QED
    BY <2>1, <2>2 DEF WholeUnlessLimited, SaysWhatItLacks
<1> QED
  BY <1>1, ResilienceInvariant, PTL
-----------------------------------------------------------------------------
(* The response history.                                                   *)

Below == {pair \in Nat \X Nat : pair[1] < pair[2]}

(* The first of a set of numbers is its least one.                         *)
LEMMA FirstIs ==
  ASSUME NEW S \in SUBSET Nat, S # {}
  PROVE  First(S) \in S /\ \A y \in S : First(S) <= y
<1>1. IsWellFoundedOn(Below, Nat)
  BY NatLessThanWellFounded DEF OpToRel, Below
<1>2. PICK x \in S : \A y \in S : <<y, x>> \notin Below
  BY <1>1, WFMin
<1>3. \A y \in S : y \in Nat /\ x \in Nat
  OBVIOUS
<1>4. \A y \in S : ~(y < x)
  BY <1>2, <1>3 DEF Below
<1>5. \A y \in S : x <= y
  BY <1>3, <1>4
<1> QED
  BY <1>5, Zenon DEF First

(* The order of the days, and the fix at each place of it.                 *)
UpTo(days, F, f) == {g \in F : days[g] < days[f] \/ (days[g] = days[f] /\ g <= f)}
PlaceOf(days, F, f) == Cardinality(UpTo(days, F, f))
At(days, F, k) == CHOOSE f \in F : PlaceOf(days, F, f) = k

(* The median by the fixes at the middle places.                           *)
LEMMA MedianParts ==
  ASSUME NEW days, NEW F
  PROVE  MedianDays(days, F) =
           IF Cardinality(F) % 2 = 1 THEN days[At(days, F, (Cardinality(F) + 1) \div 2)]
           ELSE (days[At(days, F, Cardinality(F) \div 2)]
                 + days[At(days, F, Cardinality(F) \div 2 + 1)] + 1) \div 2
BY Zenon DEF MedianDays, At, PlaceOf, UpTo

(* Each place of the order has a fix.                                      *)
LEMMA PlaceIs ==
  ASSUME NEW F \in SUBSET Nat, IsFiniteSet(F), NEW days, \A f \in F : days[f] \in Int,
         NEW k \in 1..Cardinality(F)
  PROVE  /\ At(days, F, k) \in F /\ PlaceOf(days, F, At(days, F, k)) = k
         /\ IsFiniteSet(UpTo(days, F, At(days, F, k)))
<1> DEFINE n == Cardinality(F)
           placed == [f \in F |-> PlaceOf(days, F, f)]
<1>1. n \in Nat /\ IsFiniteSet(1..n) /\ Cardinality(1..n) = n
  BY FS_CardinalityType, FS_Interval
<1>2. ASSUME NEW f \in F
      PROVE  /\ IsFiniteSet(UpTo(days, F, f)) /\ f \in UpTo(days, F, f)
             /\ UpTo(days, F, f) \in SUBSET F /\ PlaceOf(days, F, f) \in 1..n
  <2>1. UpTo(days, F, f) \in SUBSET F /\ f \in UpTo(days, F, f)
    BY DEF UpTo
  <2>2. IsFiniteSet(UpTo(days, F, f)) /\ PlaceOf(days, F, f) <= n
    BY <2>1, FS_Subset DEF PlaceOf
  <2>3. PlaceOf(days, F, f) \in Nat /\ PlaceOf(days, F, f) # 0
    BY <2>1, <2>2, FS_CardinalityType, FS_EmptySet DEF PlaceOf
  <2> QED
    BY <1>1, <2>1, <2>2, <2>3
<1>3. ASSUME NEW f \in F, NEW h \in F, days[f] < days[h] \/ (days[f] = days[h] /\ f < h)
      PROVE  PlaceOf(days, F, f) # PlaceOf(days, F, h)
  <2>1. f \in Nat /\ h \in Nat /\ days[f] \in Int /\ days[h] \in Int
    OBVIOUS
  <2>2. UpTo(days, F, f) \in SUBSET UpTo(days, F, h)
    <3> SUFFICES ASSUME NEW g \in UpTo(days, F, f) PROVE g \in UpTo(days, F, h)
      OBVIOUS
    <3>1. g \in F /\ g \in Nat /\ days[g] \in Int
          /\ (days[g] < days[f] \/ (days[g] = days[f] /\ g <= f))
      BY DEF UpTo
    <3>2. days[g] < days[h] \/ (days[g] = days[h] /\ g <= h)
      BY <1>3, <2>1, <3>1
    <3> QED
      BY <3>1, <3>2 DEF UpTo
  <2>3. h \notin UpTo(days, F, f) /\ h \in UpTo(days, F, h)
    BY <1>3, <2>1 DEF UpTo
  <2>4. Cardinality(UpTo(days, F, h)) = Cardinality(UpTo(days, F, f))
          => UpTo(days, F, h) = UpTo(days, F, f)
    BY <1>2, <2>2, FS_Subset
  <2> QED
    BY <2>3, <2>4 DEF PlaceOf
<1>4. \A f \in F, h \in F : placed[f] = placed[h] => f = h
  <2> SUFFICES ASSUME NEW f \in F, NEW h \in F, PlaceOf(days, F, f) = PlaceOf(days, F, h) PROVE f = h
    OBVIOUS
  <2>1. f \in Nat /\ h \in Nat /\ days[f] \in Int /\ days[h] \in Int
    OBVIOUS
  <2> QED
    BY <1>3, <2>1
<1>5. placed \in Injection(F, 1..n)
  BY <1>2, <1>4 DEF Injection, IsInjective
<1>6. placed \in Surjection(F, 1..n)
  BY <1>1, <1>5, FS_Injection
<1>7. \E f \in F : placed[f] = k
  BY <1>6 DEF Surjection
<1>8. \E f \in F : PlaceOf(days, F, f) = k
  BY <1>7
<1>9. At(days, F, k) \in F /\ PlaceOf(days, F, At(days, F, k)) = k
  BY <1>8, Zenon DEF At
<1> QED
  BY <1>2, <1>9

(* Days that are all longer have a longer one at each placed.               *)
LEMMA LongerAtEachPlace ==
  ASSUME NEW F \in SUBSET Nat, IsFiniteSet(F), NEW days, NEW longer,
         \A f \in F : days[f] \in Int /\ longer[f] \in Int /\ days[f] <= longer[f],
         NEW k \in 1..Cardinality(F)
  PROVE  days[At(days, F, k)] <= longer[At(longer, F, k)]
<1> DEFINE f == At(longer, F, k)
           h == At(days, F, k)
           A == UpTo(longer, F, f)
           B == UpTo(days, F, h)
<1>1. f \in F /\ Cardinality(A) = k /\ IsFiniteSet(A)
  BY PlaceIs DEF PlaceOf
<1>2. h \in F /\ Cardinality(B) = k /\ IsFiniteSet(B)
  BY PlaceIs DEF PlaceOf
<1> HIDE DEF f, h
<1>3. f \in Nat /\ h \in Nat /\ days[h] \in Int /\ longer[f] \in Int
  BY <1>1, <1>2
<1> SUFFICES ASSUME longer[f] < days[h] PROVE FALSE
  BY <1>3 DEF f, h
<1>4. h \in B
  BY <1>2, <1>3 DEF UpTo
<1>5. A \in SUBSET (B \ {h})
  <2> SUFFICES ASSUME NEW g \in A PROVE g \in B \ {h}
    OBVIOUS
  <2>1. /\ g \in F /\ g \in Nat /\ days[g] \in Int /\ longer[g] \in Int
        /\ days[g] <= longer[g] /\ longer[g] <= longer[f]
    BY <1>1, <1>3 DEF UpTo
  <2>2. days[g] < days[h]
    BY <1>3, <2>1
  <2> QED
    BY <1>3, <2>1, <2>2 DEF UpTo
<1> HIDE DEF A, B
<1>6. IsFiniteSet(B \ {h}) /\ Cardinality(B \ {h}) = k - 1
  BY <1>2, <1>4, FS_RemoveElement
<1>7. Cardinality(A) <= k - 1
  BY <1>5, <1>6, FS_Subset
<1> QED
  BY <1>1, <1>7

(* Days that are all longer have a longer median.                          *)
LEMMA MedianGrows ==
  ASSUME NEW F \in SUBSET Nat, IsFiniteSet(F), F # {}, NEW days, NEW longer,
         \A f \in F : days[f] \in Int /\ longer[f] \in Int /\ days[f] <= longer[f]
  PROVE  /\ MedianDays(days, F) \in Int /\ MedianDays(longer, F) \in Int
         /\ MedianDays(days, F) <= MedianDays(longer, F)
<1> DEFINE n == Cardinality(F)
<1>1. n \in Nat /\ n # 0
  BY FS_CardinalityType, FS_EmptySet
<1>2. ASSUME NEW k \in 1..n
      PROVE  /\ days[At(days, F, k)] <= longer[At(longer, F, k)]
             /\ days[At(days, F, k)] \in Int /\ longer[At(longer, F, k)] \in Int
  BY <1>2, PlaceIs, LongerAtEachPlace
<1>3. CASE n % 2 = 1
  <2>1. (n + 1) \div 2 \in 1..n
    BY <1>1, <1>3
  <2> QED
    BY <1>2, <1>3, <2>1, MedianParts
<1>4. CASE n % 2 # 1
  <2>1. n \div 2 \in 1..n /\ n \div 2 + 1 \in 1..n
    BY <1>1, <1>4
  <2> DEFINE a == days[At(days, F, n \div 2)]
             b == days[At(days, F, n \div 2 + 1)]
             x == longer[At(longer, F, n \div 2)]
             y == longer[At(longer, F, n \div 2 + 1)]
  <2>2. a \in Int /\ b \in Int /\ x \in Int /\ y \in Int /\ a <= x /\ b <= y
    BY <1>2, <2>1
  <2>3. MedianDays(days, F) = (a + b + 1) \div 2 /\ MedianDays(longer, F) = (x + y + 1) \div 2
    BY <1>4, MedianParts
  <2> HIDE DEF a, b, x, y
  <2> QED
    BY <2>2, <2>3
<1> QED
  BY <1>3, <1>4

HistoryTypes ==
  /\ project \in Projects
  /\ step \in {"list", "releases", "histories", "told", "failed", "panicking"}
  /\ read \in [Sampled(project) -> {"wants time", "time", "wants go.mod", "go.mod", "loaded",
                                    "left out", "panicked"}]
  /\ place \in [Deps -> {"waits", "advisories", "no history", "fixes", "fix time", "history",
                         "panicked"}]
  /\ page \in [Deps -> Nat]
  /\ unread \in [Deps -> SUBSET Nat]
  /\ fixTimes \in [Deps -> SUBSET Nat]

(* The releases are read before the first dependency is asked for.         *)
ReleasesFirst ==
  /\ step = "list" => \A r \in Sampled(project) : read[r] = "wants time"
  /\ step \notin {"list", "releases"} => \A r \in Sampled(project) : read[r] \notin {"time", "go.mod"}
  /\ \A d \in Deps : place[d] # "waits" => step \notin {"list", "releases"}

(* The fixes of a dependency that some loaded release requires.            *)
Adoptable(d) ==
  {f \in FixesOn(project, d, LastPage(d)) : Adopters(project, d, f, Loaded) # {}}

FixesAreAdopted(d) ==
  /\ place[d] \in {"waits", "advisories"} => fixTimes[d] = {} /\ page[d] < LastPage(d)
  /\ place[d] \in {"fixes", "fix time", "history"} =>
       unread[d] \subseteq Adoptable(d) /\ fixTimes[d] \subseteq Adoptable(d)
  /\ place[d] = "fix time" => unread[d] # {}

HistoryInv == HistoryTypes /\ ReleasesFirst /\ \A d \in Deps : FixesAreAdopted(d)

(* The fixes that a history names, page by page.                           *)
LEMMA PagesAre ==
  ASSUME NEW p \in Projects, NEW d \in Deps
  PROVE  /\ Len(p.time) \in Nat /\ Sampled(p) \subseteq 1..Len(p.time)
         /\ \A r \in 1..Len(p.time) : p.time[r] \in Int /\ p.requires[r][d] \in Nat
         /\ Len(p.pages[d]) \in Nat \ {0}
         /\ \A n \in 1..Len(p.pages[d]) :
              /\ FixesOn(p, d, n) \subseteq Nat /\ IsFiniteSet(FixesOn(p, d, n))
              /\ \A f \in FixesOn(p, d, n) : p.fixed[d][f] \in Int
<1>1. /\ p.time \in Seq(Int) /\ Len(p.pages[d]) \in Nat \ {0}
      /\ \A r \in 1..Len(p.time) : p.requires[r][d] \in Nat
      /\ \A k \in 1..Len(p.pages[d]) :
           /\ p.pages[d][k] \subseteq Nat /\ IsFiniteSet(p.pages[d][k])
           /\ \A f \in p.pages[d][k] : p.fixed[d][f] \in Int
  BY ProjectsAssumption
<1>2. Len(p.time) \in Nat /\ \A r \in 1..Len(p.time) : p.time[r] \in Int
  BY <1>1
<1>3. Sampled(p) \subseteq 1..Len(p.time)
  BY DEF Sampled
<1>4. ASSUME NEW n \in 1..Len(p.pages[d])
      PROVE  /\ FixesOn(p, d, n) \subseteq Nat /\ IsFiniteSet(FixesOn(p, d, n))
             /\ \A f \in FixesOn(p, d, n) : p.fixed[d][f] \in Int
  <2> DEFINE U == UNION {p.pages[d][k] : k \in 1..n}
             fixesOf == [k \in 1..n |-> p.pages[d][k]]
             sets == {fixesOf[k] : k \in DOMAIN fixesOf}
  <2>1. \A k \in 1..n : k \in 1..Len(p.pages[d])
    BY <1>1
  <2>2. U \subseteq Nat /\ \A f \in U : p.fixed[d][f] \in Int
    BY <1>1, <2>1
  <2>3. IsFiniteSet(U)
    <3>1. IsFiniteSet(DOMAIN fixesOf)
      BY FS_Interval
    <3>2. \A s \in sets : IsFiniteSet(s)
      BY <1>1, <2>1
    <3>3. U = UNION sets
      <4>1. {p.pages[d][k] : k \in 1..n} = sets
        BY Zenon
      <4> HIDE DEF sets
      <4> QED
        BY <4>1
    <3>4. IsFiniteSet(sets)
      <4> DEFINE S == DOMAIN fixesOf
                 R == {q \in sets \X S : q[1] = fixesOf[q[2]]}
      <4>1. \A s \in sets : \E t \in S : s = fixesOf[t]
        OBVIOUS
      <4>2. fixesOf \in Surjection(S, sets)
        BY DEF Surjection
      <4> HIDE DEF fixesOf, sets
      <4> QED
        BY <3>1, <4>2, FS_Surjection
    <3> HIDE DEF sets, U
    <3> QED
      BY <3>2, <3>3, <3>4, FS_UNION
  <2>4. FixesOn(p, d, n) \subseteq U
    BY DEF FixesOn, Newest
  <2> HIDE DEF U
  <2> QED
    BY <2>2, <2>3, <2>4, FS_Subset
<1> QED
  BY <1>1, <1>2, <1>3, <1>4

(* At least one page is read, and no more than there are.                  *)
LEMMA LastPageIs ==
  ASSUME project \in Projects, NEW d \in Deps
  PROVE  LastPage(d) \in 1..Len(project.pages[d])
<1>1. Len(project.pages[d]) \in Nat \ {0} /\ MaxPages \in Nat \ {0}
  BY PagesAre, BoundsAssumption
<1> QED
  BY <1>1 DEF LastPage

(* Before anything is asked.                                               *)
LEMMA HistoryInitInv == HistoryInit => HistoryInv
<1> SUFFICES ASSUME HistoryInit PROVE HistoryInv
  OBVIOUS
<1>1. ASSUME NEW d \in Deps PROVE 0 < LastPage(d)
  <2>1. project \in Projects
    BY DEF HistoryInit
  <2>2. LastPage(d) \in 1..Len(project.pages[d]) /\ Len(project.pages[d]) \in Nat
    BY <2>1, LastPageIs, PagesAre
  <2> QED
    BY <2>2
<1> QED
  BY <1>1 DEF HistoryInit, HistoryInv, HistoryTypes, ReleasesFirst, FixesAreAdopted

(* Every request and every answer keeps the invariant, failed or not.      *)
LEMMA HistoryStep == HistoryInv /\ [HistoryNext]_historyVars => HistoryInv'
<1> SUFFICES ASSUME HistoryInv, [HistoryNext]_historyVars PROVE HistoryInv'
  OBVIOUS
<1>0. HistoryTypes /\ ReleasesFirst /\ \A d \in Deps : FixesAreAdopted(d)
  BY DEF HistoryInv
<1>p. project' = project
  BY DEF HistoryNext, VersionList, ReleasesRead, HistoriesRead, ReleaseWorker, DependencyWorker,
         AskRelease, ReleaseAnswers, AskAdvisories, AdvisoryPage, AskFixTime, FixTimeAnswers, historyVars
<1>l. \A d \in Deps : LastPage(d)' = LastPage(d)
  BY <1>p DEF LastPage
<1>a. ASSUME UNCHANGED read
      PROVE  \A d \in Deps : Adoptable(d)' = Adoptable(d)
  BY <1>a, <1>p, <1>l DEF Adoptable, FixesOn, Loaded, Adopters
<1>1. ASSUME VersionList PROVE HistoryInv'
  <2>1. HistoryTypes' /\ ReleasesFirst'
    BY <1>0, <1>1 DEF VersionList, HistoryTypes, ReleasesFirst
  <2>2. \A d \in Deps : FixesAreAdopted(d)'
    BY <1>0, <1>1, <1>l, <1>a DEF VersionList, FixesAreAdopted
  <2> QED
    BY <2>1, <2>2 DEF HistoryInv
<1>2. ASSUME NEW r \in DOMAIN read, AskRelease(r) PROVE HistoryInv'
  <2>1. step = "releases" /\ \A d \in Deps : place[d] = "waits"
    BY <1>0, <1>2 DEF AskRelease, ReleasesFirst
  <2>2. HistoryTypes' /\ ReleasesFirst'
    BY <1>0, <1>2, <2>1 DEF AskRelease, HistoryTypes, ReleasesFirst
  <2>3. \A d \in Deps : FixesAreAdopted(d)'
    BY <1>0, <1>2, <1>l, <2>1 DEF AskRelease, FixesAreAdopted
  <2> QED
    BY <2>2, <2>3 DEF HistoryInv
<1>3. ASSUME NEW r \in DOMAIN read, ReleaseAnswers(r) PROVE HistoryInv'
  <2>1. r \in Sampled(project) /\ read[r] \in {"time", "go.mod"}
    BY <1>0, <1>3 DEF ReleaseAnswers, HistoryTypes
  <2>2. step = "releases" /\ \A d \in Deps : place[d] = "waits"
    BY <1>0, <2>1 DEF ReleasesFirst, HistoryTypes
  <2>3. HistoryTypes' /\ ReleasesFirst'
    BY <1>0, <1>3, <2>2 DEF ReleaseAnswers, HistoryTypes, ReleasesFirst
  <2>4. \A d \in Deps : FixesAreAdopted(d)'
    BY <1>0, <1>3, <1>l, <2>2 DEF ReleaseAnswers, FixesAreAdopted
  <2> QED
    BY <2>3, <2>4 DEF HistoryInv
<1>4. ASSUME ReleasesRead PROVE HistoryInv'
  <2>1. HistoryTypes' /\ ReleasesFirst'
    BY <1>0, <1>4 DEF ReleasesRead, HistoryTypes, ReleasesFirst
  <2>2. \A d \in Deps : FixesAreAdopted(d)'
    BY <1>0, <1>4, <1>l, <1>a DEF ReleasesRead, FixesAreAdopted
  <2> QED
    BY <2>1, <2>2 DEF HistoryInv
<1>5. ASSUME HistoriesRead PROVE HistoryInv'
  <2>1. HistoryTypes' /\ ReleasesFirst'
    BY <1>0, <1>5 DEF HistoriesRead, HistoryTypes, ReleasesFirst
  <2>2. \A d \in Deps : FixesAreAdopted(d)'
    BY <1>0, <1>5, <1>l, <1>a DEF HistoriesRead, FixesAreAdopted
  <2> QED
    BY <2>1, <2>2 DEF HistoryInv
<1>6. ASSUME NEW d \in Deps, AskAdvisories(d) PROVE HistoryInv'
  <2>1. HistoryTypes' /\ ReleasesFirst'
    BY <1>0, <1>6 DEF AskAdvisories, HistoryTypes, ReleasesFirst
  <2>2. ASSUME NEW e \in Deps PROVE FixesAreAdopted(e)'
    BY <1>0, <1>6, <1>l, <1>a DEF AskAdvisories, FixesAreAdopted, HistoryTypes
  <2> QED
    BY <2>1, <2>2 DEF HistoryInv
<1>7. ASSUME NEW d \in Deps, AdvisoryPage(d) PROVE HistoryInv'
  <2>1. place[d] = "advisories" /\ step \notin {"list", "releases"} /\ fixTimes[d] = {} /\ page[d] < LastPage(d)
    BY <1>0, <1>7 DEF AdvisoryPage, ReleasesFirst, FixesAreAdopted
  <2>2. project \in Projects /\ page[d] \in Nat
    BY <1>0 DEF HistoryTypes
  <2>3. LastPage(d) \in 1..Len(project.pages[d]) /\ LastPage(d) \in Nat
    BY <2>2, LastPageIs, PagesAre
  <2>4. FixesOn(project, d, LastPage(d)) \subseteq Nat
    BY <2>2, <2>3, PagesAre
  <2>5. PICK outcome \in Outcomes :
          LET pages == page[d] + 1
              more == pages < LastPage(d)
          IN CASE outcome = "panicked" ->
                    /\ place' = [place EXCEPT ![d] = "panicked"]
                    /\ UNCHANGED <<requests, page, unread>>
               [] outcome = "failed" ->
                    /\ place' = [place EXCEPT ![d] = "no history"]
                    /\ UNCHANGED <<requests, page, unread>>
               [] outcome = "answered" /\ more ->
                    /\ page' = [page EXCEPT ![d] = pages]
                    /\ place' = [place EXCEPT ![d] = IF Allowed THEN "advisories" ELSE "no history"]
                    /\ Spend /\ UNCHANGED unread
               [] outcome = "answered" /\ ~more ->
                    /\ page' = [page EXCEPT ![d] = pages]
                    /\ unread' = [unread EXCEPT ![d] = {f \in FixesOn(project, d, pages) :
                                                          Adopters(project, d, f, Loaded) # {}}]
                    /\ place' = [place EXCEPT ![d] = "fixes"]
                    /\ UNCHANGED requests
    BY <1>7 DEF AdvisoryPage
  <2>6. UNCHANGED <<project, step, read, fixTimes>>
    BY <1>7 DEF AdvisoryPage
  <2>7. outcome \in {"panicked", "failed", "answered"}
    BY DEF Outcomes
  <2>8. ReleasesFirst'
    <3>1. \A e \in Deps : place'[e] # place[e] => e = d
      BY <1>0, <2>5, <2>7 DEF HistoryTypes
    <3> QED
      BY <1>0, <2>1, <2>6, <3>1 DEF ReleasesFirst
  <2>9. CASE outcome \in {"panicked", "failed"}
    <3>1. UNCHANGED <<page, unread>> /\ \E x \in {"panicked", "no history"} : place' = [place EXCEPT ![d] = x]
      BY <2>5, <2>9
    <3>2. HistoryTypes'
      BY <1>0, <2>6, <3>1 DEF HistoryTypes
    <3>3. \A e \in Deps : FixesAreAdopted(e)'
      BY <1>0, <1>l, <1>a, <2>6, <3>1 DEF FixesAreAdopted, HistoryTypes
    <3> QED
      BY <2>8, <3>2, <3>3 DEF HistoryInv
  <2>10. CASE outcome = "answered" /\ page[d] + 1 < LastPage(d)
    <3>1. /\ page' = [page EXCEPT ![d] = page[d] + 1] /\ UNCHANGED unread
          /\ \E x \in {"advisories", "no history"} : place' = [place EXCEPT ![d] = x]
      BY <2>5, <2>10
    <3>2. HistoryTypes'
      <4>1. page \in [Deps -> Nat] /\ page[d] + 1 \in Nat
        <5>1. page \in [Deps -> Nat]
          BY <1>0 DEF HistoryTypes
        <5>2. page[d] + 1 \in Nat
          BY <2>2
        <5> QED
          BY <5>1, <5>2
      <4>2. page' \in [Deps -> Nat]
        BY <3>1, <4>1, Zenon
      <4> QED
        BY <1>0, <2>6, <3>1, <4>2 DEF HistoryTypes
    <3>3. \A e \in Deps : FixesAreAdopted(e)'
      BY <1>0, <1>l, <1>a, <2>1, <2>6, <2>10, <3>1 DEF FixesAreAdopted, HistoryTypes
    <3> QED
      BY <2>8, <3>2, <3>3 DEF HistoryInv
  <2>11. CASE outcome = "answered" /\ ~(page[d] + 1 < LastPage(d))
    <3>1. page[d] + 1 = LastPage(d)
      BY <2>1, <2>2, <2>3, <2>11
    <3>2. /\ page' = [page EXCEPT ![d] = page[d] + 1]
          /\ unread' = [unread EXCEPT ![d] = Adoptable(d)]
          /\ place' = [place EXCEPT ![d] = "fixes"]
      BY <2>5, <2>11, <3>1 DEF Adoptable
    <3>3. Adoptable(d) \in SUBSET Nat
      BY <2>4 DEF Adoptable
    <3>4. HistoryTypes'
      <4>0. page \in [Deps -> Nat] /\ page[d] + 1 \in Nat
        <5>1. page \in [Deps -> Nat]
          BY <1>0 DEF HistoryTypes
        <5>2. page[d] + 1 \in Nat
          BY <2>2
        <5> QED
          BY <5>1, <5>2
      <4>1. page' \in [Deps -> Nat]
        BY <3>2, <4>0, Zenon
      <4>2. unread' \in [Deps -> SUBSET Nat]
        BY <1>0, <3>2, <3>3 DEF HistoryTypes
      <4> QED
        BY <1>0, <2>6, <3>2, <4>1, <4>2 DEF HistoryTypes
    <3>5. \A e \in Deps : FixesAreAdopted(e)'
      BY <1>0, <1>l, <1>a, <2>1, <2>6, <3>2 DEF FixesAreAdopted, HistoryTypes
    <3> QED
      BY <2>8, <3>4, <3>5 DEF HistoryInv
  <2> QED
    BY <2>7, <2>9, <2>10, <2>11
<1>8. ASSUME NEW d \in Deps, AskFixTime(d) PROVE HistoryInv'
  <2>1. place[d] = "fixes" /\ step \notin {"list", "releases"}
    BY <1>0, <1>8 DEF AskFixTime, ReleasesFirst
  <2>2. UNCHANGED <<project, step, read, page, fixTimes>>
    BY <1>8 DEF AskFixTime
  <2>3. \/ unread[d] = {} /\ place' = [place EXCEPT ![d] = "history"] /\ UNCHANGED unread
        \/ unread[d] # {} /\ place' = [place EXCEPT ![d] = "fix time"] /\ UNCHANGED unread
        \/ unread' = [unread EXCEPT ![d] = unread[d] \ {First(unread[d])}] /\ UNCHANGED place
    BY <1>8 DEF AskFixTime
  <2>4. HistoryTypes' /\ ReleasesFirst'
    BY <1>0, <2>1, <2>2, <2>3 DEF HistoryTypes, ReleasesFirst
  <2>5. \A e \in Deps : FixesAreAdopted(e)'
    BY <1>0, <1>l, <1>a, <2>1, <2>2, <2>3 DEF FixesAreAdopted, HistoryTypes
  <2> QED
    BY <2>4, <2>5 DEF HistoryInv
<1>9. ASSUME NEW d \in Deps, FixTimeAnswers(d) PROVE HistoryInv'
  <2>1. place[d] = "fix time" /\ step \notin {"list", "releases"} /\ unread[d] # {}
    BY <1>0, <1>9 DEF FixTimeAnswers, ReleasesFirst, FixesAreAdopted
  <2>2. unread[d] \in SUBSET Nat
    BY <1>0 DEF HistoryTypes
  <2>3. First(unread[d]) \in unread[d]
    BY <2>1, <2>2, FirstIs
  <2>4. /\ UNCHANGED <<project, step, read, page>>
        /\ unread' = [unread EXCEPT ![d] = unread[d] \ {First(unread[d])}]
        /\ \E x \in {"panicked", "fixes"} : place' = [place EXCEPT ![d] = x]
        /\ fixTimes' = [fixTimes EXCEPT ![d] = fixTimes[d] \cup {First(unread[d])}] \/ fixTimes' = fixTimes
    BY <1>9 DEF FixTimeAnswers
  <2>a. PICK x \in {"panicked", "fixes"} : place' = [place EXCEPT ![d] = x]
    BY <2>4
  <2>b. place' \in [Deps -> {"waits", "advisories", "no history", "fixes", "fix time", "history",
                            "panicked"}]
    BY <1>0, <2>a DEF HistoryTypes
  <2>d. PICK left \in SUBSET Nat : left \subseteq unread[d] /\ unread' = [unread EXCEPT ![d] = left]
    <3>1. unread[d] \ {First(unread[d])} \in SUBSET Nat
      BY <2>2
    <3> QED
      BY <2>4, <3>1
  <2>e. PICK known \in SUBSET Nat :
          known \subseteq fixTimes[d] \cup unread[d] /\ fixTimes' = [fixTimes EXCEPT ![d] = known]
    <3>1. fixTimes \in [Deps -> SUBSET Nat]
      BY <1>0 DEF HistoryTypes
    <3>2. fixTimes[d] \cup {First(unread[d])} \in SUBSET Nat /\ fixTimes[d] \in SUBSET Nat
      BY <2>2, <2>3, <3>1
    <3>3. CASE fixTimes' = [fixTimes EXCEPT ![d] = fixTimes[d] \cup {First(unread[d])}]
      BY <2>3, <3>2, <3>3
    <3>4. CASE fixTimes' = fixTimes
      <4>1. fixTimes' = [fixTimes EXCEPT ![d] = fixTimes[d]]
        BY <3>1, <3>4
      <4> QED
        BY <3>2, <4>1
    <3> QED
      BY <2>4, <3>3, <3>4
  <2>c. unread' \in [Deps -> SUBSET Nat] /\ fixTimes' \in [Deps -> SUBSET Nat]
    <3>1. unread \in [Deps -> SUBSET Nat] /\ fixTimes \in [Deps -> SUBSET Nat]
      BY <1>0 DEF HistoryTypes
    <3>2. unread' \in [Deps -> SUBSET Nat]
      BY <2>d, <3>1, Zenon
    <3>3. fixTimes' \in [Deps -> SUBSET Nat]
      BY <2>e, <3>1, Zenon
    <3> QED
      BY <3>2, <3>3
  <2>5. HistoryTypes' /\ ReleasesFirst'
    <3>1. HistoryTypes'
      BY <1>0, <2>4, <2>b, <2>c DEF HistoryTypes
    <3>2. \A e \in Deps : place'[e] # place[e] => e = d
      BY <1>0, <2>a DEF HistoryTypes
    <3> QED
      BY <1>0, <2>1, <2>4, <3>1, <3>2 DEF ReleasesFirst
  <2>6. \A e \in Deps : FixesAreAdopted(e)'
    <3>0. /\ unread \in [Deps -> SUBSET Nat] /\ fixTimes \in [Deps -> SUBSET Nat]
          /\ DOMAIN place = Deps
      BY <1>0 DEF HistoryTypes
    <3>1. ASSUME NEW e \in Deps, e # d PROVE FixesAreAdopted(e)'
      <4>1. unread'[e] = unread[e] /\ fixTimes'[e] = fixTimes[e] /\ place'[e] = place[e]
        BY <2>a, <2>d, <2>e, <3>0, <3>1
      <4> QED
        BY <1>0, <1>l, <1>a, <2>4, <4>1 DEF FixesAreAdopted
    <3>2. unread'[d] \subseteq Adoptable(d) /\ fixTimes'[d] \subseteq Adoptable(d)
      <4>1. unread[d] \subseteq Adoptable(d) /\ fixTimes[d] \subseteq Adoptable(d)
        BY <1>0, <2>1 DEF FixesAreAdopted
      <4>2. unread'[d] \subseteq unread[d] /\ fixTimes'[d] \subseteq fixTimes[d] \cup unread[d]
        BY <2>d, <2>e, <3>0
      <4> QED
        BY <4>1, <4>2
    <3>3. place'[d] \in {"panicked", "fixes"}
      BY <2>a, <3>0
    <3>4. FixesAreAdopted(d)'
      BY <1>a, <2>4, <3>2, <3>3 DEF FixesAreAdopted
    <3> QED
      BY <3>1, <3>4
  <2> QED
    BY <2>5, <2>6 DEF HistoryInv
<1>10. ASSUME UNCHANGED historyVars PROVE HistoryInv'
  <2>1. HistoryTypes' /\ ReleasesFirst'
    BY <1>0, <1>10 DEF historyVars, HistoryTypes, ReleasesFirst
  <2>2. \A d \in Deps : FixesAreAdopted(d)'
    BY <1>0, <1>10, <1>l, <1>a DEF historyVars, FixesAreAdopted
  <2> QED
    BY <2>1, <2>2 DEF HistoryInv
<1> QED
  BY <1>1, <1>2, <1>3, <1>4, <1>5, <1>6, <1>7, <1>8, <1>9, <1>10
     DEF HistoryNext, ReleaseWorker, DependencyWorker

(* The invariant always holds.                                             *)
LEMMA AlwaysHistoryInv == HistorySpec => []HistoryInv
<1> QED
  BY HistoryInitInv, HistoryStep, PTL DEF HistorySpec

(* The first of fewer releases is no earlier.                              *)
LEMMA LaterWithFewer ==
  ASSUME NEW S \in SUBSET Nat, NEW R \in SUBSET S, R # {}
  PROVE  First(S) \in S /\ First(R) \in R /\ First(S) <= First(R)
<1>1. R \in SUBSET Nat /\ S # {}
  OBVIOUS
<1>2. First(S) \in S /\ \A y \in S : First(S) <= y
  BY <1>1, FirstIs
<1>3. First(R) \in R
  BY <1>1, FirstIs
<1> QED
  BY <1>2, <1>3

(* Over fewer releases a fix is adopted later, and counted only if it is   *)
(* counted over all.                                                       *)
LEMMA DaysGrow ==
  ASSUME NEW p \in Projects, NEW d \in Deps, NEW f, p.fixed[d][f] \in Int,
         \A r, s \in Sampled(p) : r < s => p.time[r] <= p.time[s],
         NEW R \in SUBSET Sampled(p), Adopters(p, d, f, R) # {}
  PROVE  /\ Adopters(p, d, f, Sampled(p)) # {}
         /\ p.time[First(Sampled(p))] \in Int /\ p.time[First(R)] \in Int
         /\ p.time[First(Sampled(p))] <= p.time[First(R)]
         /\ Days(p, d, f, R) \in Int /\ Days(p, d, f, Sampled(p)) \in Int
         /\ Days(p, d, f, Sampled(p)) <= Days(p, d, f, R)
<1> DEFINE S == Sampled(p)
           few == Adopters(p, d, f, R)
           all == Adopters(p, d, f, S)
<1>1. S \in SUBSET Nat /\ \A r \in S : p.time[r] \in Int
  BY PagesAre
<1>2. R \in SUBSET S /\ R # {} /\ few \in SUBSET R /\ few # {}
  BY DEF Adopters
<1>3. few \in SUBSET all /\ all \in SUBSET S /\ all \in SUBSET Nat
  BY <1>1 DEF Adopters
<1> HIDE DEF S, few, all
<1>4. First(S) \in S /\ First(R) \in R /\ First(S) <= First(R)
  BY <1>1, <1>2, LaterWithFewer
<1>5. First(all) \in all /\ First(few) \in few /\ First(all) <= First(few)
  BY <1>2, <1>3, LaterWithFewer
<1>6. \A r \in S, s \in S : r <= s => p.time[r] <= p.time[s]
  <2> SUFFICES ASSUME NEW r \in S, NEW s \in S, r <= s PROVE p.time[r] <= p.time[s]
    OBVIOUS
  <2>1. r \in Nat /\ s \in Nat /\ p.time[r] \in Int /\ p.time[s] \in Int
    BY <1>1
  <2>2. r < s => p.time[r] <= p.time[s]
    BY DEF S
  <2> QED
    BY <2>1, <2>2
<1>7. /\ p.time[First(S)] \in Int /\ p.time[First(R)] \in Int
      /\ p.time[First(S)] <= p.time[First(R)]
  BY <1>1, <1>2, <1>4, <1>6
<1>8. /\ p.time[First(all)] \in Int /\ p.time[First(few)] \in Int
      /\ p.time[First(all)] <= p.time[First(few)]
  BY <1>1, <1>2, <1>3, <1>5, <1>6
<1> DEFINE t == p.time[First(few)]
           u == p.time[First(all)]
           x == p.fixed[d][f]
<1>9. /\ Days(p, d, f, R) = IF t > x THEN t - x ELSE 0
      /\ Days(p, d, f, S) = IF u > x THEN u - x ELSE 0
  BY DEF Days, few, all
<1>10. t \in Int /\ u \in Int /\ x \in Int /\ u <= t
  BY <1>8
<1> HIDE DEF t, u, x
<1>11. /\ Days(p, d, f, R) \in Int /\ Days(p, d, f, S) \in Int
       /\ Days(p, d, f, S) <= Days(p, d, f, R)
  BY <1>9, <1>10
<1> QED
  BY <1>2, <1>3, <1>7, <1>11 DEF S, few, all

(* Whatever failed, the history never makes the module look faster than it *)
(* was.                                                                    *)
LEMMA NeverFlatters == HistoryInv => HistoryNeverFlatters
<1> SUFFICES ASSUME HistoryInv, NEW d \in Deps, Told(d), InOrderOfTime
             PROVE  /\ SamplesOf(d) \subseteq TrueSamples(d)
                    /\ MedianDays(DaysOf(d), SamplesOf(d)) >= MedianDays(TrueDays(d), SamplesOf(d))
  BY DEF HistoryNeverFlatters
<1>1. /\ project \in Projects /\ Loaded \in SUBSET Sampled(project)
      /\ fixTimes[d] \subseteq Adoptable(d)
  BY DEF HistoryInv, HistoryTypes, Loaded, FixesAreAdopted, Told
<1>2. /\ FixesOn(project, d, LastPage(d)) \subseteq Nat /\ IsFiniteSet(FixesOn(project, d, LastPage(d)))
      /\ \A f \in FixesOn(project, d, LastPage(d)) : project.fixed[d][f] \in Int
  BY <1>1, LastPageIs, PagesAre
<1>3. \A r, s \in Sampled(project) : r < s => project.time[r] <= project.time[s]
  BY DEF InOrderOfTime
<1>4. ASSUME NEW f \in SamplesOf(d)
      PROVE  /\ f \in TrueSamples(d) /\ Days(project, d, f, Loaded) \in Int
             /\ Days(project, d, f, Sampled(project)) \in Int
             /\ Days(project, d, f, Sampled(project)) <= Days(project, d, f, Loaded)
  <2>1. /\ f \in FixesOn(project, d, LastPage(d)) /\ Adopters(project, d, f, Loaded) # {}
        /\ project.fixed[d][f] > project.time[First(Loaded)]
    BY <1>1 DEF SamplesOf, WithinSample, Adoptable
  <2>2. project.fixed[d][f] \in Int
    BY <1>2, <2>1
  <2>3. /\ Adopters(project, d, f, Sampled(project)) # {}
        /\ project.time[First(Sampled(project))] \in Int /\ project.time[First(Loaded)] \in Int
        /\ project.time[First(Sampled(project))] <= project.time[First(Loaded)]
        /\ Days(project, d, f, Loaded) \in Int /\ Days(project, d, f, Sampled(project)) \in Int
        /\ Days(project, d, f, Sampled(project)) <= Days(project, d, f, Loaded)
    BY <1>1, <1>3, <2>1, <2>2, DaysGrow
  <2>4. project.fixed[d][f] > project.time[First(Sampled(project))]
    BY <2>1, <2>2, <2>3
  <2> QED
    BY <2>1, <2>3, <2>4 DEF TrueSamples
<1>5. SamplesOf(d) \in SUBSET Nat /\ IsFiniteSet(SamplesOf(d)) /\ SamplesOf(d) # {}
  <2>1. SamplesOf(d) \subseteq FixesOn(project, d, LastPage(d))
    BY <1>1 DEF SamplesOf, Adoptable
  <2>2. MinSamples \in Nat \ {0} /\ Cardinality(SamplesOf(d)) >= MinSamples
    BY BoundsAssumption DEF Told
  <2> QED
    BY <1>2, <2>1, <2>2, FS_Subset, FS_EmptySet
<1>6. \A f \in SamplesOf(d) :
        TrueDays(d)[f] \in Int /\ DaysOf(d)[f] \in Int /\ TrueDays(d)[f] <= DaysOf(d)[f]
  BY <1>4 DEF TrueDays, DaysOf
<1>7. /\ MedianDays(TrueDays(d), SamplesOf(d)) \in Int
      /\ MedianDays(DaysOf(d), SamplesOf(d)) \in Int
      /\ MedianDays(TrueDays(d), SamplesOf(d)) <= MedianDays(DaysOf(d), SamplesOf(d))
  BY <1>5, <1>6, MedianGrows
<1> QED
  BY <1>4, <1>7

(* (responsehistory.go) A fix is counted only if a whole reading counts    *)
(* it, and the median over the fixes that are counted is no shorter than   *)
(* it was, whatever failed and whoever spent the budget.                   *)
THEOREM HistoryNeverFlattersHolds == HistorySpec => []HistoryNeverFlatters
<1> QED
  BY AlwaysHistoryInv, NeverFlatters, PTL
=============================================================================
