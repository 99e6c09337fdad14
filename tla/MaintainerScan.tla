--------------------------- MODULE MaintainerScan ---------------------------
(***************************************************************************)
(* The two fan-outs of a scan that read GitHub repository records:         *)
(* MaintainerScanner.ScanAll and then MaintenanceScanner.ScanArchived, over*)
(* one MaintainerScanner.  Each fan-out starts a worker per module, bounds *)
(* the running ones with a semaphore, waits for all of them and carries a  *)
(* worker's panic to the caller (internal/safego).  Both read repository   *)
(* records through repoMeta, so the module composes OnceCache.             *)
(*                                                                         *)
(* A job is one worker of one of the two fan-outs.  The owner profile      *)
(* (fetchUser) is a second onceCache with nothing downstream that decides  *)
(* anything; it is left out.  Fields copied from a record are not kept,    *)
(* only whether there is one.                                              *)
(***************************************************************************)
EXTENDS Naturals, FiniteSets

CONSTANTS
  Jobs, PhaseOf,    \* the workers and the fan-out each belongs to
  Names, NameOf,    \* owner/repo as the module path spells it
  Keys, LowerOf,    \* the lower-cased name
  Canonical, Scan,  \* Scan is the one context of the scan
  Slots,            \* size of the semaphore
  MayPanic, None, Preset

ASSUME ScanAssumption ==
  /\ PhaseOf \in [Jobs -> {"maintainers", "archived"}]
  /\ NameOf \in [Jobs -> Names]
  /\ LowerOf \in [Names -> Keys]
  /\ Canonical \in [Keys -> Keys]
  /\ Slots \in Nat \ {0}
  /\ MayPanic \in BOOLEAN
  /\ None \notin Jobs /\ Preset \notin Jobs /\ None # Preset

VARIABLES
  opc, m, val, closed, joined, cancelled,   \* OnceCache
  phase,      \* where the caller of the fan-outs is
  wpc,        \* where each worker is
  slots,      \* the workers holding a semaphore slot
  repoLock,   \* repoLocks: the worker holding a name's mutex
  cache,      \* ms.cache: what analyzeRepo remembers of a name
  info,       \* what a worker recorded for its module
  asked,      \* the workers that asked for the contributors
  panicking,  \* the workers a panic is unwinding
  first       \* Catcher.first: the worker whose panic is kept

onceVars == <<opc, m, val, closed, joined, cancelled>>
workerVars == <<wpc, slots, repoLock, cache, info, asked, panicking, first>>
vars == <<onceVars, phase, workerVars>>

KeyOf == [j \in Jobs |-> LowerOf[NameOf[j]]]

Once == INSTANCE OnceCache WITH
  Calls <- Jobs, pc <- opc, Ctxs <- {Scan}, CtxOf <- [j \in Jobs |-> Scan]

Init ==
  /\ Once!Init
  /\ phase = "maintainers"
  /\ wpc = [j \in Jobs |-> "new"]
  /\ slots = {}
  /\ repoLock = [n \in Names |-> None]
  /\ cache = [n \in Names |-> "none"]
  /\ info = [j \in Jobs |-> "none"]
  /\ asked = {}
  /\ panicking = {}
  /\ first = None

Goto(j, to) == wpc' = [wpc EXCEPT ![j] = to]

Unlock(j) ==
  repoLock' = [n \in Names |-> IF repoLock[n] = j THEN None ELSE repoLock[n]]

-----------------------------------------------------------------------------
(* sem <- struct{}{}; every worker of the running fan-out competes.        *)
Acquire(j) ==
  /\ wpc[j] = "new" /\ PhaseOf[j] = phase
  /\ Cardinality(slots) < Slots
  /\ slots' = slots \cup {j}
  /\ Goto(j, IF phase = "maintainers" THEN "look" ELSE "meta")
  /\ UNCHANGED <<onceVars, phase, repoLock, cache, info, asked, panicking,
                 first>>

(* analyzeRepo's first look in ms.cache, before the repository's mutex.    *)
Look(j) ==
  LET known == cache[NameOf[j]] IN
  /\ wpc[j] = "look"
  /\ info' = [info EXCEPT ![j] = known]
  /\ Goto(j, IF known # "none" THEN "release" ELSE "lock")
  /\ UNCHANGED <<onceVars, phase, slots, repoLock, cache, asked, panicking,
                 first>>

Lock(j) ==
  /\ wpc[j] = "lock"
  /\ repoLock[NameOf[j]] = None
  /\ repoLock' = [repoLock EXCEPT ![NameOf[j]] = j]
  /\ Goto(j, "relook")
  /\ UNCHANGED <<onceVars, phase, slots, cache, info, asked, panicking, first>>

\* Mutant: no second look.
RelookBlind(j) ==
  /\ wpc[j] = "relook"
  /\ Goto(j, "meta")
  /\ UNCHANGED <<onceVars, phase, slots, repoLock, cache, info, asked,
                 panicking, first>>

(* The second look, with the mutex held: another worker may have filled the*)
(* cache while this one waited.                                            *)
Relook(j) ==
  LET known == cache[NameOf[j]] IN
  /\ wpc[j] = "relook"
  /\ info' = [info EXCEPT ![j] = known]
  /\ IF known # "none"
     THEN Unlock(j) /\ Goto(j, "release")
     ELSE UNCHANGED repoLock /\ Goto(j, "meta")
  /\ UNCHANGED <<onceVars, phase, slots, cache, asked, panicking, first>>

(* A step of repoMeta on the worker's goroutine.                           *)
Meta(j) ==
  /\ wpc[j] = "meta"
  /\ Once!Step(j)
  /\ UNCHANGED <<phase, workerVars>>

(* analyzeRepo remembers a failure too, and goes on only with a record.    *)
(* ScanArchived sets ArchivedCheck from the answer.                        *)
MetaReturns(j) ==
  LET r == Once!Result(j) IN
  /\ wpc[j] = "meta" /\ opc[j] = "returned"
  /\ IF PhaseOf[j] = "maintainers" /\ r = "ok"
     THEN Goto(j, "enrich") /\ UNCHANGED <<info, cache, repoLock>>
     ELSE /\ info' = [info EXCEPT ![j] = r]
          /\ cache' = IF PhaseOf[j] = "maintainers"
                      THEN [cache EXCEPT ![NameOf[j]] = r] ELSE cache
          /\ Unlock(j)
          /\ Goto(j, "release")
  /\ UNCHANGED <<onceVars, phase, slots, asked, panicking, first>>

(* The owner's profile and the contributors; their failure leaves fields   *)
(* empty and the record good.                                              *)
Enrich(j) ==
  /\ wpc[j] = "enrich"
  /\ asked' = asked \cup {j}
  /\ info' = [info EXCEPT ![j] = "ok"]
  /\ cache' = [cache EXCEPT ![NameOf[j]] = "ok"]
  /\ Unlock(j)
  /\ Goto(j, "release")
  /\ UNCHANGED <<onceVars, phase, slots, panicking, first>>

(* A panic in a lookup unwinds the worker: analyzeRepo's deferred Unlock   *)
(* runs, then the worker's own deferred calls.                             *)
Unwind(j) ==
  /\ \/ wpc[j] = "meta" /\ opc[j] = "panicked"
     \/ wpc[j] = "enrich" /\ MayPanic
  /\ panicking' = panicking \cup {j}
  /\ Unlock(j)
  /\ Goto(j, "release")
  /\ UNCHANGED <<onceVars, phase, slots, cache, info, asked, first>>

-----------------------------------------------------------------------------
\* Mutant: the slot is not given back.
ReleaseKeepsSlot(j) ==
  /\ wpc[j] = "release"
  /\ Goto(j, "recover")
  /\ UNCHANGED <<onceVars, phase, slots, repoLock, cache, info, asked,
                 panicking, first>>

(* The worker's deferred calls, in the order they run: the semaphore slot, *)
(* Catcher.Recover, wg.Done.                                               *)
Release(j) ==
  /\ wpc[j] = "release"
  /\ slots' = slots \ {j}
  /\ Goto(j, "recover")
  /\ UNCHANGED <<onceVars, phase, repoLock, cache, info, asked, panicking,
                 first>>

Recover(j) ==
  /\ wpc[j] = "recover"
  /\ first' = IF j \in panicking /\ first = None THEN j ELSE first
  /\ Goto(j, "wgdone")
  /\ UNCHANGED <<onceVars, phase, slots, repoLock, cache, info, asked,
                 panicking>>

WgDone(j) ==
  /\ wpc[j] = "wgdone"
  /\ Goto(j, "done")
  /\ UNCHANGED <<onceVars, phase, slots, repoLock, cache, info, asked,
                 panicking, first>>

\* Mutant: wg.Done runs before Recover.
AllDoneEarly == \A j \in Jobs :
  PhaseOf[j] = phase => wpc[j] \in {"recover", "wgdone", "done"}

AllDone == \A j \in Jobs : PhaseOf[j] = phase => wpc[j] = "done"

(* wg.Wait(); panics.Repanic(); then the next fan-out.                     *)
WaitAndRepanic ==
  /\ phase \in {"maintainers", "archived"}
  /\ AllDone
  /\ phase' = CASE first # None -> "panicked"
                [] first = None /\ phase = "maintainers" -> "archived"
                [] first = None /\ phase = "archived" -> "finished"
  /\ UNCHANGED <<onceVars, workerVars>>

CancelScan ==
  /\ phase \in {"maintainers", "archived"}
  /\ Once!Cancel(Scan)
  /\ UNCHANGED <<phase, workerVars>>

Worker(j) ==
  \/ Acquire(j) \/ Look(j) \/ Lock(j) \/ Relook(j)
  \/ Meta(j) \/ MetaReturns(j) \/ Enrich(j) \/ Unwind(j)
  \/ Release(j) \/ Recover(j) \/ WgDone(j)

Next ==
  \/ \E j \in Jobs : Worker(j)
  \/ WaitAndRepanic
  \/ CancelScan

(* Go schedules every goroutine.  Weak fairness is enough for a mutex and  *)
(* for a slot too: each worker takes them once, so the last waiter finds   *)
(* them free for good.                                                     *)
Fairness ==
  /\ \A j \in Jobs : WF_vars(Worker(j))
  /\ WF_vars(WaitAndRepanic)

Spec == Init /\ [][Next]_vars
FairSpec == Spec /\ Fairness

-----------------------------------------------------------------------------
(* A panic of a worker is never lost: when a fan-out's caller goes on to   *)
(* the next one, or finishes, no worker of it has panicked (safego.go:23-27*)
(* on why Recover must run before wg.Done).                                *)
PanicReachesCaller ==
  \A j \in panicking : phase # PhaseOf[j] => phase = "panicked"

(* The contributors, which no onceCache guards, are asked for once per name*)
(* (the mutex and the second look in ms.cache together).                   *)
ContributorsAskedOnce ==
  \A i, j \in asked : NameOf[i] = NameOf[j] => i = j

(* The modules of one name are told the same thing, whichever worker was   *)
(* first, even when the scan is cancelled half way.                        *)
OneNameOneInfo ==
  \A i, j \in Jobs :
    /\ PhaseOf[i] = "maintainers" /\ PhaseOf[j] = "maintainers"
    /\ NameOf[i] = NameOf[j]
    /\ info[i] # "none" /\ info[j] # "none"
    => info[i] = info[j]

(* The archived flag is read from the record the maintainer scan read: a   *)
(* module it has data for is never "failed" in a scan nobody cancelled, and*)
(* one that GitHub refused is never "checked".                             *)
ArchivedAgrees ==
  \A i, j \in Jobs :
    /\ PhaseOf[i] = "maintainers" /\ PhaseOf[j] = "archived"
    /\ KeyOf[i] = KeyOf[j] /\ cancelled = {}
    /\ info[i] # "none" /\ info[j] # "none"
    => info[i] = info[j]

(* "Modules from one repository share one request", and so one answer, in  *)
(* both fan-outs, as far as they have one name for it.                     *)
OneRepositoryOneAnswer == ContributorsAskedOnce /\ OneNameOneInfo /\ ArchivedAgrees

(* The fan-outs are over, with a result or with the panic (runner.go:220-222). *)
Ended == phase \in {"finished", "panicked"}

(* A repository's lookup panicked, and a worker waits for its answer.      *)
LookupAbandoned ==
  \E i, j \in Jobs : /\ i # j /\ KeyOf[i] = KeyOf[j]
                     /\ opc[i] = "panicked" /\ opc[j] = "waiting"
=============================================================================
