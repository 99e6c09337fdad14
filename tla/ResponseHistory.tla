---------------------------- MODULE ResponseHistory ----------------------------
(***************************************************************************)
(* ScanResponseHistory (pkg/scanner/responsehistory.go): how many days the *)
(* scanned module took, in the past, to require the fixed version of each  *)
(* of its dependencies.                                                    *)
(*                                                                         *)
(* The caller reads the module's version list; a worker for each release   *)
(* reads its time and its go.mod; a worker for each dependency reads the   *)
(* advisories and the times of the fixes.  One semaphore and one budget of *)
(* requests are shared by all of them, and any request may fail or panic.  *)
(* No two workers ask for the same thing, so the once of a cache entry is  *)
(* never waited for and is left out.                                       *)
(*                                                                         *)
(* A release is its number in the order of the versions, a fix is the      *)
(* version of its dependency, and a time is a day.  A project is           *)
(*   [time, requires : a sequence over the releases,                       *)
(*    pages : [Deps -> the fixes of each page of the advisories],          *)
(*    fixed : [Deps -> the day of each fix]]                               *)
(* where requires[r][d] is the version of d in release r, 0 for none.      *)
(***************************************************************************)
EXTENDS Integers, Sequences, FiniteSets

CONSTANTS
  Deps,               \* the dependencies that are asked for
  Projects,           \* the histories that a module may have
  MaxVersions,        \* the releases that are read, the newest ones
  MaxFixes,           \* responseHistoryMaxFixes
  MaxPages,           \* responseHistoryOSVPages
  MinSamples,         \* MinResponseSamples
  MaxRequests,        \* the budget of requests
  Concurrency,        \* responseHistoryConcurrency
  RequestMayPanic     \* whether a request may panic

ASSUME BoundsAssumption ==
  /\ {MaxVersions, MaxFixes, MaxPages, MinSamples, MaxRequests, Concurrency} \subseteq Nat \ {0}
  /\ RequestMayPanic \in BOOLEAN

(* A time for every release and for every fix that an advisory names; the   *)
(* advisories fill at least one page, which may be empty.                   *)
ASSUME ProjectsAssumption ==
  \A p \in Projects :
    /\ p.time \in Seq(Int) /\ Len(p.requires) = Len(p.time)
    /\ \A r \in 1..Len(p.time), d \in Deps : p.requires[r][d] \in Nat
    /\ \A d \in Deps :
         /\ Len(p.pages[d]) \in Nat \ {0}
         /\ \A k \in 1..Len(p.pages[d]) :
              /\ p.pages[d][k] \subseteq Nat /\ IsFiniteSet(p.pages[d][k])
              /\ \A f \in p.pages[d][k] : p.fixed[d][f] \in Int

VARIABLES
  project,    \* the history of the module
  step,       \* "list", "releases", "histories", and then "told", "failed" or "panicking"
  requests,   \* the requests that are left
  read,       \* [releases that are sampled -> how far its worker is]
  place,      \* [Deps -> how far its worker is]
  page,       \* [Deps -> the pages of advisories read]
  unread,     \* [Deps -> the adopted fixes whose time is not asked for yet]
  fixTimes    \* [Deps -> the fixes whose time was read]

historyVars == <<project, step, requests, read, place, page, unread, fixTimes>>

(* The newest versions of the list.                                         *)
Sampled(p) == {r \in 1..Len(p.time) : r > Len(p.time) - MaxVersions}

HistoryInit ==
  /\ project \in Projects
  /\ step = "list" /\ requests = MaxRequests
  /\ read = [r \in Sampled(project) |-> "wants time"]
  /\ place = [d \in Deps |-> "waits"]
  /\ page = [d \in Deps |-> 0]
  /\ unread = [d \in Deps |-> {}]
  /\ fixTimes = [d \in Deps |-> {}]

-----------------------------------------------------------------------------
(* Requests: do takes a slot and get takes a request from the budget; none  *)
(* left is a failure, as is any other answer than the one asked for.        *)

InRequest ==
  Cardinality({r \in DOMAIN read : read[r] \in {"time", "go.mod"}})
    + Cardinality({d \in Deps : place[d] \in {"advisories", "fix time"}})

SlotFree == InRequest < Concurrency

Spend == requests' = IF requests > 0 THEN requests - 1 ELSE 0

Allowed == requests > 0

Outcomes == {"answered", "failed"} \cup (IF RequestMayPanic THEN {"panicked"} ELSE {})

VersionList ==
  /\ step = "list" /\ Spend
  /\ \E answered \in BOOLEAN :
       step' = IF ~(Allowed /\ answered) THEN "failed"
               ELSE IF Sampled(project) = {} THEN "told"
               ELSE "releases"
  /\ UNCHANGED <<project, read, place, page, unread, fixTimes>>

-----------------------------------------------------------------------------
(* loadReleases: the time and then the go.mod of each release.              *)

AskRelease(r) ==
  /\ step = "releases" /\ SlotFree
  /\ \/ read[r] = "wants time" /\ read' = [read EXCEPT ![r] = IF Allowed THEN "time" ELSE "left out"]
     \/ read[r] = "wants go.mod" /\ read' = [read EXCEPT ![r] = IF Allowed THEN "go.mod" ELSE "left out"]
  /\ Spend
  /\ UNCHANGED <<project, step, place, page, unread, fixTimes>>

ReleaseAnswers(r) ==
  /\ read[r] \in {"time", "go.mod"}
  /\ \E outcome \in Outcomes :
       read' = [read EXCEPT ![r] = CASE outcome = "panicked" -> "panicked"
                                     [] outcome = "failed" -> "left out"
                                     [] OTHER -> IF @ = "time" THEN "wants go.mod" ELSE "loaded"]
  /\ UNCHANGED <<project, step, requests, place, page, unread, fixTimes>>

Loaded == {r \in DOMAIN read : read[r] = "loaded"}

ReleasesRead ==
  /\ step = "releases"
  /\ \A r \in DOMAIN read : read[r] \in {"loaded", "left out", "panicked"}
  /\ step' = IF \E r \in DOMAIN read : read[r] = "panicked" THEN "panicking"
             ELSE IF Loaded = {} THEN "told"
             ELSE "histories"
  /\ UNCHANGED <<project, requests, read, place, page, unread, fixTimes>>

-----------------------------------------------------------------------------
(* history: what a dependency's fixes say, over the releases R.             *)

First(S) == CHOOSE x \in S : \A y \in S : x <= y
Newest(S, n) == {x \in S : Cardinality({y \in S : y > x}) < n}

(* The last page that is read.                                              *)
LastPage(d) == IF Len(project.pages[d]) < MaxPages THEN Len(project.pages[d]) ELSE MaxPages

FixesOn(p, d, pages) == Newest(UNION {p.pages[d][k] : k \in 1..pages}, MaxFixes)

(* The first of the releases that requires the fixed version or a later one.*)
Adopters(p, d, f, R) == {r \in R : p.requires[r][d] >= f}

(* Mutant: a fix of the time before the sample is a sample too.             *)
WithinSampleAlways(p, d, f, R) == TRUE

WithinSample(p, d, f, R) == p.fixed[d][f] > p.time[First(R)]

Days(p, d, f, R) ==
  LET adopted == p.time[First(Adopters(p, d, f, R))]
  IN IF adopted > p.fixed[d][f] THEN adopted - p.fixed[d][f] ELSE 0

(* medianDays of the days of the fixes F: the middle one, or the mean of    *)
(* the two middle ones rounded half up.                                     *)
MedianDays(days, F) ==
  LET Place(f) == Cardinality({g \in F : days[g] < days[f] \/ (days[g] = days[f] /\ g <= f)})
      At(k) == days[CHOOSE f \in F : Place(f) = k]
      n == Cardinality(F)
  IN IF n % 2 = 1 THEN At((n + 1) \div 2) ELSE (At(n \div 2) + At(n \div 2 + 1) + 1) \div 2

(* A dependency that no release requires costs no request.                  *)
AskAdvisories(d) ==
  /\ step = "histories" /\ place[d] = "waits"
  /\ IF \A r \in Loaded : project.requires[r][d] = 0
     THEN place' = [place EXCEPT ![d] = "no history"] /\ UNCHANGED requests
     ELSE /\ SlotFree /\ Spend
          /\ place' = [place EXCEPT ![d] = IF Allowed THEN "advisories" ELSE "no history"]
  /\ UNCHANGED <<project, step, read, page, unread, fixTimes>>

(* fixedVersions, which keeps its slot from page to page.  A page that      *)
(* fails loses them all; the pages after the last allowed one are ignored.  *)
AdvisoryPage(d) ==
  /\ place[d] = "advisories"
  /\ \E outcome \in Outcomes :
       LET pages == page[d] + 1
           more == pages < LastPage(d)
       IN CASE outcome = "panicked" ->
                 /\ place' = [place EXCEPT ![d] = "panicked"]
                 /\ UNCHANGED <<requests, page, unread>>
            [] outcome = "failed" ->
                 /\ place' = [place EXCEPT ![d] = "no history"]
                 /\ UNCHANGED <<requests, page, unread>>
            [] outcome = "answered" /\ more ->
                 /\ page' = [page EXCEPT ![d] = pages]
                 /\ place' = [place EXCEPT ![d] = IF Allowed THEN "advisories" ELSE "no history"]
                 /\ Spend /\ UNCHANGED unread
            [] outcome = "answered" /\ ~more ->
                 /\ page' = [page EXCEPT ![d] = pages]
                 /\ unread' = [unread EXCEPT ![d] = {f \in FixesOn(project, d, pages) :
                                                       Adopters(project, d, f, Loaded) # {}}]
                 /\ place' = [place EXCEPT ![d] = "fixes"]
                 /\ UNCHANGED requests
  /\ UNCHANGED <<project, step, read, fixTimes>>

(* The fixes one after the other; one without a time is no sample.          *)
AskFixTime(d) ==
  /\ place[d] = "fixes"
  /\ IF unread[d] = {}
     THEN place' = [place EXCEPT ![d] = "history"] /\ UNCHANGED <<requests, unread>>
     ELSE /\ SlotFree /\ Spend
          /\ IF Allowed
             THEN place' = [place EXCEPT ![d] = "fix time"] /\ UNCHANGED unread
             ELSE /\ unread' = [unread EXCEPT ![d] = @ \ {First(@)}]
                  /\ UNCHANGED place
  /\ UNCHANGED <<project, step, read, page, fixTimes>>

FixTimeAnswers(d) ==
  /\ place[d] = "fix time"
  /\ \E outcome \in Outcomes :
       /\ place' = [place EXCEPT ![d] = IF outcome = "panicked" THEN outcome ELSE "fixes"]
       /\ fixTimes' = IF outcome = "answered"
                      THEN [fixTimes EXCEPT ![d] = @ \cup {First(unread[d])}] ELSE fixTimes
  /\ unread' = [unread EXCEPT ![d] = @ \ {First(@)}]
  /\ UNCHANGED <<project, step, requests, read, page>>

HistoriesRead ==
  /\ step = "histories"
  /\ \A d \in Deps : place[d] \in {"history", "no history", "panicked"}
  /\ step' = IF \E d \in Deps : place[d] = "panicked" THEN "panicking" ELSE "told"
  /\ UNCHANGED <<project, requests, read, place, page, unread, fixTimes>>

-----------------------------------------------------------------------------
ReleaseWorker(r) == AskRelease(r) \/ ReleaseAnswers(r)
DependencyWorker(d) == AskAdvisories(d) \/ AdvisoryPage(d) \/ AskFixTime(d) \/ FixTimeAnswers(d)

HistoryNext ==
  \/ VersionList \/ ReleasesRead \/ HistoriesRead
  \/ \E r \in DOMAIN read : ReleaseWorker(r)
  \/ \E d \in Deps : DependencyWorker(d)

HistorySpec == HistoryInit /\ [][HistoryNext]_historyVars

-----------------------------------------------------------------------------
(* Properties.                                                             *)

(* The days of each sample: what is told of a dependency if MinSamples of   *)
(* them are left.                                                           *)
SamplesOf(d) == {f \in fixTimes[d] : WithinSample(project, d, f, Loaded)}
DaysOf(d) == [f \in SamplesOf(d) |-> Days(project, d, f, Loaded)]
Told(d) == step = "told" /\ place[d] = "history" /\ Cardinality(SamplesOf(d)) >= MinSamples

(* The days that a reading without a failed request would have found.       *)
TrueSamples(d) ==
  {f \in FixesOn(project, d, LastPage(d)) :
     /\ Adopters(project, d, f, Sampled(project)) # {}
     /\ project.fixed[d][f] > project.time[First(Sampled(project))]}
TrueDays(d) == [f \in TrueSamples(d) |-> Days(project, d, f, Sampled(project))]

InOrderOfTime == \A r, s \in Sampled(project) : r < s => project.time[r] <= project.time[s]

(* "Any other failed lookup skips that item": whatever failed and whoever   *)
(* spent the budget, the history counts no fix that a whole reading would   *)
(* not have counted, and over the fixes it counts the module never looks    *)
(* faster than it was, unless a later version is the earlier release.       *)
HistoryNeverFlatters ==
  \A d \in Deps : Told(d) /\ InOrderOfTime =>
    /\ SamplesOf(d) \subseteq TrueSamples(d)
    /\ MedianDays(DaysOf(d), SamplesOf(d)) >= MedianDays(TrueDays(d), SamplesOf(d))

HistoryEnded == step \in {"told", "failed", "panicking"}
=============================================================================
