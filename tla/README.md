# unisupply in TLA+

unisupply grades the supply chain of a Go module: it resolves the module's
dependencies, looks for advisories that reach it, reads who still maintains
each dependency, and turns that into one letter from A to F, or *Pending* when
a check the letter depends on could not be made. Beside the letter it computes
a risk score and evaluates policies. This directory holds TLA+ models of the
parts where that can go wrong in ways a unit test hardly reaches: lookups
shared between goroutines, budgets and rate limits shared between workers,
lookups that fail, panic or are cancelled, answers kept on disk for other
processes, facts shared between the grades of several days, and a letter or a
score published although an unanswered question could change it.

## The system

| component | state it keeps | operations | what is hard | what makes it correct |
|---|---|---|---|---|
| `cmd/unisupply`, `pkg/runner/runner.go`, `analysis.go` | the analysis, the warnings, the scan status, the identity of the analysis | `Analyse`, `RunAnalysed`, `Run` | a cancelled or timed-out scan, a panic in any stage; a database that changes during the scan | a partial scan is never reported as a clean one |
| `pkg/runner/grade.go`, `regrade.go`, `regrade_facts.go` | the grade's input; the shared facts | `gradeAll`, `Grade`, `applyAdvisories`, `storeAdvisories`, `splitModules`, `storeModules` | checks that did not run; an analysis graded on a later day; concurrent grades over one store | a letter is published only when no missing answer could change it; newer facts are not replaced by older ones |
| `pkg/grade` | none (pure) | `Grade`, `CalledPassCanChangeLetter` | rounding into bands, merging of aliases, precedence of the Pending reasons | monotone, order-independent, the skipped called pass does not matter |
| `pkg/facts` | facts by module, advisory and fix; the HTTP store's cache, failure count and disabled flag | `Get*`, `Put*`, `Fresh` | concurrent use, a service that hangs or refuses the key | one answer per fact, no request after giving up |
| `pkg/vulndb` | none; the caller keeps the time of its last poll | `ChangedModules`, `FetchIndex`, `DBModified` | two files read by two requests while they change | no change is lost between two polls |
| `pkg/scanner/maintainer.go`, `maintenance.go`, `activity.go`, `maintainer_cache.go` | `ms.cache`, `repoLocks`, `onceCache`, semaphore slots, answers on disk | `ScanAll`, `analyzeRepo`, `repoMeta`, `ScanArchived`, `ScanActivity`, `Get`, `Put` | two fan-outs share a cache; failures, cancellation, renames, panics; a 404 that means nothing | one request and one answer per name of a repository, every worker ends; "not read" never looks like "read, and nothing found" |
| `internal/safego` | the first panic | `Recover`, `Repanic` | order of the deferred calls | no panic is lost, no goroutine is left |
| `pkg/scanner/vulnscan.go`, `vuln.go` | the findings, the mode of the called pass | `ScanVulnsWithOptions`, `parseGovulncheckJSON` | two passes, fallback, build failures; findings in no stable order | a scan that did not run does not read as clean; the order does not show |
| `pkg/scanner/vulnenrich.go`, `nvdfetch.go`, `threatintel.go` | caches on disk, the NVD pacer's slots | `Enrich`, `fetchNVD`, `LoadKEVCatalog` | several processes on one cache directory, crashes, rate limits | bounded age, one source's failure is told apart from "nobody published one", the rate is kept |
| `pkg/scanner/resilience.go`, `responsehistory.go` | request budgets, semaphores | `ScanAll`, `ScanResponseHistory` | budgets spent under concurrency, nested fan-outs that panic | what is cut does not depend on scheduling and is said; what is read in part does not flatter |
| `pkg/resolver` | the graph and the verdict on each module | `ResolveWithGoModGraph`, `ResolveDirectOnly`, `classifyTestOnlyDeps` | runs of `go list` side by side that fail one by one | a verdict is true, or it is withheld |
| `pkg/scorer`, `pkg/policy` | none (pure) | `ScoreProject`, `Evaluate` | floors, caps, discounts, missing verdicts | worse news never lowers a score; what is not known absolves nothing |
| `pkg/report`, `pkg/parser`, heuristics, `pkg/progress` | output | formatting, parsing | | |

How they interact: `Run` analyses (resolver, vulnerability scan, integrity) and
then grades the analysis. The vulnerability scan merges govulncheck's findings,
asks for the severities govulncheck does not have and reads the catalog of
exploited vulnerabilities, both through caches on disk that other scans share.
Grading reads the facts store, runs the maintenance scan, the maintainer scan,
the archived-flag scan (over the maintainer scan's repository cache) and the
activity scan one after the other, each a fan-out of goroutines, and hands
everything, including which lookups failed, to `pkg/grade`; the scorer and the
policies read the same findings and the resolver's verdicts. An analysis can be
stored and graded again on later days, over a facts store shared with the
grades of other analyses, and a caller that polls the index of the
vulnerability database learns which stored analyses to make again.

## Modules

**OnceCache** models `onceCache` and its user `repoMeta`. A call is a process:
it joins an entry or makes one and leads (`Join`, `Lead`, the critical section
of `do`), its lookup returns or panics (`FnReturns`, `FnPanics`), it deletes the
entry if the error came with its own context's cancellation (`Settle`), closes
the channel (`Close`), and after `do` a good record is also set under the
canonical name (`Return`). Values are `ok`, `gone` (a 404, as definitive as a
record) and `failed`. `peek` is not modelled: it reads and changes nothing.

**MaintainerScan** composes it with the two fan-outs over one scanner,
`MaintainerScanner.ScanAll` and then `MaintenanceScanner.ScanArchived`. One job
is one worker: it takes a semaphore slot, looks in `ms.cache`, locks the
repository, looks again, calls `repoMeta` step by step, asks for the
contributors, and unwinds through its deferred calls in the order Go runs them
(unlock, slot, `Recover`, `wg.Done`). The caller waits for all of a fan-out's
workers and repanics or goes on.

**GradeRules** is `pkg/grade` as pure operators: bands, scores and tiers of a
finding, the bonus for further advisories, the test-only halving, upkeep,
`mergeAdvisories`, the whole-tree rules, `pendingFor` and its precedence,
`severityLookupPending`, `gradeOnce`, `Grade` and `CalledPassCanChangeLetter`.
A finding is a record of severity, reachability, exploited, failed lookup and
the set of its identifiers; merging groups the findings that are connected
through shared identifiers.

**GradeKnowledge** puts the grade under incomplete knowledge. A *world* is what
the sources would say if all of them were asked (severities, exploited, called,
archived, the module's own status). `open` is the set of checks that have no
answer yet, and `Answer(c)` answers one and grades again. The input of the
grade is built as `pkg/runner/grade.go` builds it from what was and was not
answered. Because the state holds the real answers, a property can ask what
the letter would have been. `Overlooked` names, case by case, the answers that
the code counts as harmless and that are not (see "What the runs say about the
code").

**GradeShapes** builds trees by adding findings to rows in every order and
archiving dependencies, and checks laws of the letter over them.

**FactsStore** models Grade over a store of facts shared between analyses and
days (`regrade_facts.go` over `facts.Memory`). What matters of a severity, a
known-exploited status or a maintenance status there is how old it is, so a
reading is the time at which its source was asked. `Analyse` makes an analysis
and what it could learn; `Begin` calls Grade for an analysis and a date;
`ApplyAdvisories`, `ReadAdvisory`, `PutAdvisory` and `SplitModules`,
`ScanModules`, `StoreModules` are the calls Grade makes, in its order, one step
for each call of the store, because the store locks itself for one call only.
`status` keeps, next to the date it is stored under, when it was really read.

**HTTPStore** models `facts.HTTPStore`: gets of several callers over one cache,
failure count and stop flag. `Get` is the look at cache and flag, `Send` and
`WaitEnds` make the requests, `Answered`, `Refused`, `Rejected`, `Limited` and
`NoAnswer` are the answers the code tells apart, `CutShort` is a context that
ended, `Remember` writes the cache.

**ScanRun** models a whole run from `main` to the exit code: the checks before
the scan, `analyse` (resolving, the token probe, `go mod verify`, the one or two
passes of `ScanVulnsWithOptions`), `gradeAnalysis` (maintenance, the interrupted
flag, `assessSelf`, the Pending check), the scan status, the policy and the exit
code. The context can end, and a panic can come, between any two steps. Where
the code asks for the context's error after something failed (the probe, the
verification, a pass) the failure and the question are two steps, because the
context may end in between. What a stage finds is left out; `cut` records the
stages that have no answer because the context had ended, which the code does
not know and the properties compare with what it claims. A check that only
matters for some letters may or may not make the grade Pending (`MayMatter`).

**ResilienceScan** models the resilience scan: the fan-out that fetches version
lists, the caller that reserves date requests from the budget in the order of
the paths, and the fan-out of fan-outs that fetches the dates under a second
semaphore. A version is its place in the history and a date is one bit.

**ResponseHistory** models `ScanResponseHistory`: the version list, a worker for
each release that is sampled, a worker for each dependency that reads the pages
of its advisories and the times of the fixes, one semaphore and one budget for
all of them, and any request that fails or panics. From what was read the
adopter of each fix and its days are computed as the code does, and compared
with a reading in which nothing failed.

**SeverityLookup** models the severity of one advisory over OSV, the OSV records
of its aliases, NVD and GitHub, through the file that every scan shares.
**KEVCatalog** models the catalog of exploited vulnerabilities and the passes
that read it. Both write their file in place; what such a file may hold while
it is written, and what a crash leaves of it, is **CacheFiles**, which both
extend. In both an answer carries its age, and the sources may change.

**UpkeepLookup** models what a scan learns of one module from the proxy (its
deprecation and retraction, its activity) with the answers it keeps for a day,
`Put` in its two steps, and the GitHub fallback. `FailedFetches` says for which
requests the proxy may answer with a 404 because a fetch of its own failed; of
a branch it then says that it gave up (`fetch timed out`) or that it could not
list the repository (`not listed`), and the code goes by the markers in that
body (`IsDefinitiveNotFound`).

**NVDPacer** models `fetchNVD` and the pacer of the process: the slot that is
reserved under the lock, the sleep, the request, the retry with a delay for
everybody, and the key that NVD rejects. Time is counted in ticks.

**AdvisoryIndex** models the two readers of the index of the vulnerability
database while advisories are published, changed and withdrawn: the poll of
`ChangedModules` in its requests, and the fingerprint that `identityOf` puts
into an analysis.

**GovulncheckStream** models the parser of govulncheck's stream: what becomes of
a finding, and of each further finding of the same advisory and module, in
every order. A string is a number in the order of the strings.

**Resolver** models the module graph from `go mod graph` or, when that fails,
from go.mod and go.sum, the runs of `go list` for every target with and without
tests, at most `MaxParallelLists` at a time, and the verdict on each module
when some of them failed. `project` is what is on the disk, so that a property
can ask what is true.

**Scorer** and **Policy** are `pkg/scorer` and `pkg/policy` as pure operators, in
exact arithmetic. **Judgement** composes them with the Resolver: findings are
published, listed as exploited, and modules are archived, over each resolved
graph, and each time the scores and policies are compared with those before and
with those of a complete listing.

| module | maps to |
|---|---|
| OnceCache | `pkg/scanner/maintainer.go` 476-571 |
| MaintainerScan | `pkg/scanner/maintainer.go` 253-454, `maintenance.go` 668-725, `internal/safego` |
| ResilienceScan | `pkg/scanner/resilience.go` |
| ResponseHistory | `pkg/scanner/responsehistory.go` |
| GradeRules | `pkg/grade/engine.go`, `dedupe.go`, `pending.go`, `tree.go`, `calledpass.go` |
| GradeKnowledge | `pkg/runner/grade.go`, `regrade.go` 306-317 |
| GradeShapes | `pkg/grade/types.go` inputs for `Grade` |
| FactsStore | `pkg/runner/regrade_facts.go`, `regrade.go` 38-202, `pkg/facts/facts.go`, `memory.go` |
| AdvisoryIndex | `pkg/vulndb/vulndb.go` 47-274, `pkg/runner/analysis.go` 77-100, 326-404 |
| HTTPStore | `pkg/facts/http.go` |
| NVDPacer | `pkg/scanner/nvdfetch.go` |
| SeverityLookup, CacheFiles | `pkg/scanner/vulnenrich.go` |
| KEVCatalog | `pkg/scanner/threatintel.go`, `vulnscan.go` |
| UpkeepLookup | `pkg/scanner/maintenance.go`, `activity.go`, `maintainer_cache.go` |
| GovulncheckStream | `pkg/scanner/vuln.go` |
| Resolver | `pkg/resolver/graph.go` |
| Scorer, Judgement | `pkg/scorer/risk.go`, `timebombs.go` |
| Policy | `pkg/policy/engine.go` |
| ScanRun | `cmd/unisupply/main.go`, `pkg/runner/runner.go`, `analysis.go`, `regrade.go` 72-302, `githubtoken.go`, `grade.go` 363-439, `pkg/scanner/vulnscan.go`, `scanerror.go`, `status.go`, `integrity.go` 414-480 |

## Runs

Components that have no state in common share a run: a constant variable
(`fanOut`, `about`, `keeps`, `asks`, `part`, `cache`) says which of them a
behaviour is of, and the others stand still. The exception is deliberate:
MaintainerScan with OnceCache, GradeKnowledge with GradeRules, and Judgement
with Resolver, Scorer and Policy are compositions, and step together.

| run | question | instance |
|---|---|---|
| once_cache | Is there one lookup per name and one answer for those who ask by it, and does every call return? | four calls for the old and the new name of a renamed repository, two contexts, failures, 404s, panics |
| fan_outs | Do the fan-outs share every request, spend their budgets as promised, say what they did not read, hand a panic to the caller, and end? | maintainers: three modules and two archived checks over two names of a repository, two slots; resilience: three modules with up to three versions, samples of two and a budget of three; history: four releases of which three are read, two dependencies, four fixes each on two or three pages, and the budget that runs out on the last of them |
| maintainer_hangs | The promise that a panic fails the scan instead of hanging it (violated) | the maintainers of fan_outs |
| grade | Could an unanswered check change a published letter, may the called pass be skipped, and is the letter monotone and immune to splitting and duplicates? | the module, a dependency and a test-only one with up to three unanswered checks; six advisories over two dependencies with up to two; an advisory that two databases list and disagree on, with its severities, the catalog and the called pass open; two dependencies with up to four findings of six kinds |
| facts_store | Do facts only get newer, is nothing forgotten, does a grade ever use less than its analysis knows, or a half or stale status, and is every change of the database reported? | two analyses that may fail to learn, two grades that may overlap, for any of four days; two advisories, four publications, any number of polls |
| facts_race | A newer fact is left alone (violated) | the facts of facts_store |
| stale_analysis | Two analyses with the same key are interchangeable (violated) | two analyses, three advisories, five publications |
| requests | What follows after the facts service was given up on, what is remembered, and how often is NVD asked? | two callers, three facts, four gets; three lookups of two enrichers, one with a key that NVD rejects, spacings of one and two ticks, one retry, a budget of four ticks |
| scan_run | Does a run ever claim more than it did: complete, a bad token, a network fault, exit code 0? | all combinations of the options, the context ending and panics anywhere |
| judgement | Are the resolver's verdicts true, does what is not known absolve anything, does worse news ever lower a score, is anything suppressed silently, and does govulncheck's order show? | six modules, 18 projects, eight runs of `go list` of which one may fail; one project followed through two pieces of news about five findings; eleven findings of a stream, in every subset and order |
| kept_answers | How old can an answer be that another process kept, and is "not read" ever taken for "nothing there"? | two scans over the severity file and the catalog, a lifetime of two ticks and of three for a stale catalog, and one source of the severity that changes, the record of the CVE; scans of a module over four days, two releases, branches and a token |
| upkeep_timeout | "Not checked" is never read as "not deprecated" (violated) | kept_answers' proxy, which may give up on `@latest` too |

The bounds are where the rules change: three findings in one row exceed the cap
of the bonus, two findings of a severity trigger the whole-tree rules, two slots
with five workers make a slot scarce, four calls suffice for a leader, a waiter,
a forgotten entry and a later call. Four days with a policy of one let a fact
be fresh, stale, and from after the grade's date; three grades let a fact be
written, replaced and read; two callers and four gets let the store stop at two
failures with a get under way. A budget of three for three modules that want up
to two dates each is spent in the second or the third of them; samples of two of
three versions leave one out. The record of the CVE is the answer that is kept
twice, under its own name and under the advisory's. A cache that lives
two ticks, a failure that lives one and a rate limit that lives none keep the
three lifetimes apart, and `Old` is an age that makes no further difference.
Two pieces of news suffice for one that hides another. Three projects of a
history make the fixes older than the sample, out of order, and faster than
their release. ScanRun has no bound: a run is finite. `MaxFindings` bounds the
shapes, `MaxPublished`, `MaxDay` and `MaxTime` bound the clocks, and the other
constants of each `.cfg` bound the rest. Where a bound cuts a behaviour of the
code, the definition says "Bound:".

The deadlock check is off where the model ends: a scan that returned, a clock
that has reached its bound. That the fan-outs do not stop before that is
`FanOutEndsIfLookupsDo`, `ScanEnds` and `EveryCallReturns`.

Fairness: each goroutine of the maintainer scan and of the once cache is weakly
fair, because the Go scheduler runs every runnable goroutine and every lookup
ends, with an answer or a panic (the HTTP client has a timeout, and the context
of a scan reaches every request). Weak fairness suffices for the mutexes and
the semaphore, since each worker takes them once. The resilience scan and the
response history are weakly fair as a whole: every behaviour of theirs is
finite, so it is enough that something goes on while anything can. Nothing is
assumed of cancellations. The liveness properties `EveryCallReturns` and
`FanOutEndsIfLookupsDo` except the one case in which the code does not end, a
lookup that panicked while somebody waits for it, and are checked in runs that
let any lookup panic. `ScanEnds` has no exception: a panic inside the
`sync.Once` of the response history leaves nobody waiting, because no two of its
workers ask for the same thing.

## What the runs say about the code

Four of the runs refute something the repository says.

1. maintainer_hangs: `onceCache.do` calls the lookup without a deferred close.
   If a lookup panics, its entry stays in the map unfinished and a second worker
   that asks for the repository waits on it for good; `wg.Wait` does not return,
   so the panic that `safego` caught is never raised. `runner.go` 220-222 says
   such a panic fails the scan.
2. facts_race: `storeAdvisories` looks and writes in two calls. Of two
   overlapping grades, the one of the older analysis can write its fact over the
   newer one, which its comment excludes.
3. stale_analysis: the index whose fingerprint identifies an analysis is read
   after govulncheck has read the database. An advisory published in between is
   in the fingerprint of an analysis that does not have its finding.
4. upkeep_timeout: a 404 of `@latest` is taken for a module without releases,
   but the proxy answers a fetch it gave up on with a 404 too (`activity.go`
   61-63). The pinned version then stands in for the latest, and a module that
   was deprecated since reads as not deprecated, without a failed check.

More that the models do is as in the code. It is no violation of a run, but
most of it is the reason why a property has a hypothesis or an exception.

The grade (`Overlooked` states these cases, and `LetterStands` and
`SkippedPassIsHarmless` hold in all others):

- `CalledPassCanChangeLetter` reads "not exploited" for a catalog that could not
  be read (`calledpass.go` 61), so the called pass is skipped and a letter
  published where the called pass would have led to Pending, or to F, although
  lines 25-26 say that the pass is never skipped wrongly. It also looks at each
  listing before the aliases are merged (`calledpass.go` 55-63): a called listing
  that is mild, with an alias that is only required but severe or exploited, gives
  a severe or exploited called finding once they are one (`CalledUnweighed`).
- `kevUnchecked` does not count findings of test-only dependencies (`grade.go`
  482), on the ground that they cannot reach F. They can reach C, while
  `pending.go` 10 says that a failed check is never read as a clean result. Nor
  does it count a finding that is called under the name of an alias without a
  CVE, or one that is only imported because the called pass was skipped
  (`ExploitedUncounted`).
- A listing whose severity lookup failed takes the severity of its alias
  (`dedupe.go` 101), although the failed one could have been higher
  (`HigherThanItsAliases`).

The facts:

- What an analysis could not learn is copied from the older fact under the
  analysis's newer date. A third analysis, made in between, then takes the
  copy for newer than its own reading. `OwnReadingKept` therefore speaks of
  analyses that learned everything (`WholeAnalyses`).
- A fact that is newer than the analysis but older than the policy allows is
  dropped, and since nothing looks an advisory up again, a later grade returns
  to the analysis's still older value. No property says that a later grade
  knows more than an earlier one.
- Of two concurrent gets of one fact over HTTP, the one that fails may write
  last. No caller in `src/` gets a fact from two goroutines.
- A 429 or another 4xx between two failures does not end a run of failures, so
  the HTTP store can stop although the service answered in between.
  `HangsAreFew` bounds the unanswered requests from above only.
- When db.json could not be read at first, `ChangedModules` falls back to
  `FetchIndex`, which reads it after the list: a publication in between is dated
  but not reported (`raced` in `ChangesAreReported`). Times of the database have
  a resolution of a second and compare strictly, and an HTTP cache in front of
  it may serve the two files from different moments; the model gives every
  publication a time of its own and reads the files as they are. An advisory
  that is removed from the index leaves no time, and is never reported.

The run:

- For a module without dependencies `Interrupted` is never set (`analysis.go`
  365, `regrade.go` 129-131), so its status can be complete although its own
  status could not be read because the context had ended (the grade is Pending
  if that could change the letter), and a cancelled govulncheck is a scan that
  failed for an unknown, permanent reason. `CompleteMeansWhole` speaks of cut
  stages for modules with dependencies only. There `interrupted` is read before
  `assessSelf`, so a context that ends later makes a grade Pending, or complete
  if what was cut cannot matter, but not interrupted.
- Offline, a module without dependencies has status complete unless
  `--grade-stdlib` is given, although the comment of `scanStatusOf` says that an
  offline grade is Pending for the scan that was skipped. `CompleteMeansWhole`
  has it as its exception.

Lookups and what is kept of them:

- `nvdPacer.wait` reserves its slot before the context is looked at, so a lookup
  whose context has ended takes one although the comment says that nothing is
  reserved. `delayUntil` moves the next slot, not the ones that are taken: the
  exception of `DelayHeeded`. The last refused attempt asks for no delay. A
  rejected key can be sent once more by a lookup that had chosen it before.
- A severity found in the kept record of an alias is kept again under the
  advisory, so it can be up to 48 hours old, not the 24 the code names; the
  properties speak of answers without a severity and of failures, and add the
  length of a lookup (`MaxLookup`), because a file is dated when it is written.
  An unscored advisory is meant to be asked again hourly, but an alias record
  without a severity is kept for its full day (`Wait`). The failure of a
  slower process may overwrite the answer of a faster one.
- A KEV catalog that another process has just refreshed can be reported as
  stale, and one that is being written in place can be missed by a scan whose
  download fails. `KEVStaleSince` set by the first pass is not taken back by a
  second one with a fresh catalog (`vulnscan.go` 277); the grade reads it as a
  note (`grade.go` 264).
- The two names of a renamed repository are two keys: `set()` gives a good
  record to the canonical name only if that has none, so modules that use the
  old name can be told a record and those that use the new one that it failed,
  or the reverse. `CallersAgree` and `OneRepositoryOneAnswer` compare callers by
  one name only. They also set aside who was told the error of a cancelled
  lookup, which is forgotten and may be asked again.
- A host that failed while the proxy fetched gives a 404 whose body has the
  marker `invalid version:`, as if the branch did not hold the module. The
  comment at `activity.go` 64-67 says so. If no branch is found, `lookupActivity`
  (163-165) then neither asks GitHub nor counts a failed lookup, and the activity of a
  module that has one is silently unknown: the exception of `SilentMeansNone`
  (`unlisted`).
- The maintainer cache has no entry between `Remove` and `Rename`, and never
  compares the URL it stored. A scan that lasts over midnight can keep an answer
  a day longer than its date says; UpkeepLookup's bound leaves that out.
- The GitHub fallback for a proxy that failed for a moment asks for the
  repository's branch, which may be another module's. A 410 of a version list
  is not counted as a failed lookup.
- `ResilienceInfo` is marked `Limited` without data when no date could be read;
  its doc speaks of a sample. A failed request for the oldest date changes the
  intervals and can raise the score; which modules are cut still depends on the
  paths alone.
- Response history: a go.mod that could not be read moves the adopter of a fix
  to a later release, which only makes the module look slower. The order of the
  versions need not be that of their times (`InOrderOfTime`). The budget is
  spent in the order of the schedule, so which items are skipped is not
  determined, and pages beyond the cap are ignored without a mark.

The judgement:

- `severityFloor` looks at MEDIUM before it looks at a called finding of unknown
  severity (`risk.go` 1060-1067): publishing a medium finding beside one lowers
  the floor from 51 to 26. `WorseNeverLowers` has it as its exception
  (`MediumHidesUnknown`).
- The 95th percentile is taken over the modules in the build, and an
  unclassified module counts as one of them: enough of them dilute it.
  `BlindNeverAbsolves` speaks of graphs small enough that it is the maximum.
- The policy's `no_critical_vulns` reads the severity as it was published, the
  score reads it with its reachability: a critical or high finding that nothing links
  fails the policy and hardly moves the score.
- In a graph made from go.mod alone (`graph.go` 90-93) the edges that the guard
  for tagged code follows are missing, so a module behind a custom build tag can
  be called outside the build: the exception of `ClassificationIsSound`. So can
  one that only a tagged package of a listed module imports, which the code
  names as a known limit.
- `fixedVersionFromOSV` takes the fix of the standard library's entry for
  whatever module comes with it, so the stream of the run has both; the summary
  of an advisory that several modules share is cut by the first. The condition
  of a call is that of the chosen trace, which is not determined for traces of
  equal names and positions.
- `ScoreInput.AIGenRisks` is filled by no caller in `src/`, so the bonus for
  generated code that the scorer adds is always zero.

## Proofs

Each module below states its assumptions on the constants as named ASSUMEs in
the module it is about; nothing else is assumed. Every invariant that is proved
was first checked by TLC on the instance of its run.

**Fan-outs.** `OnceCacheProofs` proves, for any set of calls, keys, contexts and
renames, and with panics allowed, type correctness, `SingleFlight` (at most one
lookup of a repository is under way), `AskedOnce` (no repository is asked for
twice by calls that nobody cancelled), `RememberedForGood` (a finished entry is
never replaced) and `CallersAgree` (two calls for one key are told one answer,
unless one of them led or joined a lookup that failed under a cancelled
context). A repository is a key there: nothing is said of the two names of a
renamed one. None of them is inductive: that a second leader cannot appear depends
on the entry in the map belonging to the call that runs the lookup, so the
invariant ties each entry of the map to the program counter and key of the call
that made it, and each leading call to its entry. For `CallersAgree` the
invariant adds that whoever was told something was told it by a finished entry
(`AnsweredWhenFinished`), which is that of a call for the same key or one that
`set()` made (`JoinedStays`): the only entries that leave
the map are those of lookups that failed under a cancelled context, and what the
others answer does not change (`AnswerStays`).

`FanOutsProofs` proves that the scan of the maintainers implements the cache:
with the jobs for the calls and the scan for the only context, `Spec =>
Cache!Spec` (`ScanUsesTheCache`), each of the scan's steps being a step of the
cache or leaving it alone. The theorems of the cache then hold of the scan
without being proved again. With them, and an invariant that keeps a panic in
the list until the last worker has left and the workers to one job each, follow
`PanicReachesCaller` and `OneRepositoryOneAnswer`: the latter for modules that
spell a name alike within the maintainer scan, and for equal keys across the two
fan-outs in a scan nobody cancels.

Of the resilience scan the same module proves `CutByPathAlone` and
`WholeUnlessLimited` for any number of modules, lengths of lists, samples, budget
and concurrency, whichever lookups fail or panic. The first rests on the budget
being spent along the paths (`InOrder`), in a stage of its own in which no list
changes any more (`Phases`); the second on no module having more requests than
it was granted, or a grant beyond its need (`WithinGrant`), so that the dated
versions are a subset of the list and as many only if they are all of it (lemma
`DatedOfList`).

Of the response history it proves `HistoryNeverFlatters` for any projects, each
with a time for every release and fix and at least one page of tags
(`ProjectsAssumption`). `HistoryInv` says that the releases are read before the
fixes (`ReleasesFirst`) and that a fix is adopted by a release that a
complete reading would find no earlier (`FixesAreAdopted`). What remains is
arithmetic: a shorter list of releases only makes each adoption longer
(`DaysGrow`), and the median of a list grows with the list (`MedianGrows`, from
`LongerAtEachPlace`).

**Requests.** `RequestsProofs` holds the proofs of HTTPStore, NVDPacer and
AdvisoryIndex. For
any callers, facts and threshold, the store satisfies `CacheIsTheService`,
`AskedOnceEach`, `StopStops` and `HangsAreFew`. The first rests on what a
finished get says of its fact (`ResultIsTheService`), the second on a fact that
is not remembered never having been asked to the end (`AskedMeansRemembered`).
The bounds on requests and failures come from `StopIsBounded`: once the store
has stopped, what may still be asked or still fail is counted by the gets under
way, and every step that spends some of it moves a get on; the lemmas `Leaves`
and `Stays` say how a step changes such a count.

The pacer satisfies `SpacedOut` and `DelayHeeded` for any lookups, enrichers,
keys, spacings, budget and delays. Neither follows from the step that sends:
that a request is late enough depends on where the slots of the others lie.
`SlotsApart` says that the slots that are taken are a spacing apart, lie after
what was sent, are not passed by, and end before the next one; `DelayKept` says
that the last delay ends before the next slot and before every slot that was
taken since. The lemmas `QuietSteps` and `RefusedStep` say what the steps leave
alone, and `OnlySleepersSend` that nothing else sends.

The same module proves `ChangesAreReported` of AdvisoryIndex for any advisories
and number of publications. The invariant says what holds of a poll between its
requests: the list that was read holds nothing the database did not hold or has
not published over since (`ListIsPast`), a list that is dated by a db.json read
after it has no other date (`OneDate`), and, unless the fallback raced a
publication, what the list is dated to hold it holds (`DatedIsRead`).

**The order of a run.** `ScanRunProofs` proves all four properties of ScanRun,
which has no constants, without the state space that TLC goes through. The
invariant follows the order of the stages: what a later stage is for is
untouched (`NotYet`), the scan's failure and its result agree (`ScanSaid`),
whatever was cut was cut by an ended context (`CutMeansEnded`), a mismatch is
reported unless the context ended (`MismatchKnown`), and so, from the moment the
interrupted flag is read, a run that is not interrupted has lost nothing before
it (`NothingLostBefore`).

**The order of the findings.** The second half of `ScanRunProofs` is about the
stream that a run's scan reads, with any findings, advisories and bounds.
`StreamInv` is that each vulnerability is made of the findings read so far
(`MadeOf`): it has the most severe reachability of them, all their sinks, and a
trace that no other one of them is preferred to (`Best`). A further finding keeps
it so (`NextMakes`, `BestIsKept`) because the preference is a strict order
(`ShownIsAnOrder`), which rests on two facts: that of lists of numbers
(`BeforeIsTotal`, `BeforeIsTransitive`), and that names and positions tell a path
(`PathsAreTold`). The best trace then has the path that the reference asks for,
whose order is one comparison of one list (`WholeIsPrior`, `BestIsWanted`).

- `OrderTellsNothingHolds`: the reachability, the path and the symbols of a
  vulnerability do not depend on the order, whatever the findings are.
- `OrderIsForgottenHolds`: with its fix and its condition too, if the findings
  leave no choice in them (`Determined`, which TLC evaluates on the instance).
  They could: the first finding's fix is kept, and the condition is read from the
  whole trace, of which the path drops frames, so that the first of two traces
  with one path and equal positions decides. The comment at
  `pkg/scanner/vuln.go:362` promises the trace regardless. What govulncheck
  prints leaves no choice: one fix for an advisory in a module, and one called
  finding per vulnerable symbol (`vuln.go:345`), whose frame the path keeps.

**Kept answers.** `KeptAnswersProofs` proves `KnownExploitedIsSeen` of the KEV
catalog and `CleanMeansRead`, `SilentMeansNone` and `ActivityIsRecent` of the
upkeep lookup, for any ages, faults and answers that may be kept. `HonestCopy`
and `HonestPass` say how long a vulnerability that the file, or a pass under way,
does not hold may have been listed (`MissedFor`): no longer than the copy's age
and the time the pass that made it took.
`CleanSoFar`, `SilentSoFar` and `RecentSoFar` say of a lookup under way what
each property says of its end, and `DiskIsRecent` that the file it may fall back
to is no older than it says. `CleanMeansRead` needs that the request for the
latest release does not end in a timeout that the code takes for silence
(`"latest" \notin FailedFetches`); run upkeep_timeout is the counterexample
without. `SilentMeansNone` needs no such hypothesis: it excepts the lookups that
were told that the repository could not be listed, and shows that no other
failure is silent, a fetch that timed out among them.

The same module proves `SeverityIsRecent`, and of the function that picks the
aliases that the record of a CVE is always among them (`CVEIsLookedUp`).
`SeverityInv` says that the advisory file and the alias file were true when they
were written (`AdvisoryFileTrue`, `AliasFileTrue`) and that a lookup under way
has passed only sources that had no severity, or says that one failed
(`LookupTrue`, `Passed`). How old an answer may be is bounded by the age of a
file and `MaxLookup`, the longest a lookup takes; `SeverityAssumption` orders the
times to live as the code's constants do, and puts the cap on ages, `Old`, beyond
what the properties tell apart.

**The facts store.** `KeptAnswersProofs` proves type correctness of FactsStore for any
analyses, graders, policy and bounds, and three properties.
`NewerFactStaysAlone` and `NothingForgotten` hold until two grades have
overlapped (`overlapped` records that one began while another was under way),
whatever the analyses failed to learn; run facts_race shows that the hypothesis
is needed. The invariant behind them, `OneAtATime`, says that a finding between
the apply and the look is either the analysis's own or comes with a fact newer
than the analysis, and that a fact about to be written is newer than the store's
and knows all it knows. `OwnReadingKept` holds for any number of overlapping
grades: `Complete` says that, when analyses learn everything, no fact holds a
reading older than its own date, so a fact that passes for newer is newer.
`StatusFreshAndWhole`, a property of steps, rests on the labels in the store
being no later than what was read (`HonestLabels`).

**Verdicts and scores.** `JudgementProofs` proves four properties of Judgement
for any tidy projects (`ProjectsAssumption`: every module requires the modules its
packages import, as `go mod tidy` leaves them), any targets and listings,
whichever of them fail, and any findings.

`VerdictsAreSound` (`ClassificationIsSound`) says that the verdicts are true. What
is reached is computed by a recursive function over distances (`ReachFrom`), so
its lemmas reason by induction, in set form: a set of naturals that holds 0 and,
with n, n + 1, is all of them (`Induction`, from `Least` and the library's
`WFMin`). `ReachIsClosed` and `ReachWithin` then say that the function computes
the least set that holds the start and is closed under the edges. `ResolverInv`
says that no module has a verdict before the last listing has ended, and that
each ended listing is part of what its run would list, or of what it would list
without the packages that were not found; `VerdictIsSound` follows the verdict of
one module from the listings, and `TaggedIsLeftOpen` the guard for tagged code.
That a project is tidy is needed: the guard follows the requirements between
modules, and a module that is imported and not required would pass unseen.

`NothingIsSuppressed` (`NothingSuppressedSilently`) is about the arithmetic of
tiers: a finding that is not discounted still has a tier and is raised to
critical, and one that is discounted is in the warnings.

`BlindVerdictsNeverAbsolve` (`BlindNeverAbsolves`) compares the scores with those
of a complete listing. By the first theorem the two differ only in verdicts that
are missing, and a missing verdict discounts less (`Mildly`,
`TruthDiscountsMore`). The lemmas carry this through the scorer: no finding's
severity, floor, points or score is lower (`SeverityIsNotLower` to
`CVEIsNotLower`), none of the five candidates (`CandidatesAreNotLower`), every
time bomb is named (`BombsAreNamed`) and every policy is as strict
(`PoliciesAreStrict`). `FindingsInv` supplies that the findings are finite sets
and the fields what the resolver makes of them. The 95th percentile is covered
for graphs of fewer than 20 modules, where it is the maximum (`PercentileIsHighest`);
in a larger graph the statement is false, because a module that is wrongly left
in dilutes it (see above).

`WorseNeverLowersHolds` (`WorseNeverLowers`) compares a report with the next one,
after a finding was published or exploited or a module archived. The findings of
each module then hold, for each of those before, another one that is as bad
(`Grown`, an injection; `Worse` and `NewsIsWorse`, with the invariant `NamedOnce`:
no module lists a vulnerability twice). The lemmas follow this up through the
scorer: the points and the floor of a module (`VulnScoreGrows`, `FloorGrows`, whose
one exception is `MediumHidesUnknown`), its score and level (`ScoreGrows`,
`RiskGrows`), the five candidates (`SeverityGrows` to `CVEGrows`,
`PercentileGrows`), the headline and its level (`HeadlineIsHighest`,
`OverallGrows`), the mean (`MeanRiskGrows`) and the policies (`PoliciesStayBroken`).
The percentile needs that the score at a rank rises with the scores
(`PercentilesGrow`). In the mean every score is also its own weight, so a module
that gets worse moves numerator and denominator: with k the old mean and
c = 2k - 1, `WeightedGrows` says that 2s(100 + s) - c(100 + s) rises with s while c
is at most 199, and `GreaterSums` adds the modules up. The sums are folds whose order is a
choice; `SumsAreTotals` says that the order does not matter.

**The grade.** `GradeProofs` proves three properties of a module's letter for any
finite set of dependencies and any finite set of kinds of findings
(`ShapesAssumption`): a module that gets worse never gets a better letter
(`WorseNeverHelpsHolds`), an advisory that is listed under two of its names
counts once (`ListedTwiceHolds`), and a finding that is spread over two
dependencies never helps (`SplitNeverHelpsHolds`). The scores are sums, maxima and
counts over rows of findings, so the lemmas compare whole rows. `Covers` says that
each finding of one row has one at least as heavy in another, and `NoLess` adds
that the two rows are of one module and that the other is archived if the one is.
The score of a row's findings then grows (`VulnScoreGrows`), so does the number of
severe findings (`SevereGrows`, by the counting lemma `NoFewer`), hence the score
of the tree (`TreeScoreGrows`) and of the grade (`ScoreGrows`, `ScoreGrowsByRows`).
The tree counts severe findings by the module they are in, so two trees are
compared by a map of modules: each severe or exploited finding of the one is in
the other, no lighter, in a module that stands for the first one's (`Keeps`).
`MergeGroupIs` and `MergeIs` say what merging the names of one advisory returns,
and `LetterIs` how the letter follows from the rows.

**What a grade knows.** `KnowledgeProofs` proves what the grade promises about the
answers it does not have yet, for any worlds of finitely many dependencies and
findings, any checks a first scan leaves open and any order of the answers
(`KnowledgeAssumption`). `KnowledgeInv` is that the report is the grade of what is
known (`KnowledgeInvariance`).

- `LetterStandsHolds`: an answer leaves a letter that has no star and no list of
  unread flags as it is, and without star and list, so that it is the letter that
  all the answers give in any order, but for the answers that `Overlooked` names.
  An answer about its upkeep leaves the letter of a row too.
- `SkippedPassIsHarmlessHolds`: when a letter was given although the called pass
  was skipped, the answer of the pass changes nothing of the report, but where
  the code does not see the weight of a called finding (`CalledUnweighed`).
- `UnreadCostsOneBandHolds`: an archived flag that was not read costs one band at
  most.

The grade reads what is known more than once: as it is, and with the severities
it does not have taken for low and for critical (`Reading`; `GradeKnown` says what
the grade makes of its readings). The proofs compare an answer with what was known
before it, reading by reading. No answer lowers the score of a reading that takes
no severity for less (`BandsRise`, from the lemmas of `GradeProofs`). None raises
its band if it is `Steady`, that is, if it moves no finding up except light ones
from the imported to the called tier, whose points lie in one band, and archives
nothing that costs more (`BandsHold`). A severity that is answered lies between
the two readings of the estimate (`ReadBetween`); for every other check the
reading before serves after (`SameReading`). That an answer is `Steady` follows
from the checks that did not block the letter (`SteadyKept`, `UpkeepKept`,
`SeverityKept`), and no answer makes a check block that did not (`QuietStays`). The
letters of the rows follow the same way (`RowLetterIsKept`). For the called pass,
`CalledPassIs` says which findings the pass that was skipped could have moved, and
`PassKeepsReport` that none of them moves a letter. `FlagMovesBands` follows one
flag through the bands and `FlagMovesLetter` to the letter.

The types, `RememberedForGood`, `AskedOnceEach`, `ScanUsesTheCache`,
`KnowledgeInvariance` and `CVEIsLookedUp` are proved and in no run, because other
properties rest on them.

Only model-checked is liveness (`EveryCallReturns`, `FanOutEndsIfLookupsDo`,
`ScanEnds`): fairness and ENABLED are out of the proof system's reach.

## Plan

In this order:

1. An atomic map that the maintainer cache implements but for the moment without
   an entry.
2. The module's own advisories, fix dates, and the workspaces of the resolver.
3. A grader over the HTTP store (HTTPStore composed with FactsStore).

## Not modelled, and why

Report formatting, parsing of `go.mod`, workflow and policy files, typosquatting
and other string heuristics are pure functions over text. The texts of reasons,
notes, summaries and explanations, VEX statements and response windows are left
out of the grade and the scores because neither depends on them; so is the CVSS
arithmetic, a formula over published vectors. The progress output and the
network log keep one mutex around the line they write. The client pins the
host and bounds the size of one request and retries nothing. The module's own
advisories and the fix dates are sequential requests whose failure is an answer
the grade's model has. The GitHub, OSV, NVD and proxy services, the go command
and govulncheck are external: each answer is a choice among the kinds the code
tells apart.
