SPECIFICATION FanOutsSpec
CONSTANTS
  FanOuts = {"maintainers", "resilience", "history"}
  a1 = a1
  a2 = a2
  a3 = a3
  r1 = r1
  r2 = r2
  None = None
  Preset = Preset
  Scan = Scan
  Jobs <- MCJobs
  PhaseOf <- MCPhaseOf
  Names <- MCNames
  NameOf <- MCNameOf
  Keys <- MCKeys
  LowerOf <- MCLowerOf
  Canonical <- MCCanonical
  Slots = 2
  MayPanic = TRUE
  N = 3
  MaxList = 3
  Samples = 2
  ScanBudget = 3
  ModuleConcurrency = 2
  InfoConcurrency = 2
  d1 = d1
  d2 = d2
  Deps = {d1, d2}
  Projects <- MCProjects
  MaxVersions = 3
  MaxFixes = 3
  MaxPages = 2
  MinSamples = 2
  MaxRequests = 15
  Concurrency = 2
  RequestMayPanic = TRUE
  WorkerMayPanic = TRUE
INVARIANTS
  OneRepositoryOneAnswer
  PanicReachesCaller
  CutByPathAlone
  WholeUnlessLimited
  HistoryNeverFlatters
PROPERTIES
  FanOutEndsIfLookupsDo
  ScanEnds
CHECK_DEADLOCK FALSE
