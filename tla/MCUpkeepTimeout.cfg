SPECIFICATION Spec
CONSTANTS
  Caches = {"proxy"}
  CacheTTL = 2
  MaxLookup = 1
  Old = 6
  FailTTL = 1
  RateLimitTTL = 0
  Scans = {s1, s2}
  GHSAs <- MCGHSAs
  CVEs <- MCCVEs
  MaxAliasLookups = 1
  Tiers = {"HIGH"}
  Changing = {"C1"}
  MaxChanges = 1
  KEVScans = {s1, s2}
  MaxStale = 3
  UpkeepScans = {s1}
  Tokens = {TRUE, FALSE}
  FailedFetches = {"branch", "latest"}
  MaxDay = 3
INVARIANTS
  CleanMeansRead
CHECK_DEADLOCK FALSE
