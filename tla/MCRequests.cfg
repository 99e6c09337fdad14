SPECIFICATION RequestsSpec
CONSTANTS
  Services = {"facts", "NVD"}
  c1 = c1
  c2 = c2
  t1 = t1
  t2 = t2
  t3 = t3
  Callers = {c1, c2}
  Targets = {t1, t2, t3}
  unavailableAfter = 2
  MaxGets = 4
  l1 = l1
  l2 = l2
  l3 = l3
  Lookups = {l1, l2, l3}
  Enrichers = {"e1", "e2"}
  EnricherOf <- MCEnricherOf
  KeyOf <- MCKeyOf
  SpacingKeyless = 2
  SpacingKeyed = 1
  Budget = 4
  MaxRetries = 1
  BackoffBase = 2
  RetryAfterCap = 3
  RetryAfters = {0}
  MaxTime = 5
SYMMETRY Symmetric
INVARIANTS
  StopStops
  HangsAreFew
  CacheIsTheService
PROPERTIES
  SpacedOut
  DelayHeeded
CHECK_DEADLOCK FALSE
