SPECIFICATION StoredSpec
CONSTANTS
  Keepers = {"facts", "index"}
  a1 = a1
  a2 = a2
  g1 = g1
  g2 = g2
  Analyses = {a1, a2}
  Graders = {g1, g2}
  MaxAge = 1
  MaxTime = 3
  MaxGrades = 3
  Advisories = {"x", "y"}
  BuildList = {"x"}
  Scans = {"first"}
  MaxPublished = 4
SYMMETRY Symmetric
INVARIANTS
  OwnReadingKept
  ChangesAreReported
PROPERTIES
  NewerFactStaysAlone
  NothingForgotten
  StatusFreshAndWhole
CHECK_DEADLOCK FALSE
