SPECIFICATION StoredSpec
CONSTANTS
  Keepers = {"facts"}
  a1 = a1
  a2 = a2
  g1 = g1
  g2 = g2
  Analyses = {a1, a2}
  Graders = {g1, g2}
  MaxAge = 1
  MaxTime = 3
  MaxGrades = 3
  Advisories = {"x", "y", "z"}
  BuildList = {"x", "y"}
  Scans = {"first", "second"}
  MaxPublished = 5
PROPERTIES
  NewerFactStays
CHECK_DEADLOCK FALSE
