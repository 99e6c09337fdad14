SPECIFICATION Spec
INVARIANTS
  CompleteMeansWhole
  NothingBlamedForTheCut
  ExitTellsTheTruth
CHECK_DEADLOCK FALSE
