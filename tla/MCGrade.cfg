SPECIFICATION Spec
CONSTANTS
  Self = "app"
  Scenes <- MCScenes
  Strict = FALSE
  Deps = {"lib", "dev"}
  TestOnly = {"dev"}
  KindAt <- MCKindAt
  NewModule = "half"
  MaxFindings = 4
  MaxOpenPair = 3
  MaxOpenTree = 2
  About = {"knowledge", "shapes"}
INVARIANTS
  SplitNeverHelps
  ListedTwiceCountsOnce
PROPERTIES
  LetterStands
  UnreadCostsOneBand
  SkippedPassIsHarmless
  WorseNeverHelps
CHECK_DEADLOCK FALSE
