SPECIFICATION JudgementSpec
CONSTANTS
  Root = "main"
  Modules <- MCModules
  Packages <- MCPackages
  ModuleOf <- MCModuleOf
  ListGOOS <- MCListGOOS
  ListGOARCH <- MCListGOARCH
  MaxParallelLists = 2
  Projects <- MCProjects
  MaxFaults = 1
  Findings <- MCFindings
  Followed <- MCFollowed
  MaxNews = 2
  Parts = {"graph", "stream"}
  Advisories <- MCAdvisories
  StreamFindings <- MCStreamFindings
  Roots <- MCRoots
  Formatters <- MCFormatters
  MaxFrames = 3
  MaxSymbols = 2
INVARIANTS ClassificationIsSound BlindNeverAbsolves NothingSuppressedSilently OrderIsForgotten
PROPERTY WorseNeverLowers
CHECK_DEADLOCK FALSE
