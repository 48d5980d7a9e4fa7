SPECIFICATION FairSpec
CONSTANTS
  Settings <- MCSettings
  Trees <- MCTrees
  MatchLists <- MCMatchLists
  Operations <- MCOperations
  MaxTests = 3
  MaxOps = 2
  Variants = 1
  MaxFound = 2
  Workers = 2
  MaxMentions = 2
INVARIANTS
  TypeOK
  ReportOfSeed
  OrderKept
  ErrorsAreLocal
  ReportsFounded
  FailuresNoticed
  SummaryMissesNone
  TopPredicates
PROPERTIES
  RefineKeepsCode
  OthersUntouched
  Terminates
CHECK_DEADLOCK FALSE
