SPECIFICATION FairSpec
CONSTANTS
  Settings <- MCSettings
  Trees <- MCTrees
  MatchLists <- MCMatchLists
  Operations <- MCOperations
  MaxTests = 1
  MaxOps = 1
  Variants = 1
  MaxFound = 1
  Workers = 1
  MaxMentions = 1
INVARIANT CompletedRuns
CHECK_DEADLOCK FALSE
