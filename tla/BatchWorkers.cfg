SPECIFICATION FairSpec
CONSTANTS
  Threads <- MCThreads
  Pids = {p1, p2}
  NoPid = NoPid
  NoOwner = NoOwner
  TokenCount = 1
  MaxAttempts = 2
  MaxOrphans = 1
  Rules = 3
  NumWorkers = 2
  MaxStarts = 2
  Plans <- MCPlans
INVARIANTS
  TypeOK
  UserHasFile
  ExclusiveInProcess
  OneRunOnDisk
  NoneForgotten
  CostsCounted
PROPERTY BatchEnds
