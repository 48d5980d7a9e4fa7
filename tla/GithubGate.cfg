SPECIFICATION FairSpec
CONSTANTS
  p1 = p1
  p2 = p2
  t1 = t1
  t2 = t2
  tok = tok
  NoThread = NoThread
  Threads <- MCThreads
  Processes = {p1}
  Process <- OneProcess
  Token <- OneToken
  MinInterval = 2
  Limit = 2
  Window = 2
  Waits = {1}
  FallbackWait = 2
  MaxPages = 2
  MaxRetries = 2
  FetchFull = TRUE
INVARIANTS
  TypeOK
  OneSearchInFlight
  BudgetBound
PROPERTIES
  ImplementsPacedSlot
  OnlyOvertakenFireInCooldown
  SlotReturned
