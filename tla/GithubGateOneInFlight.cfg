SPECIFICATION Spec
CONSTANTS
  p1 = p1
  p2 = p2
  t1 = t1
  t2 = t2
  tok = tok
  NoThread = NoThread
  Threads <- MCThreads
  Processes = {p1, p2}
  Process <- TwoProcesses
  Token <- OneToken
  MinInterval = 2
  Limit = 2
  Window = 3
  Waits = {1, 2}
  FallbackWait = 2
  MaxPages = 2
  MaxRetries = 2
  FetchFull = FALSE
INVARIANT
  OneInFlight
