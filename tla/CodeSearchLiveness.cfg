SPECIFICATION FairSpec
CONSTANTS
  s1 = s1
  s2 = s2
  c1 = c1
  c2 = c2
  NoOne = NoOne
  Eof = Eof
  Servers <- MCOneServer
  Clients <- MCClients
  Mode <- MCMixedMode
  Backlog = 1
  MaxFaults = 1
  MaxStarts = 2
  MaxSpawns = 2
PROPERTIES
  QueryReturns
  ShutdownHonoured
