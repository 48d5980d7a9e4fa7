SPECIFICATION Spec
CONSTANTS
  s1 = s1
  s2 = s2
  c1 = c1
  c2 = c2
  NoOne = NoOne
  Eof = Eof
  Servers <- MCServers
  Clients <- MCClients
  Mode <- MCMode
  Backlog = 1
  MaxFaults = 0
  MaxStarts = 2
  MaxSpawns = 2
INVARIANT
  SingleInstance
