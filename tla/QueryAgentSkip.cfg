SPECIFICATION AgentsSpec
CONSTANTS
  fn = fn
  fp = fp
  a = a
  b = b
  x = x
  y = y
  z = z
  Directions <- MCDirections
  Snippets <- MCSnippets
  Items <- MCItems
  Target = 2
  MaxIterations = 3
  MaxTurns = 0
  GhTarget = 2
  GhIterations = 2
  Unknown = Unknown
  BatchSize = 2
  MaxSampled = 2
  LastLine = 4
  Pages <- MCPages
  TextMatches <- MCTextMatches
  Contexts <- MCContexts
  Skip = TRUE
INVARIANT
  SkipsRefinement
CHECK_DEADLOCK FALSE
