SPECIFICATION Spec
\* every caller may have made its last call
CHECK_DEADLOCK FALSE
CONSTANTS
  d = d
  e = e
  o = o
  tools = tools
  others = others
  NoTools = NoTools
  N = 3
  Callers <- TwoDefaults
  Defaults <- TwoDefaults
  ToolSets <- AllTools
  Accepts <- AllAccept
  MaxTries = 2
  MaxCalls = 1
INVARIANT
  FailureMeansAllFailed
