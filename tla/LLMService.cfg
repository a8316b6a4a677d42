SPECIFICATION Spec
\* every caller may have made its last call
CHECK_DEADLOCK FALSE
CONSTANTS
  d = d
  e = e
  o = o
  tools = tools
  others = others
  NoTools = NoTools
  N = 2
  Callers <- AllCallers
  Defaults <- TwoDefaults
  ToolSets <- AllTools
  Accepts <- SomeAccept
  MaxTries = 2
  MaxCalls = 1
INVARIANTS
  TypeOk
  ToolsSurvive
  OverrideGoesRound
PROPERTIES
  OverridesLeaveTheDefaultAlone
  EveryCallEnds
