SPECIFICATION Spec
\* the run ends: pc = "done" has no successor
CHECK_DEADLOCK FALSE
CONSTANTS
  Entries = {"facade", "generate", "replay"}
  Steps = 3
  Stealth = TRUE
INVARIANTS
  NothingIsLeftBehind
  LeftoversHaveACause
  OutcomeIsOfTheRun
  OneBrowserAtATime
