SPECIFICATION Spec
\* the run ends: pc = "done" has no successor
CHECK_DEADLOCK FALSE
CONSTANTS
  Inputs <- MCInputs
  ActionTypes = {"input_text", "go_to_url", "wait", "no_such_action"}
  Keys = {"selector", "text", "timeout_ms", "url", "new_tab", "seconds"}
  Literals = {"alice", "lit", "5", "int 5", "False", "https://"}
  Names = {"user", "time", "city"}
  Signature <- MCSignature
  TriggerNames <- MCTriggerNames
  BlankName = " "
  Holds <- MCHolds
  Pages <- MCPages
  Supplied <- MCSupplied
  Coerce <- MCCoerce
  Configs = {TRUE, FALSE}
INVARIANTS
  FailureKeepsEveryResult
