SPECIFICATION Spec
\* the graph ends
CHECK_DEADLOCK FALSE
CONSTANTS
  Texts <- MCTexts
  Decisions <- MCDecisions
  Given <- MCGiven
  Supplied <- MCSupplied
  Limit = 8
INVARIANTS
  WorkflowHoldsWhatRan
  
