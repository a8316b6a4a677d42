SPECIFICATION Spec
\* execution ends: pc = "done" has no successor
CHECK_DEADLOCK FALSE
CONSTANTS
  Inputs <- MCLegacy
  Actions = {"open", "type", "click", "no_such_action"}
  Bindable = {"open", "type", "click"}
  Names = {"user"}
  AgentActions = {"click_element_by_index", "input_text", "extract_page_content"}
  Convert <- MCConvert
  MaxRepair = 2
  MaxPlanned = 1
INVARIANT
  FirstStateHoldsWhatRan
