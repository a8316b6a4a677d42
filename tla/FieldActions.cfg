SPECIFICATION FieldSpec
\* the workflow is over after MaxCalls actions
CHECK_DEADLOCK FALSE
CONSTANTS
  Calls = {"click_element", "go_to_url", "new_tab", "go_back"}
  MaxCalls = 2
  MaxPages = 3
  Doings = {"input_text", "select_dropdown_option", "send_keys", "scroll", "scroll_to_text", "assert_media_playing", "wait"}
  Text <- MCText
  Before <- MCBefore
  Rooms <- MCRooms
  Held = 1
INVARIANTS
  PopupIsNew
  OnlyReportedPagesAreAdopted
  ReportedClicksHappened
  EnteredTextIsExact
  EffectsAreAccountedFor
