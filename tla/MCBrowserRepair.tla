--------------------------- MODULE MCBrowserRepair ---------------------------
(***************************************************************************)
(* A small instance of BrowserRepair: four workflow actions of which one is *)
(* not registered, and an agent that may click, type or read the page, of   *)
(* which reading is not converted.                                          *)
(***************************************************************************)
EXTENDS BrowserRepair

MCConvert == [a \in {"click_element_by_index", "input_text"} |->
                IF a = "input_text" THEN "type" ELSE "click"]

always(as) == [checks |-> "always", actions |-> as]
gated(as) == [checks |-> "gated", actions |-> as]
faulty(as) == [checks |-> "faulty", actions |-> as]
wf(ss) == [states |-> ss, parameters |-> {"user"}]

MCInputs == {
  wf(<<always(<<"open", "type", "click">>)>>),
  \* the second state may be the one that matches, or neither, or both
  wf(<<gated(<<"open">>), gated(<<"type", "click">>)>>),
  wf(<<gated(<<"open">>), faulty(<<"click">>)>>),
  wf(<<always(<<>>)>>),
  \* rejected by validate
  wf(<<always(<<"no_such_action">>)>>),
  wf(<<>>) }

\* A document in the legacy form, which validate accepts.
MCLegacy == {[checks |-> "always", actions |-> <<"open", "click">>,
              parameters |-> {"user"}]}
=============================================================================
