-------------------------- MODULE MCWorkflowEngine --------------------------
(***************************************************************************)
(* A small instance of WorkflowEngine: a page that is either a login or a   *)
(* home page, four trigger names of which one is not registered, three      *)
(* action types of which one is not registered, and one document for each   *)
(* way through WorkflowRunner.run.                                          *)
(***************************************************************************)
EXTENDS WorkflowEngine

MCPages == {"login", "home"}
MCTriggerNames == {"always_true", "on_login", "on_home", "no_such_trigger", " "}
MCHolds == [t \in {"always_true", "on_login", "on_home"} |->
              CASE t = "always_true" -> MCPages
                [] t = "on_login"    -> {"login"}
                [] t = "on_home"     -> {"home"}]
MCSignature == [t \in {"input_text", "go_to_url", "wait"} |->
                  CASE t = "input_text" -> [required |-> {"selector", "text"},
                                            accepted |-> {"selector", "text", "timeout_ms"}]
                    [] t = "go_to_url"  -> [required |-> {"url"},
                                            accepted |-> {"url", "new_tab"}]
                    [] t = "wait"       -> [required |-> {},
                                            accepted |-> {"seconds"}]]
MCSupplied == [n \in {"user", "time"} |-> IF n = "user" THEN "alice" ELSE "5"]

\* timeout_ms is an int and new_tab a bool, which only "true", "1" and "yes" are.
MCCoerce ==
  [k \in Keys |-> [v \in Literals \cup Names |->
     CASE k = "new_tab"                 -> "False"
       [] k = "timeout_ms" /\ v = "5"   -> "int 5"
       [] OTHER                         -> v]]

on(t) == [type |-> t, binds |-> TRUE]
unbound(t) == [type |-> t, binds |-> FALSE]
act(t, ps) == [type |-> t,
               params |-> [k \in Keys |-> IF k \in DOMAIN ps THEN ps[k] ELSE <<>>]]
type(v) == act("input_text", [selector |-> <<"lit">>, text |-> v])
typeFor(v, ms) == act("input_text", [selector |-> <<"lit">>, text |-> v, timeout_ms |-> ms])
goTo(u, tab) == act("go_to_url", [url |-> u, new_tab |-> tab])
wait == act("wait", [seconds |-> <<"5">>])
badWait == act("wait", [text |-> <<"5">>])
unknown == act("no_such_action", <<>>)
st(cs, as) == [checks |-> cs, actions |-> as]
wf(ss, ps) == [states |-> ss, parameters |-> ps]

MCInputs == {
  \* the legacy single-state form, with a declared and supplied parameter
  [checks |-> <<on("always_true")>>, actions |-> <<type(<<"user">>), wait, type(<<"lit">>)>>,
   parameters |-> {"user"}],
  \* two states told apart by the page, the second guarded twice
  wf(<<st(<<on("on_login")>>, <<typeFor(<<"user">>, <<"time">>), wait>>),
       st(<<on("always_true"), on("on_home")>>, <<wait, type(<<"lit">>)>>)>>, {"user"}),
  \* states whose checks overlap; the middle one has no actions
  wf(<<st(<<on("always_true")>>, <<wait, type(<<"lit", "user", "time">>)>>), st(<<on("on_home")>>, <<>>),
       st(<<>>, <<type(<<"lit">>)>>)>>, {}),
  \* placeholders that are neither declared nor supplied, and a number with text
  wf(<<st(<<on("on_home"), on("always_true")>>, <<goTo(<<"https://", "user", "city">>, <<"city">>),
       typeFor(<<"city">>, <<"lit", "time">>)>>)>>, {"user"}),
  \* declared but not supplied
  wf(<<st(<<on("always_true")>>, <<type(<<"lit", "city">>)>>)>>, {"user", "city"}),
  \* the bad action stands in a state that never matches
  wf(<<st(<<on("always_true")>>, <<wait>>), st(<<on(" ")>>, <<unknown>>)>>, {}),
  wf(<<st(<<on("always_true")>>, <<wait, badWait>>)>>, {}),
  \* triggers: blank, not registered, parameters that do not bind
  wf(<<st(<<on(" ")>>, <<wait>>), st(<<on("on_login")>>, <<type(<<"lit">>)>>)>>, {}),
  wf(<<st(<<on("on_home"), on("no_such_trigger")>>, <<wait>>)>>, {}),
  wf(<<st(<<on("always_true"), unbound("on_home")>>, <<wait>>)>>, {}),
  \* rejected by the schema
  wf(<<>>, {}) }
=============================================================================
