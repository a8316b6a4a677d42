----------------------------- MODULE MCGeneration -----------------------------
(***************************************************************************)
(* A small instance of Generation: two rounds of at most two steps, four    *)
(* elements that differ in what a selector can be made of, and parameter    *)
(* sets with secrets, a value inside a value, one value under two names, a  *)
(* number, a URL and a blank value.                                         *)
(***************************************************************************)
EXTENDS Generation, TLC

MCMarks == {"{{", "}}", "<secret>", "</secret>", " ", "/", ".", "[", "]", "="}
Words == {"", "cats", "big", "site", "watch", "hunter", "youtube", "3", "7", "x", "query", "_query", "google",
          "video", "_url", "password", "pin", "_seconds", "button", "input", "div", "a", "id", "title",
          "k1", "k29481", "aria-label", "play", "container", "/div/a", "NGSECRETA", "NGSECRETB"}
MCSize ==
  [f \in MCMarks \cup Words |->
     CASE f \in {"3", "7", "x", "a", " ", "/", ".", "[", "]", "=", ""} -> 1
       [] f \in {"big", "pin", "div"} -> 3
       [] f \in {"cats", "site", "play", "_url"} -> 4
       [] f = "watch" -> 5 [] f = "hunter" -> 6 [] f = "youtube" -> 7 [] OTHER -> 8]
MCAliases == <<"NGSECRETA", "NGSECRETB">>

P(name, value, secret, url) == [name |-> name, value |-> value, secret |-> secret, url |-> url]
Query == P(<<"query">>, <<"cats">>, FALSE, FALSE)
MCParameterSets ==
  {<<>>,
   <<Query, P(<<"password">>, <<"hunter">>, TRUE, FALSE), P(<<"watch", "_seconds">>, <<"7">>, FALSE, FALSE)>>,
   <<P(<<"query">>, <<"play">>, FALSE, FALSE), P(<<"video", "_url">>, <<"site", "/", "play">>, FALSE, TRUE),
     P(<<"watch", "_seconds">>, <<"x">>, FALSE, FALSE)>>,
   <<P(<<"password">>, <<"hunter">>, TRUE, FALSE), P(<<"x">>, <<"hunter">>, FALSE, FALSE), P(<<"pin">>, <<"7">>, TRUE, FALSE)>>,
   <<Query, P(<<"x">>, <<" ">>, FALSE, FALSE)>>}
\* The parameters of test_plain_parameters_are_inlined_not_masked.
NestedParameterSets ==
  {<<P(<<"google", "_query">>, <<"youtube">>, FALSE, FALSE),
     P(<<"youtube", "_query">>, <<"big", " ", "cats">>, FALSE, FALSE)>>}

A(type, wanted) == [type |-> type, wanted |-> wanted]
T(url, plan, elements, errors) == [url |-> url, plan |-> plan, elements |-> elements, errors |-> errors]
Open == <<A("go_to_url", <<Lit("x"), Lit("/"), Par(1)>>), A("click_element_by_index", <<>>),
          A("input_text", <<Lit("site"), Lit("/"), Par(1)>>)>>
Fill == <<A("extract_page_content", <<>>), A("input_text", <<Lit("x"), Par(2)>>),
          A("send_keys", <<Par(1), Lit(" ")>>), A("wait", <<Par(3)>>)>>
Rest == <<A("go_to_url", <<Lit("site")>>), A("scroll", <<>>), A("drag", <<>>), A("click_element_by_index", <<>>),
          A("click_element", <<>>), A("send_keys", <<Lit(" ")>>)>>
OnOpen == <<"none", "link", "field">>
OnFill == <<"none", "box">>
OnRest == <<"none", "play", "play", "none", "play">>
MCTurns ==
  {T("about:blank", Open, OnOpen, <<>>), T("site", Open, OnOpen, <<"lost">>),
   T("site", Fill, OnFill, <<>>), T("video", Fill, OnFill, <<"lost", "late">>),
   T("about:blank", Rest, OnRest, <<"late">>)}
NestedTurns == {T("site", <<A("go_to_url", <<Lit("site"), Lit("/"), Par(2)>>)>>, <<>>, <<>>)}

El(tag, classes, attributes, css, xpath) ==
  [tag |-> tag, classes |-> classes, attributes |-> attributes, css |-> css, xpath |-> xpath]
MCElementOf ==
  [field |-> El("input", <<"input", "big">>, ("id" :> "k1") @@ ("aria-label" :> "watch") @@ ("title" :> "play"), <<>>, ""),
   box   |-> El("input", <<"k29481">>, ("id" :> "k29481") @@ ("title" :> "play"), <<>>, ""),
   link  |-> El("", <<>>, "value" :> "k29481", <<[text |-> "div", nth |-> TRUE], [text |-> "a", nth |-> FALSE]>>, "/div/a"),
   play  |-> El("button", <<"play">>, ("id" :> "container"), <<>>, "/div/a")]
MCNumerals == {<<"3">>, <<"7">>}

\* What the theorem on KeptActionsAreRepeated assumes is true here, and false of the parameters
\* with which the property fails.
ASSUME SeparableAssumption ==
  /\ PlainInputs
  /\ \A ps \in MCParameterSets : Valid(ps) => Separable(ps)
  /\ \A ps \in NestedParameterSets : Valid(ps) /\ ~Separable(ps)
===============================================================================
