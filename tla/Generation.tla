------------------------------ MODULE Generation ------------------------------
(***************************************************************************)
(* The generation agent (agents/subagents/browser/generate/agent.py): some  *)
(* rounds in which a browser-use agent performs the task, each guided by    *)
(* what the earlier ones taught (evolution.py); then the choice of one      *)
(* history (util.py), its conversion to a workflow (generate.py) and the    *)
(* exchange of parameter values for placeholders (browser/agent.py).        *)
(*                                                                         *)
(* A history is [steps, verdict]. A step is [url, actions, elements,        *)
(* errors]: the page, the actions as [type, text], in a list of its own the *)
(* elements they were for, which may be shorter, and the errors of its      *)
(* results. The verdict is that of AgentHistoryList.is_successful(): "yes", *)
(* "no", or "unknown" when the agent ran out of steps. The browser of each  *)
(* round is modelled by BrowserSession.                                     *)
(***************************************************************************)
EXTENDS Selectors, Placeholders

CONSTANTS
  ParameterSets,  \* what the caller may pass: sequences of parameters
  Turns,          \* what may happen in one step of the agent
  ElementOf,      \* the elements by name; "none" stands for no element
  Numerals,       \* the texts of the numbers of at least one
  Rounds,         \* state["steps"]
  MaxSteps,       \* DEFAULT_MAX_STEPS
  MaxActions,     \* MAX_ACTIONS of the guidance
  MaxUrls,        \* MAX_URLS
  MaxErrors       \* MAX_ERRORS

\* A text is planned as a sequence of words and of parameters, by their number.
Planned == [type : STRING, wanted : Seq([word : STRING, param : Nat])]
Turn ==
  [url : STRING, plan : Seq(Planned), elements : Seq(DOMAIN ElementOf \cup {"none"}), errors : Seq(STRING)]

ASSUME GenerationAssumption ==
  /\ Rounds \in Nat /\ MaxSteps \in Nat \ {0}
  /\ MaxActions \in Nat /\ MaxUrls \in Nat /\ MaxErrors \in Nat
  /\ "none" \notin DOMAIN ElementOf
  /\ Turns \subseteq Turn
  /\ \A ps \in ParameterSets : IsParameters(ps)
  /\ \A text \in Numerals : Bare(text)
  \* an element of a page, which has no tag of an alias
  /\ \A e \in DOMAIN ElementOf : IsElement(ElementOf[e]) /\ "<secret>" \notin Fragments(ElementOf[e])

VARIABLES
  pc,         \* "prepare", "agent", "generate", "parameterize", "done" or "raised"
  params,     \* the caller's parameters
  steps,      \* what the agent has done in this round
  histories,  \* the histories of the rounds
  evolution,  \* BrowserEvolution
  chosen,     \* the number of the history the workflow is made of
  workflow    \* the actions of its one state

vars == <<pc, params, steps, histories, evolution, chosen, workflow>>
-----------------------------------------------------------------------------
\* The types parse_agent_history and update_evolution leave out.
Ignored ==
  {"done", "extract_page_content", "get_dropdown_options", "read_file", "replace_file_str", "write_file"}

\* Each action of a step with the element that is recorded in its place.
Did(step) ==
  [k \in DOMAIN step.actions |->
     [type |-> step.actions[k].type, text |-> step.actions[k].text,
      el   |-> IF k \in DOMAIN step.elements THEN step.elements[k] ELSE "none"]]

\* Mutant: elements are looked up under the place an action has among those that are kept.
RelevantShifted(step) ==
  LET kept == Only(step.actions, {a \in ToSet(step.actions) : a.type \notin Ignored})
  IN Did([step EXCEPT !.actions = kept])

Relevant(step) == Only(Did(step), {a \in ToSet(Did(step)) : a.type \notin Ignored})
RelevantOf(h) == FlattenSeq([i \in DOMAIN h.steps |-> Relevant(h.steps[i])])

\* What the agent writes for a text it wants: literals, and parameters as it was told.
Lit(word) == [word |-> word, param |-> 0]
Par(i) == [word |-> "", param |-> i]
Written(wanted) ==
  FlattenSeq([k \in DOMAIN wanted |->
    IF wanted[k].param = 0 THEN <<wanted[k].word>> ELSE Told(params, wanted[k].param)])
Possible(turn) == \A a \in ToSet(turn.plan) : \A w \in ToSet(a.wanted) : w.param <= Len(params)
Acts(plan) == [k \in DOMAIN plan |-> [type |-> plan[k].type, text |-> Written(plan[k].wanted)]]
-----------------------------------------------------------------------------
\* _describe_action
Label(a) == <<a.type, a.el>>
LabelsOf(ss) == LET rs == RelevantOf([steps |-> ss]) IN [i \in DOMAIN rs |-> Label(rs[i])]

\* The pages of some steps, and the errors in them.
IgnoredUrls == {"about:blank"}
UrlsOf(ss) ==
  LET urls == [i \in DOMAIN ss |-> ss[i].url] IN Only(urls, ToSet(urls) \ (IgnoredUrls \cup {""}))
ErrorsOf(ss) == FlattenSeq([i \in DOMAIN ss |-> ss[i].errors])

HasError(step) == step.errors # <<>>
StepsOf(h, failed) == Only(h.steps, {s \in ToSet(h.steps) : HasError(s) = failed})

Fresh ==
  [runs |-> 0, successes |-> 0, best |-> 0, sequence |-> <<>>,
   good |-> <<>>, bad |-> <<>>, urls |-> <<>>, messages |-> <<>>]

\* A counter after one more occurrence of each of these (counters are functions over what they count).
Counted(counter, seen) ==
  LET More(x) == Cardinality({i \in DOMAIN seen : seen[i] = x})
      Old(x) == IF x \in DOMAIN counter THEN counter[x] ELSE 0
  IN [x \in DOMAIN counter \cup ToSet(seen) |-> Old(x) + More(x)]

\* Mutant: the action sequence of the last successful round is taken for the best.
UpdateWithLast(e, h) ==
  LET yes == h.verdict = "yes" IN
  [runs |-> e.runs + 1, successes |-> IF yes THEN e.successes + 1 ELSE e.successes,
   best |-> IF yes /\ (e.best = 0 \/ Len(h.steps) < e.best) THEN Len(h.steps) ELSE e.best,
   sequence |-> IF yes THEN LabelsOf(h.steps) ELSE e.sequence,
   good |-> Counted(e.good, LabelsOf(StepsOf(h, FALSE))), bad |-> Counted(e.bad, LabelsOf(StepsOf(h, TRUE))),
   urls |-> Counted(e.urls, UrlsOf(h.steps)), messages |-> Counted(e.messages, ErrorsOf(h.steps))]

\* update_evolution. The length of a successful history is never zero; zero stands for None.
update_evolution(e, h) ==
  LET better == h.verdict = "yes" /\ (e.best = 0 \/ Len(h.steps) < e.best)
  IN [runs      |-> e.runs + 1,
      successes |-> IF h.verdict = "yes" THEN e.successes + 1 ELSE e.successes,
      best      |-> IF better THEN Len(h.steps) ELSE e.best,
      sequence  |-> IF better THEN LabelsOf(h.steps) ELSE e.sequence,
      good      |-> Counted(e.good, LabelsOf(StepsOf(h, FALSE))),
      bad       |-> Counted(e.bad, LabelsOf(StepsOf(h, TRUE))),
      urls      |-> Counted(e.urls, UrlsOf(h.steps)),
      messages  |-> Counted(e.messages, ErrorsOf(h.steps))]

NoGuidance == [runs |-> 0]

\* Counter.most_common(limit) as a set: which of several equals it takes is unspecified.
MostCommon(counter, limit) ==
  LET size == IF Cardinality(DOMAIN counter) < limit THEN Cardinality(DOMAIN counter) ELSE limit
  IN CHOOSE S \in SUBSET DOMAIN counter :
       Cardinality(S) = size /\ \A l \in S, k \in DOMAIN counter \ S : counter[k] <= counter[l]

build_evolutionary_prompt(e) ==
  IF e.runs = 0 THEN NoGuidance
  ELSE [runs |-> e.runs, successes |-> e.successes, best |-> e.best, sequence |-> Upto(MaxActions, e.sequence),
        prefer |-> MostCommon(e.good, MaxActions), avoid |-> MostCommon(e.bad, MaxActions),
        urls |-> MostCommon(e.urls, MaxUrls), errors |-> MostCommon(e.messages, MaxErrors)]
-----------------------------------------------------------------------------
\* _is_failed_history
Failed(h) == h.verdict = "no" \/ \E i \in DOMAIN h.steps : HasError(h.steps[i])

\* The numbers in S, those of histories with fewer relevant actions first (a stable sort).
Sorted(hs, S) ==
  LET size == [i \in DOMAIN hs |-> Len(RelevantOf(hs[i]))]
      Before(i, j) == size[i] < size[j] \/ (size[i] = size[j] /\ i < j)
  IN [p \in 1..Cardinality(S) |-> CHOOSE i \in S : Cardinality({j \in S : Before(j, i)}) = p - 1]

\* Mutant: the histories stay in the order of the rounds.
PruneUnsorted(hs, top_k) ==
  SelectSeq([i \in DOMAIN hs |-> i], LAMBDA i : Failed(hs[i]))
  \o Upto(top_k, SelectSeq([i \in DOMAIN hs |-> i], LAMBDA i : ~Failed(hs[i])))

prune_agenthistorylist(hs, top_k) ==
  LET failed == {i \in DOMAIN hs : Failed(hs[i])}
  IN Sorted(hs, failed) \o Upto(top_k, Sorted(hs, DOMAIN hs \ failed))

-----------------------------------------------------------------------------
\* ACTION_TYPE_ALIASES
WorkflowType(type) ==
  CASE type = "click_element_by_index" -> "click_element"
    [] type = "press_key" -> "send_keys"
    [] type \in {"click_element", "go_back", "go_to_url", "input_text", "scroll", "scroll_to_text",
                 "select_dropdown_option", "send_keys", "wait"} -> type
    [] OTHER -> "none"

Blank(text) == \A k \in DOMAIN text : text[k] = " "
NeedsSelector == {"input_text", "click_element", "select_dropdown_option"}
NeedsText == {"go_to_url", "send_keys", "scroll_to_text", "select_dropdown_option"}

\* _coerce_wait_seconds, and what the agent's own wait does (build_controller)
Seconds(text) == IF text \in Numerals THEN text ELSE <<"3">>

\* _selector_from_interacted_element: the first candidate, as a sequence of at most one
SelectorOf ==
  [el \in DOMAIN ElementOf \cup {"none"} |->
     IF el = "none" THEN <<>> ELSE Upto(1, generate_selectors(ElementOf[el]))]

\* _convert_action: none or one action of the workflow
_convert_action(a) ==
  LET type == WorkflowType(a.type)
      selector == SelectorOf[a.el]
      taken == IF selector = <<>> \/ type \notin NeedsSelector \cup {"scroll"} THEN <<>> ELSE Rendered(selector[1])
      text == CASE type = "wait" -> Seconds(a.text)
                [] type \in NeedsText \cup {"input_text"} -> a.text
                [] OTHER -> <<>>
  IN IF \/ type = "none"
        \/ type \in NeedsSelector /\ selector = <<>>
        \/ type \in NeedsText /\ Blank(a.text)
     THEN <<>> ELSE <<[type |-> type, selector |-> taken, text |-> text]>>

\* parse_agent_history: the kept actions of all steps, each with its element.
parse_agent_history(h) == RelevantOf(h)

gen_workflow(parsed) == FlattenSeq([i \in DOMAIN parsed |-> _convert_action(parsed[i])])
-----------------------------------------------------------------------------
Init ==
  /\ pc = "prepare"
  /\ params \in ParameterSets
  /\ steps = <<>> /\ histories = <<>>
  /\ evolution = Fresh
  /\ chosen = 0 /\ workflow = <<>>

\* _prepare_parameters and coerce_evolution
Prepare ==
  /\ pc = "prepare"
  /\ pc' = IF Valid(params) THEN "agent" ELSE "raised"
  /\ UNCHANGED <<params, steps, histories, evolution, chosen, workflow>>

\* One step of the browser-use agent in a round of execute_task.
AgentSteps ==
  /\ pc = "agent" /\ Len(steps) < MaxSteps
  /\ \E turn \in Turns :
       /\ Possible(turn)
       /\ steps' = Append(steps, [url |-> turn.url, actions |-> Acts(turn.plan),
                                  elements |-> turn.elements, errors |-> turn.errors])
  /\ UNCHANGED <<pc, params, histories, evolution, chosen, workflow>>

\* Browser, model or agent raise: the histories of earlier rounds are lost with it.
RoundRaises ==
  /\ pc = "agent"
  /\ pc' = "raised"
  /\ UNCHANGED <<params, steps, histories, evolution, chosen, workflow>>

\* Browser.run returns: the agent is done, or it has no steps left.
RoundEnds ==
  /\ pc = "agent" /\ steps # <<>>
  /\ \E verdict \in {"yes", "no", "unknown"} :
       LET h == [steps |-> steps, verdict |-> verdict] IN
       /\ verdict = "unknown" => Len(steps) = MaxSteps
       /\ histories' = Append(histories, h)
       /\ evolution' = update_evolution(evolution, h)
  /\ steps' = <<>>
  /\ pc' = IF Len(histories) + 1 < Rounds THEN "agent" ELSE "generate"
  /\ UNCHANGED <<params, chosen, workflow>>

\* generate_workflow of the generation agent; there is a history, so it reports success.
Generate ==
  /\ pc = "generate"
  /\ \E first \in DOMAIN histories :
       LET actions == gen_workflow(parse_agent_history(histories[first])) IN
       /\ first = prune_agenthistorylist(histories, 1)[1]
       /\ chosen' = first
       /\ workflow' = [i \in DOMAIN actions |-> [actions[i] EXCEPT
            !.selector = RestoreAliases(params, @), !.text = RestoreAliases(params, @)]]
  /\ pc' = "parameterize"
  /\ UNCHANGED <<params, steps, histories, evolution>>

\* generate_workflow of the browser agent
Parameterize ==
  /\ pc = "parameterize"
  /\ workflow' = [i \in DOMAIN workflow |-> [workflow[i] EXCEPT
       !.selector = Parameterized(params, @, FALSE, FALSE),
       !.text = Parameterized(params, @, workflow[i].type = "wait", workflow[i].type = "go_to_url")]]
  /\ pc' = "done"
  /\ UNCHANGED <<params, steps, histories, evolution, chosen>>

Finished == pc \in {"done", "raised"} /\ UNCHANGED vars

Next == Prepare \/ AgentSteps \/ RoundRaises \/ RoundEnds \/ Generate \/ Parameterize \/ Finished

Spec == Init /\ [][Next]_vars
-----------------------------------------------------------------------------
\* The actions of a run of which the workflow has one. It has none, and the caller is not told,
\* for an action that only reads or reports, one of a type that workflows do not have, one for
\* which no selector could be made of its element, and one whose text is blank: also a press of
\* the space bar.
Kept(a) ==
  /\ a.type \notin Ignored /\ WorkflowType(a.type) # "none"
  /\ WorkflowType(a.type) \in NeedsSelector => SelectorOf[a.el] # <<>>
  /\ WorkflowType(a.type) \in NeedsText => ~Blank(a.text)

\* A replay with the parameters the workflow was generated with repeats the
\* actions of the chosen round that are kept, one for one and in order, and
\* nothing else: each selector resolves to that of the element recorded with
\* the action, each text to what the browser typed, secrets included, and a
\* wait lasts as long as the agent waited. Three exceptions: a wait that the
\* agent gave as a secret lasts three seconds in the replay; the only url
\* parameter stands for any URL in which the agent used none of the
\* parameters; and blanks around a text that is one parameter and nothing else
\* are not typed again. What a replay with other values does is not said.
KeptActionsAreRepeated ==
  pc = "done" =>
    LET did == FlattenSeq([i \in DOMAIN histories[chosen].steps |-> Did(histories[chosen].steps[i])])
        run == Only(did, {a \in ToSet(did) : Kept(a)})
        Uses(text) == \E i \in DOMAIN params :
                        /\ Within(text, Told(params, i))
                        /\ params[i].secret \/ text = params[i].value \/ Total(params[i].value) >= MinEmbedded
        OneUrl == Cardinality({i \in DOMAIN params : params[i].url}) = 1
    IN /\ Len(workflow) = Len(run)
       /\ \A i \in DOMAIN run :
            LET a == run[i] w == workflow[i] text == Resolved(params, w.text) typed == Typed(params, a.text) IN
            /\ w.type = WorkflowType(a.type)
            /\ w.type \in NeedsSelector \cup {"scroll"} /\ SelectorOf[a.el] # <<>> =>
                 Resolved(params, w.selector) = Rendered(SelectorOf[a.el][1])
            /\ CASE w.type = "wait" -> text = Seconds(typed) \/ (typed # a.text /\ text = <<"3">>)
                 [] w.type \in NeedsText \cup {"input_text"} ->
                      \/ text = typed
                      \/ w.type = "go_to_url" /\ OneUrl /\ ~Uses(a.text)
                      \/ \E k \in DOMAIN params : text = params[k].value /\ Around(typed, text)
                 [] OTHER -> TRUE

\* What the agent writes itself, and what a page is made of, looks like neither a tag nor a
\* placeholder, and a selector has no blank at its ends.
PlainInputs ==
  /\ \A turn \in Turns : \A a \in ToSet(turn.plan) : \A w \in ToSet(a.wanted) :
       w.param = 0 => w.word \notin Brackets
  /\ \A el \in DOMAIN ElementOf : SelectorOf[el] # <<>> => Bare(Rendered(SelectorOf[el][1]))

\* What the prompt of the next round, in this call or in one that continues its
\* evolution, says of the rounds before is true of them: how many there were and
\* how many succeeded, the length and the actions of a shortest success, that an
\* action to prefer has occurred without and an action to avoid with an error in
\* its step, and that the agent was on the pages and met the errors it names.
GuidanceIsTrue ==
  LET g == build_evolutionary_prompt(evolution)
      won == {i \in DOMAIN histories : histories[i].verdict = "yes"}
      all == UNION {ToSet(histories[i].steps) : i \in DOMAIN histories}
      Occurred(l, failed) == \E s \in all : HasError(s) = failed /\ l \in ToSet(LabelsOf(<<s>>))
  IN steps = <<>> /\ g # NoGuidance =>
       /\ g.runs = Len(histories) /\ g.successes = Cardinality(won)
       /\ g.best = 0 <=> won = {}
       /\ won # {} => /\ \A i \in won : g.best <= Len(histories[i].steps)
                      /\ \E i \in won : /\ Len(histories[i].steps) = g.best
                                        /\ g.sequence = Upto(MaxActions, LabelsOf(histories[i].steps))
       /\ \A l \in g.prefer : Occurred(l, FALSE)
       /\ \A l \in g.avoid : Occurred(l, TRUE)
       /\ \A url \in g.urls : url \notin IgnoredUrls /\ \E s \in all : s.url = url
       /\ \A error \in g.errors : \E s \in all : error \in ToSet(s.errors)

\* A failed round is preferred to one without a failure, and a workflow is
\* made of a shortest history of its kind: prune_agenthistorylist puts the
\* failed ones first and generate_workflow takes the first.
FailuresComeFirst ==
  chosen # 0 =>
    LET h == histories[chosen] IN
    /\ (\E i \in DOMAIN histories : Failed(histories[i])) => Failed(h)
    /\ \A i \in DOMAIN histories :
         Failed(histories[i]) = Failed(h) => Len(RelevantOf(h)) <= Len(RelevantOf(histories[i]))

\* The selector of an action matches the element that was recorded with it, and
\* none of its class tokens, and no id, test id, value, src or target in it, looks
\* generated for that one page. Names, placeholders, roles, types, labels, titles
\* and links are not judged by the code and may be generated ones; and the element
\* need not be the first of the page that matches, which is the one a replay takes.
SelectorsMatchTheirElements ==
  pc = "parameterize" =>
    \A i \in DOMAIN workflow : workflow[i].selector # <<>> =>
      \E a \in ToSet(RelevantOf(histories[chosen])) :
        /\ WorkflowType(a.type) = workflow[i].type /\ a.el # "none"
        /\ LET el == ElementOf[a.el] s == SelectorOf[a.el][1] IN
           /\ Rendered(s) = workflow[i].selector
           /\ Matches(s, el)
           /\ \A p \in ToSet(s.attributes) : p[1] \in TestIds \cup {"id", "value", "src", "target"} => p[2] \notin Dynamic
           /\ ToSet(s.classes) \cap Dynamic = {}
=============================================================================
