# NetGent, specified

TLA+ modules, TLC configurations and TLAPS proofs for the core of NetGent
(`src/src`): a program that records a network or browser task as a *workflow*
(states guarded by checks, each with a list of actions) and replays it
deterministically, with a language model only where a workflow is generated or
repaired.

## 1. The system

| Component | Code | State it keeps | Hard parts |
|---|---|---|---|
| Workflow engine | `engine/runner.py`, `controller.py`, `executor.py`, `schema.py` | the validated document, the states that matched, the results so far | checks answered at different moments of a moving page; a failure between two effects |
| NetGent facade | `main.py` | none between calls | shaping failures; closing Playwright when the page is already gone |
| Browser repair loop | `agents/subagents/browser/execute/agent.py` | current workflow, results and completed actions over all attempts | several rounds of different workflows on one live page; what is saved and reported |
| Browser agent graph and sessions | `agents/subagents/browser/agent.py`, `util.py` | Playwright, browser, context, page, HAR file | one of several open or close steps failing |
| Generation and evolution | `agents/subagents/browser/generate/` | agent histories, evolution prompt | which history becomes the workflow |
| Parameterization | `browser/agent.py`, `generate/agent.py` | secret aliases, value-to-name table | values that contain or equal each other |
| Page actions | `registry/actions/playwright.py` | `ctx.page` | popups, a click repeated after it took effect |
| Registries | `registry/base.py`, `actions/base.py`, `triggers/base.py`, `registry/context.py` | name to definition; the context; a name on each callable | the names written on the callables are shared by all registries |
| LLM service | `services/llm/service.py`, `registry.py` | current model, its index, bound tools | concurrent calls switching one shared model |
| Shell agent graph | `agents/subagents/shell/` | the message list | parallel tool calls, a loop the model ends |
| Measurement adapters | `adapters/`, `services/`, `utils/execution.py` | an opened binary | error classification, close after failure |

How they interact. `NetGent.arun_workflow` builds a `WorkflowRunner` from a
`ProgramController` (over a trigger registry) and a `StateExecutor` (over an action
registry) and turns an exception into a failure result. `NetGent.generate` runs the
browser or the shell agent graph. The browser graph generates a workflow (or takes
one), then `run_workflow` opens a session, builds the same kind of runner and hands
it to the execute agent, which drives the controller and the executor itself and
calls a browser-use agent when an action fails. The graphs get their chat models
from `model_factory`, which uses the `LLMRegistry` directly; `LLMService` is the
service for direct callers, shared by all of them.

Everything is `asyncio` on one event loop: steps of our coroutines interleave only
at an `await`, but the web page lives in another process and changes at any time.
Nothing is persisted, so there is no crash recovery to model.

What makes each component correct:

- Engine: nothing happens on the page before the whole document is validated; the
  states that run are those whose checks were all answered True; their actions are
  performed in order, each once; the report says exactly what happened.
- Repair: bounded number of repairs; a repair continues and never starts over; the
  saved workflow holds what ran; failure and success reports agree with the run.
- LLM service: the tools stay bound across switches; a call with overrides is
  isolated; "all models failed" means that; every call ends.
- Sessions: everything opened is closed, or what stays open has a cause; one
  browser at a time; in the flow of the `NetGent` facade closing the context or the
  browser never changes what a finished run is reported as (stopping the driver can, and
  in `run_workflow` closing can too).
- Page actions: what is reported happened, once, apart from ways of doing it that
  raised; later actions work on the page that was started with or reported.
- Generation: a replay with the same parameters repeats those actions of the recorded
  run that are kept; what the next round is told of the rounds before is true.
- Shell agent: the workflow holds the measurements that were run; the report is that
  of the replay, and a success repeats the measurements of the conversation.
- Registries: a name, and a callable, reach the entry they were registered for.

## 2. Modules

| Module | What it is |
|---|---|
| `ReplayContract` | what a replay promises: refuse and do nothing, or pick states and perform their actions in order, success exactly when none is missing |
| `WorkflowEngine` (+ `MC`, `_proofs`) | one replay: `WorkflowRunner.run`, `ProgramController.check`, `StateExecutor.run`, `arun_workflow` |
| `BrowserRepair` (+ `MC`, `_proofs`) | `execute_workflow` with its repair rounds, `debug_workflow`, `_build_final_workflow`, result shaping of `run_workflow` |
| `BrowserSession` (+ `_proofs`) | who opens and closes Playwright, browser, context, page and HAR file, for all three entries |
| `PageActions` | `go_to_url`, `go_back`, `click_element` and its search for a popup |
| `FieldActions` (+ `MC`, `_proofs`) | extends `PageActions` with text input, selection, keys, scrolling, media check and waiting |
| `Selectors` | how a recorded element becomes a selector (pure operators) |
| `Placeholders` | parameter values to aliases and placeholders, and back (pure operators) |
| `Generation` (+ `MC`, `_proofs`) | the rounds and steps of the browser agent, the evolution and its prompt, the choice of a history, the workflow made of it; uses `Selectors` and `Placeholders` |
| `ShellAgent` (+ `MC`, `_proofs`) | the conversation, its tool calls down to the command line, the workflow made of them and its replay |
| `LLMService` (+ `MC`, `_proofs`) | the service with any number of concurrent callers |
| `Registry` (+ `MC`) | registration, lookup, `create`, iteration and context of the registries; its proofs are in `WorkflowEngine_proofs` |
| `SequenceLemmas` | facts about flattened and mapped sequences and induction over numbers, used by four of the proof modules |

`PROJECT.json` maps every definition to the lines it models. The modules are cut
where the code awaits: what is one step in a module is the whole of another where
the inside matters. An action of the page is one step of `WorkflowEngine`, and
many of `FieldActions`; the answer of `controller.check` is one choice in
`BrowserRepair`; the work on the page is one step of `BrowserSession`; an action of
a replayed measurement is one step of `ShellAgent`.

### WorkflowEngine

`pc` is where `WorkflowRunner.run` stands: `validate`, `parameters`, `check`, `run`,
`period` (the `asyncio.sleep` between two actions) and `done`. A check is one step:
`CheckHolds`, `CheckFails` or `CheckRaises` for one trigger of one state, and
`StateMatches` when a state has none left. `page` is a variable that `PageMoves`
changes between any two steps; each action may leave it in any condition, and the
answer of a trigger depends on the page at that moment. An action is performed or
raises (`Perform`, `ActionRaises`).

Abstractions: an action's result is named by the action as it was performed; a
trigger is the set of pages on which it answers True. A trigger the registry
does not know, or whose parameters do not bind, raises; one that is known and binds may
raise too, by itself or by answering with something that is not a bool. A parameter value
is a sequence of pieces (`Texts`), literals and placeholders named by their parameter. One
that is a placeholder alone is coerced to the annotation of its key (`Coerce` stands for
`_coerce_to_annotation`); inside a longer text placeholders are substituted without
coercion. `answers` and `trace` are history variables that no guard reads.

### BrowserRepair

The outcome of `controller.check` is one choice here: a state is `always` (its checks
are always True), `gated` (True or False as the page decides) or `faulty` (a check
that raises); `WorkflowEngine` has the steps inside. The agent's history grows action
by action (`AgentPlans`), keeping those `_convert_action` converts; `AgentDone` is
the return to `execute_workflow` with the patched workflow. `done` and `repairs` are
history variables. The early exits on a patched workflow that is not a dict (201-209)
and behind the loop (216-219) are unreachable, since `gen_workflow` always returns a
dict and each turn of the loop returns or repairs, and have no action.

### LLMService

A step is what a coroutine does between two awaits, so the read and write of
the shared index inside one `_switch_to_next_model` is atomic, and other calls run
while a request or a tenacity sleep is pending. A model is its position in
`LLMRegistry.LLMS`. `Accepts` says which models take which tools: `bind_tools` of a
chat model may raise. Which exceptions are retryable is the choice between `Raised`
(not retryable: the call ends) and `BackOff`/`ModelFailed`. The text of messages and
structured output are left out. In this repository the agents take their models from
the registry and not through the service; its concurrent use is what its docstrings
promise.

### BrowserSession

`flow` is whose code runs (`facade` is `_playwright_page`; `generate` and `run` are the
nodes of the browser graph), `pc` the await it stands at, `live` what is open in the
world as <<kind, flow, round>>, `error` an exception on its way through the `finally`
blocks. Each step of opening or closing has a second action in which it raises, stopping the
driver included (`StopFails`): no flow has a handler for that, so it takes the place of a
result that was ready. Before it, `_playwright_page` swallows what closing raises, and the
`finally` of `run_workflow` does not.
`Lose` is the browser going away under the program. `faults` and `played` are
history variables, read by properties only.

### PageActions and FieldActions

`pages` are the open pages of the browser context, numbered as they opened;
`SiteOpens` and `SiteCloses` may happen between any two awaits. `ctxPage` is `page` in the
context of the action registry and `page` the local variable of the action, which
need not be the same. A click goes through three attempts (locator, JavaScript,
coordinates), and each may raise before or after its effect; `reached` counts the
effects. `FieldActions` adds the actions that work on what a page shows. `way` is which
of its ways of doing the work an action is trying (`LastWay` of them), `effects` what
happened and `late` the part of it from ways that raised afterwards. The text of a field is a
sequence of characters, typed one by one, while a script of the page may take the
focus and give it back (`MovesFocus`); a script that changes the field itself or moves the caret
is left out. A chord whose last key is unknown leaves the keys before it held down (`Held`).
Coordinates, delays and wording of results are left out.

### Generation, Selectors, Placeholders

A round is a sequence of steps, each one of `Turns` (the page, what the agent plans, the
elements of its actions, the errors of their results), up to `MaxSteps`, an exception or
`done`. Actions and elements are two lists, as in browser-use's history, and `Did` puts them
together by place. `histories` is what `prune_agenthistorylist` and `update_evolution` read;
`evolution` is `BrowserEvolution`, which counts labels, pages (`UrlsOf`) and error messages
(`ErrorsOf`), and `build_evolutionary_prompt` is what the next round is told of it. `Generate` chooses a history and turns it into actions with selectors;
`Parameterize` puts placeholders for values. A text is a sequence of fragments, and an
element is a record of what a selector can be made of, with no tag of an alias in it
(`GenerationAssumption`); the lists of words that are
generic, generated or too long are constants. What a turn writes is literals and
parameters *as the agent was told them*, so a secret enters as its alias and is
typed as its value.

Not every action of a run is in the workflow: `Kept` says which are dropped. Those are actions
that only read or report, types workflows do not have, clicks, inputs and selections
for whose element no selector can be made, and actions whose text is blank, a press of the
space bar among them. `KeptActionsAreRepeated` compares the kept ones with the replay, one for one,
with three exceptions: a wait given as a secret lasts three seconds in the replay, whatever
the agent waited; the only `url` parameter stands for any URL in which no parameter was used;
blanks around a text that is one parameter are lost. A replay with *other* values
is not compared with anything. `SelectorsMatchTheirElements` says that the recorded element
is among the matches of its selector, and that no class token, id, test id, value, src or target in
it looks generated; other attributes (name, placeholder, ...) are taken as they are
(`generate.py:173-182`), and that the element is the *first* match, which is the one the replay
takes, depends on the rest of the page.

### ShellAgent

`messages` is the conversation; a message of the model holds any of `Decisions`.
`Node` is a step of the graph, of which there are at most `Limit`. The first call of a
message is performed by its node, and every call becomes an action of the workflow.
A measurement is its command line (`Command`) and its outcome as the adapter
classifies it (`Classified`). Names and arguments are members of `Texts`; an argument, host or
option, that equals the value of one of the parameters (`Supplied`) becomes its placeholder
(`Embedded`). `executed` and `replayed` are history variables.

### Registry

All registries of a kind write names on the callables themselves (`mark`). `Holder`
is the object a name is written on: bound methods of one function share it, and a
class derived from a registered class reads the name of its base. One call is one
step: nothing awaits inside. `Register` is `register()` on a record of marks and
entries; `AddAll` is the constructor and `add_entries()`, one registration after another up
to the first refusal, and `AddItems` does the same with the items of another registry, in
the order of their names. The registry's context is one entry, since the values in it do
not affect each other. `tidy` is a history variable: no registration took a name from a
callable, or gave a callable a second one. The decorated actions and triggers of the
repository are tidy; without it the property is false, and `MCRegistry` has callables for
each way that happens (overwriting, two names, a second registry, a method of the
same function, a callable that cannot be marked). Two more behaviours are in the
actions, with no property that forbids them because nothing in the repository says
otherwise: `add_entries` keeps what came before a refused entry, and `run(ctx=...)`
leaves its `ctx` in the registry also when the arguments are then refused.

## 3. Runs

| Run | Bounds | Shows |
|---|---|---|
| `engine` | 11 documents, up to 3 states and 3 actions, 2 pages, one matching state allowed or several | every way through a replay; the engine implements `ReplayContract`; every replay ends |
| `engine_evidence` | as `engine` | *violation*: two states match, the second fails, and the results of the first are lost |
| `repair` | 6 documents, 2 repairs, 2 planned actions each | all safety properties of the repair loop, and that it ends |
| `repair_legacy` | one legacy document | *violation*: the saved workflow has no states |
| `session` | 3 entries, 3 rounds, stealth on | nothing is left open without a cause; outcomes are those of the run |
| `pages` | 2 actions of any of 11 kinds, 3 pages, a text of 3 characters, 4 shapes of scrolling | the page worked on and the effects made are the reported ones |
| `generation` | 2 rounds of 2 steps, 5 turns, 4 elements, 5 parameter sets | the kept actions are repeated; guidance is true; which history is chosen; selectors match |
| `generation_nested` | the two parameters of a test, 1 turn | *violation*: a value inside the name of a parameter breaks its placeholder |
| `shell` | 10 messages, 2 given workflows, 8 nodes | the workflow holds what was run; the report is the replay's, and a success repeats the measurements |
| `llm` | 2 models, 2 default callers and 1 with overrides, 2 attempts, one model rejects a list | tools survive all switches, overrides are isolated, every call ends |
| `llm_race` | 3 models, 2 default callers | *violation*: a call reports that all models failed and never asked one of them |
| `registry` | 7 callables, 3 names, 2 registries, 4 calls | refused registrations disturb nothing; names and callables reach their entry |

Why the bounds are enough.

- `engine`: a replay visits each state and each check once, so more states or checks
  repeat the same steps; the documents include states without checks and without
  actions, overlapping and failing checks, every kind of invalid document,
  parameters supplied, missing and undeclared.
- `repair`: two repairs are the first number with a round that is neither first nor last.
- `session`: three rounds are the first with one that is neither first nor last; every
  entry, and every step that can raise, is there.
- `pages`: three pages allow an initial page, a popup and a page that opened by
  itself; two actions are enough for the page of the second to depend on the first. A text
  of three characters can lose its middle one, and the fields may hold another.
- `generation`: two rounds give every combination of failed and successful histories of
  different lengths, with and without errors. One page and one error message are named in
  the guidance (`MaxUrls`, `MaxErrors`), so that there is one more than is named. The parameter sets hold a secret, a value inside another, one
  value under two names, a number, a URL and a blank value; the elements differ in
  what a selector can be made of.
- `shell`: eight nodes allow two messages with their tools, a third that hands over, and
  the replay; the messages have one, several and no calls, repaired, unknown and refused ones.
- `llm`: two attempts tell the first from the last; `llm_race` needs three models,
  the first number for which going round differs from going back and forth.
- `registry`: two registrations, a copy and a call, or a preparation by `create`, a
  registration in between and the call, take at most four calls.

`MaxCalls` (calls per caller, page actions, calls to the registries), `MaxPlanned` (actions per
agent run) and `MaxPages` only cut the state space. `CHECK_DEADLOCK FALSE` stands in the
configurations whose specification ends; `Generation` and `Registry` have a step
that stutters at the end instead.

Fairness. Only weak fairness of the program's own steps: `WF_vars(Runner)` in the
engine, `WF_vars(Continue(c))` per caller of the LLM service, `WF_vars(Next)` in
`BrowserRepair` and `ReplayContract`. (`BrowserSession` and `PageActions` state it
too, but their runs ask for safety only.) It
says that an awaited call returns or raises: Playwright actions have default timeouts,
the agent has a maximum number of steps, and an LLM call of the service is bounded by
`asyncio.wait_for`. The page, the site and the callers are under no fairness. `FieldActions`,
`Generation`, `Registry` and `ShellAgent` state none: that a measurement's command
ends is not something the code sees to (`utils/execution.py:63` waits without a limit, and
is listed as a hazard without a property), so nothing is claimed of the end of a conversation.

## 4. What the violations say

- `repair_legacy`: `_build_final_workflow` reads `states` of the raw document. A legacy
  single-state document passes validation, is executed, and is saved with an
  empty list of states, which no longer validates.
- `llm_race`: default calls count models by themselves but advance a shared index.
- `generation_nested`: values are replaced in a text that already holds placeholders, so
  a value that occurs in the name of a parameter is replaced inside it.
- `engine_evidence`: `WorkflowRunner.run` collects the results of the states in a list
  comprehension (`engine/runner.py:56`), so a failure in a later state discards the results of
  the earlier ones, against the docstring of `StateExecutionError`
  (`engine/executor.py:109-111`). It takes two matching states, which the controller's
  option `allow_multiple_states` admits.

Two more disagreements are in `ShellAgent` as the code has them, and need no search to be seen:

- `PingService` hands its missing `count` on, in place of the adapter's default of 4
  (`services/ping.py:61-62`, `adapters/ping.py:41`), and the command is `ping -c None` (`Command`), which
  cannot succeed (`Outcomes`). The tool's schema says of the count "Defaults to the client's
  configured count" (`shell/schema.py:79`).
- No action is ever retried: `ActionRegistry.run` makes one `ActionError` of every exception
  (`registry/actions/base.py:153`), and `Replay` stops at the first. The docstrings of the adapters
  (`adapters/base.py:21-24, 37-40`) say that a `TransientError` decides otherwise.
  `ReportIsOfTheReplay` says only that such a replay is not reported as a success.

One property carries a condition that the code needs: `ToolsSurvive` speaks of a default
model that takes the tools, since `_switch_to_next_model` replaces the model first and binds second.
Others say exactly how far the code goes, and less than one may expect: `ListMeansFinished`
does not say that a continuation did what was left of the workflow (an agent that plans
nothing leaves an empty one, which then succeeds), and `OutcomeIsOfTheRun` names the steps
that may turn a finished run into an exception.
`FailuresComeFirst` states what the code does, and a reader may be surprised by it: the
pruned list starts with failed histories and generation takes its first element.

## 5. Proofs

Each `*_proofs` module has the same shape (and `WorkflowEngine_proofs` has it twice, for
the engine and, with names that begin with `Registry`, for the registries the engine
is made over): `IInv` is the inductive strengthening,
`InitIInv` and `StepIInv` its two facts with one lemma per action, `SpecIInv` the
invariant of the specification, and the properties follow from it. The only
assumptions are the named ones on the constants (`EngineAssumption`,
`RepairAssumption`, `ServiceAssumption`, `SessionAssumption`, `PageAssumption`,
`FieldAssumption`, `ShellAssumption`, `GenerationAssumption`, `RegistryAssumption`), which
TLC evaluates in every run; all are about the shape of inputs.

- `SequenceLemmas`: what a flattened sequence holds, how it begins and how it grows
  (`FlattenType`, `FlattenAppend`, `FlattenCons`, `FlattenRange`). `FlattenSeq` is a
  recursive function, so these are inductions; they are done over sets of numbers
  (`SetInduction`), since a theorem with an operator as parameter is of no use here.
  `FlatMap` replaces each element of a sequence by a sequence, and `FlatMapTwice` composes two of these:
  that is how a run becomes texts, and steps become actions.
- `WorkflowEngine_proofs`: `TypeCorrect`, `Validated`, `MatchOnly`, `TraceInOrder`,
  `HonestReport`, `PlaceholdersReplaced`.
  The invariant adds how the cursor explains the answers given so far (`AnswersOk`),
  what was vetted before the first action (`VettedOk`) and how counters, results and
  trace relate (`ProgressOk`). `EngineImplementsContract` is the refinement: `RefuseIs` to
  `StutterIs` say how a step looks in `ReplayContract`, `...Refines` which step of the engine
  is which of them, and `StepRefines` puts them together under the invariant.
- `WorkflowEngine_proofs`, second part, for any number of registries, callables and names:
  `RegistriesTyped`, `CallsReach` (`CallsReachWhatTheyName`) and `RefusalsAreHarmless`
  (`RefusedChangesNothing`). Every name in a table was registered for what it stands for
  and every mark was written by a registration (`TablesOk`); that a callable's mark leads
  back to its entry holds only while all registrations were tidy (`TidyOk`). A constructor,
  `add_entries` and the copying of a registry are many registrations in one step, so
  the lemmas are about `Follows`, what one or more registrations make of marks and entries: it
  holds of one (`RegisterFollows`), it is transitive, and so it holds of a sequence of
  them (`AddAllFollows`, `AddItemsFollows`), however far it got before a refusal.
- `BrowserRepair_proofs`: `TypeCorrect`, `Continues`, `BoundedRepair`, `FailureReport`,
  `SuccessReport` (a returned list means that the last script ran to its end, and that
  each one before it had stopped short); `SavedWorkflow` if every document has `states`. The
  invariant splits `done` into the rounds before the current one and the running
  one (`RoundOk`) and ties `completed_actions` to the former (`RecordOk`).
  `ResultsAreComplete` follows the nested result lists through all rounds: flattened,
  they are the actions completed, a failing state included.
- `LLMService_proofs`: `TypeCorrect`, `OverridesRound`, `OverridesIsolated`, `ToolsKept`;
  `LoneFailure` with at most one default caller. `CircularCovers` is the fact about
  going round: N models in circular order are all of them.
- `BrowserSession_proofs`: `TypeCorrect`, `NothingLeft`, `HonestOutcome`,
  `CausedLeftovers`, `OneAtATime`, for any number of rounds. `HonestOutcome` says that a result is that of the work on the page
  and that a finished replay is reported as an exception only because a named step behind it raised:
  in the facade's flow only stopping the driver, in `run_workflow` closing the context or the
  browser too. The invariant says, for every
  place of every flow, exactly what can be open there and which fault led to it.
- `FieldActions_proofs`: `TypesAreKept`, `PopupsAreNew`, `OnlyReported`, `ClicksHappened`, `TextIsExact`,
  `EffectsAccounted`, `ContextMoves`, for any number of pages, actions and
  characters. The invariant relates the popup found to the pages that were there
  when the attempt began, and what a field holds to what was typed since it was
  cleared. `TextIsExact` says that a field whose input is reported holds nothing but characters of the
  text, in order and each once (`LeavesOut`), and all of them if it was filled, or typed without the focus
  being moved meanwhile; characters may be missing anywhere, not only at the end.
- `ShellAgent_proofs`: `TypeCorrect`, `WorkflowIsTheConversation`, `HonestReport`, for any
  decisions of the model and any limit of nodes. The invariant matches the
  measurements executed so far with those `extract_tool_runs` finds in the messages
  (`Accounted`), from which the workflow is later made. `HonestReport`: a success is reported
  exactly when every action was performed and returned, and then the replay has started every
  measurement of the conversation again with the command line it had.
- `Generation_proofs`: `TypeCorrect`, `TrueGuidance`, `FailedFirst`, `SelectorsAreSound`, for
  any turns, elements, parameters and numbers of rounds and steps. The guidance alone is not
  inductive: it shows the most common labels, pages and errors, while the evolution counts them
  all, so the invariant is about the evolution (`Summarizes`): every counter has exactly
  what occurred, and the best length has a success of that length.
  `MostCommonIs` and `SortedFirst` show that what `MostCommon` and `Sorted` choose exists;
  `GeneratedSelectors` that each candidate is made of what the element has;
  `RestoreIs` that names for aliases leave a text without a tag as it is, which is
  why a selector survives that step.
- `Generation_proofs`, second part: `ReplaysRepeat` (`KeptActionsAreRepeated`): a replay with the
  same parameters repeats the kept actions, apart from the three exceptions named in section 2. It has two
  hypotheses, which `MCGeneration` evaluates (`SeparableAssumption`). `PlainInputs`: what
  the agent writes itself and what a page is made of has no brackets. `Separable`, of every set of
  parameters the code accepts: no value has brackets, and none that is long enough to be looked for
  inside a text occurs in a parameter's name. The second is what the parameters of
  `generation_nested` lack, so the theorem bounds the finding there: it takes a value inside a name.
  The argument is about texts. What the agent writes is a sequence of units, words and
  parameters, with several renderings: as told (an alias for a secret), as typed, with names for
  aliases, with placeholders. A `re.sub` turns one rendering into another unit by unit
  (`RewriteUnits`), because a bracket is never part of what it surrounds; a `str.replace` by a
  placeholder may cut words and join units, but what the new units resolve to is what the old
  ones did (`ReplaceUnits`), and so it stays through all values, longest first
  (`EmbeddedValuesAre`, an induction over the order). `TextComesBack` puts these together for what
  the agent wrote and `BareComesBack` for a selector or a number. `GeneratedAligned` shows that the
  workflow has an action for each one that is kept, in order, though actions are dropped
  in three places. The invariant `WorkflowOk` is then small: in which places of the code the
  workflow is which of these.

Two things in the model came out of the proofs. A `CASE` whose guards overlap has no
defined value where the alternatives differ, and two did (`ShortCss` for a path of one step with a
position, `Parameterized`); they are chains of `IF` now, in the order of the code.
The properties of `Generation` and `ShellAgent` needed their inputs to be of the shape
that is now assumed. And what is now `KeptActionsAreRepeated` was false of a text that is one parameter with blanks
around it: `_resolve_params` takes such a placeholder for the whole text
(`engine/executor.py:80`), and the blanks are not typed again. The model now does so too, a turn of
`MCGeneration` types such a text, and the property names the exception.

Only model-checked:

- liveness (`Terminates`, `EveryCallEnds`) and with it the fairness in
  `ImplementsContract`, whose safety part is proved: `ENABLED` and fairness are beyond the provers.

## 6. Not modelled

- Model construction (`model_factory`), prompts, configuration, logging, browser
  fingerprints, scripts, containers and stored workflow documents: no behaviour
  of their own, or text for a model.
- The parsing of a measurement tool's output, and the `open` and `close` hooks of the
  adapters, which do nothing. `PlaywrightAdapter` is called by nothing in `src/src`.
- The browser-use agent: external, as is LangGraph's recursion limit. The agent's own
  effects while it repairs, on the page where the patched actions then run again, are
  not compared with them: what the agent did is recorded as actions only.
- The trigger registry keeps the page it was made with when a popup is adopted
  by the action registry. In a replay all checks are asked before the first action,
  so none is asked after a popup; in a repair round those of the patched workflow
  are, and `BrowserRepair` has their answer as a choice.
- The wording of prompts, messages and errors: guidance is modelled as what it says.
