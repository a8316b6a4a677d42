--------------------------- MODULE WorkflowEngine ---------------------------
(***************************************************************************)
(* One deterministic replay: NetGent.arun_workflow driving a WorkflowRunner, *)
(* its ProgramController and its StateExecutor (src/src/engine).            *)
(*                                                                         *)
(* The runner is one coroutine; every await hands the event loop to a live  *)
(* page that changes by itself, so the page is a variable of its own that   *)
(* moves between any two steps of the runner.                               *)
(***************************************************************************)
EXTENDS Naturals, Sequences, FiniteSets, SequencesExt

CONSTANTS
  Inputs,         \* the workflow documents a caller may hand in
  ActionTypes,    \* action type names a document may mention
  Keys,           \* parameter keys an action may carry
  Literals,       \* pieces of text without a placeholder, and values of other types
  Names,          \* parameter names; in a text, n stands for {{n}}
  Signature,      \* registered action type -> required and accepted keys
  TriggerNames,   \* trigger names a document may mention
  BlankName,      \* the trigger name made of white space only
  Holds,          \* registered trigger -> the pages on which it answers True
  Pages,          \* conditions of the live page
  Supplied,       \* the parameters the executor was built with
  Coerce,         \* per key, piece of text -> value as the action annotates the key
  Configs         \* the values of the controller's "allow_multiple_states"

\* A parameter value is the sequence of its pieces: <<n>> is a placeholder with at most
\* blanks around it, a longer text may have placeholders inside. No pieces at all
\* stand for a key the action does not carry.
Texts == Seq(Literals \cup Names)

Check == [type : TriggerNames, binds : BOOLEAN]
Action == [type : ActionTypes, params : [Keys -> Texts]]
State == [checks : Seq(Check), actions : Seq(Action)]
Workflow == [states : Seq(State), parameters : SUBSET Names]

\* WorkflowSchema.normalize_legacy_single_state: a document without "states"
\* that carries the keys of one state becomes a workflow of that one state.
Normalize(doc) ==
  IF "states" \in DOMAIN doc THEN doc
  ELSE [states |-> <<[checks |-> doc.checks, actions |-> doc.actions]>>,
        parameters |-> doc.parameters]

ASSUME EngineAssumption ==
  /\ \A doc \in Inputs : Normalize(doc) \in Workflow
  /\ DOMAIN Signature \subseteq ActionTypes
  /\ \A t \in DOMAIN Signature :
       Signature[t] \in [required : SUBSET Keys, accepted : SUBSET Keys]
  /\ BlankName \in TriggerNames \ DOMAIN Holds
  /\ \A t \in DOMAIN Holds : Holds[t] \subseteq Pages
  /\ DOMAIN Supplied \subseteq Names
  /\ \A n \in DOMAIN Supplied : Supplied[n] \in Literals
  /\ Literals \cap Names = {}
  /\ \A k \in Keys : \A v \in Literals : Coerce[k][v] \in Literals
  /\ \A k \in Keys : \A n \in Names : Coerce[k][n] \in Literals \cup {n}
  /\ Configs \subseteq BOOLEAN

VARIABLES
  multiple,  \* the controller's config["allow_multiple_states"]
  workflow,  \* the document; from validation on, the validated workflow
  pc,        \* where WorkflowRunner.run stands
  page,      \* condition of the live page
  state,     \* index of the state ProgramController.check looks at
  check,     \* index of the next check of that state
  matching,  \* matching_states, as indices of workflow.states
  run,       \* index in matching of the state being executed
  action,    \* index of the next action of that state
  partial,   \* the results list of StateExecutor.run
  output,    \* results of the states that ran to their end
  report,    \* what arun_workflow returns
  answers,   \* history: the answers the checks gave, <<state, check, answer>>
  trace      \* history: per executed state, the actions performed on the page

vars == <<multiple, workflow, pc, page, state, check, matching, run, action, partial,
          output, report, answers, trace>>
cursor == <<state, check, matching, answers>>
progress == <<run, action, partial, output, trace>>
-----------------------------------------------------------------------------
\* The supplied value of a placeholder; anything else stays what it is.
Substituted(piece) == IF piece \in DOMAIN Supplied THEN Supplied[piece] ELSE piece

\* _resolve_params, which execute calls only if there are parameters. A text that is
\* one placeholder is coerced to the annotation of its key, supplied or not;
\* inside a longer text placeholders are substituted and nothing is coerced.
Resolved(k, v) ==
  IF DOMAIN Supplied = {} THEN v
  ELSE IF Len(v) = 1 /\ v[1] \in Names THEN <<Coerce[k][Substituted(v[1])]>>
  ELSE [i \in DOMAIN v |-> Substituted(v[i])]

Resolve(a) ==
  [type |-> a.type, params |-> [k \in Keys |-> Resolved(k, a.params[k])]]

\* The keys an action carries.
Given(a) == {k \in Keys : a.params[k] # <<>>}

\* registry.definition(type) exists and public_signature.bind(**params) works.
Binds(a) ==
  /\ a.type \in DOMAIN Signature
  /\ Signature[a.type].required \subseteq Given(a)
  /\ Given(a) \subseteq Signature[a.type].accepted

\* Mutant: only the first state is validated.
FirstStateActions(w) ==
  {w.states[1].actions[k] : k \in DOMAIN w.states[1].actions}

AllActions(w) ==
  UNION {{w.states[s].actions[k] : k \in DOMAIN w.states[s].actions} :
           s \in DOMAIN w.states}

Checks == workflow.states[state].checks

\* The actions of the r-th state that matched.
ActionsOf(r) == workflow.states[matching[r]].actions
-----------------------------------------------------------------------------
Running == [success |-> FALSE, reason |-> "running", output |-> <<>>, failed |-> 0]

Init ==
  /\ multiple \in Configs
  /\ workflow \in Inputs
  /\ pc = "validate"
  /\ page \in Pages
  /\ state = 1 /\ check = 1 /\ matching = <<>>
  /\ run = 1 /\ action = 1 /\ partial = <<>> /\ output = <<>>
  /\ report = Running
  /\ answers = {} /\ trace = <<>>

\* An exception other than StateExecutionError, shaped by _failure_result.
Reject(reason) ==
  /\ pc' = "done"
  /\ report' = [Running EXCEPT !.reason = reason]

Succeed(results) ==
  /\ pc' = "done"
  /\ report' = [Running EXCEPT !.success = TRUE, !.reason = "none",
                               !.output = results]

\* WorkflowRunner.validate: the schema first, then every action of every
\* state; trigger names are not looked at.
Validate ==
  /\ pc = "validate"
  /\ workflow' = Normalize(workflow)
  /\ \/ /\ workflow'.states = <<>>
        /\ Reject("schema")
     \/ /\ workflow'.states # <<>>
        /\ \E a \in AllActions(workflow') : ~Binds(a)
        /\ Reject("action")
     \/ /\ workflow'.states # <<>>
        /\ \A a \in AllActions(workflow') : Binds(a)
        /\ pc' = "parameters"
        /\ UNCHANGED report
  /\ UNCHANGED <<multiple, page, cursor, progress>>

\* Mutant: missing parameters are let through.
SkipCheckParameters ==
  /\ pc = "parameters"
  /\ pc' = "check"
  /\ UNCHANGED <<multiple, workflow, page, report, cursor, progress>>

\* WorkflowRunner._check_parameters
CheckParameters ==
  /\ pc = "parameters"
  /\ IF workflow.parameters \subseteq DOMAIN Supplied
     THEN pc' = "check" /\ UNCHANGED report
     ELSE Reject("parameters")
  /\ UNCHANGED <<multiple, workflow, page, cursor, progress>>
-----------------------------------------------------------------------------
\* ProgramController.check and _check_state, one trigger at a time.

Checking == pc = "check" /\ state <= Len(workflow.states)

NextCheck == check <= Len(Checks)

\* registry.run must raise: the trigger is unknown or its parameters do not bind.
Unusable(c) ==
  /\ c.type # BlankName
  /\ c.type \notin DOMAIN Holds \/ ~c.binds

\* What a usable check answers on the page as it is now.
Answer(c) == c.type # BlankName /\ page \in Holds[c.type]

\* registry.run raises a TriggerError: the trigger cannot be called, or was called and
\* raised, or answered something that is not a bool. A blank name is not looked up.
CheckRaises ==
  /\ Checking /\ NextCheck
  /\ Checks[check].type # BlankName
  /\ Reject("trigger")
  /\ UNCHANGED <<multiple, workflow, page, cursor, progress>>

CheckHolds ==
  /\ Checking /\ NextCheck
  /\ ~Unusable(Checks[check]) /\ Answer(Checks[check])
  /\ check' = check + 1
  /\ answers' = answers \cup {<<state, check, TRUE>>}
  /\ UNCHANGED <<multiple, workflow, pc, page, state, matching, progress, report>>

\* Mutant: a False answer does not end the state's checks.
CheckFailsOn ==
  /\ Checking /\ NextCheck
  /\ ~Unusable(Checks[check]) /\ ~Answer(Checks[check])
  /\ check' = check + 1
  /\ answers' = answers \cup {<<state, check, FALSE>>}
  /\ UNCHANGED <<multiple, workflow, pc, page, state, matching, progress, report>>

\* Mutant: a state is polled until it matches.
CheckFailsAgain ==
  /\ Checking /\ NextCheck
  /\ ~Unusable(Checks[check]) /\ ~Answer(Checks[check])
  /\ check' = 1
  /\ answers' = answers \cup {<<state, check, FALSE>>}
  /\ UNCHANGED <<multiple, workflow, pc, page, state, matching, progress, report>>

CheckFails ==
  /\ Checking /\ NextCheck
  /\ ~Unusable(Checks[check]) /\ ~Answer(Checks[check])
  /\ state' = state + 1 /\ check' = 1
  /\ answers' = answers \cup {<<state, check, FALSE>>}
  /\ UNCHANGED <<multiple, workflow, pc, page, matching, progress, report>>

StateMatches ==
  /\ Checking /\ ~NextCheck
  /\ matching' = Append(matching, state)
  /\ state' = state + 1 /\ check' = 1
  /\ UNCHANGED <<multiple, workflow, pc, page, answers, progress, report>>

\* Mutant: several matching states are accepted whatever the configuration.
NeverTooMany == FALSE

TooMany == multiple = FALSE /\ Len(matching) > 1

\* The end of check, back in WorkflowRunner.run.
ChecksDone ==
  /\ pc = "check" /\ state > Len(workflow.states)
  /\ \/ TooMany /\ Reject("multiple") /\ UNCHANGED trace
     \/ matching = <<>> /\ Succeed(<<>>) /\ UNCHANGED trace
     \/ /\ ~TooMany /\ matching # <<>>
        /\ pc' = "run" /\ trace' = <<<<>>>>
        /\ UNCHANGED report
  /\ UNCHANGED <<multiple, workflow, page, cursor, run, action, partial, output>>
-----------------------------------------------------------------------------
\* StateExecutor.run and execute. An action may leave the page in any
\* condition, whether it returns or raises. Its result is named by the action
\* that produced it.

Perform ==
  /\ pc = "run" /\ action <= Len(ActionsOf(run))
  /\ LET done == Resolve(ActionsOf(run)[action])
     IN /\ partial' = Append(partial, done)
        /\ trace' = [trace EXCEPT ![run] = Append(@, done)]
  /\ page' \in Pages
  /\ action' = action + 1
  /\ pc' = IF action < Len(ActionsOf(run)) THEN "period" ELSE "run"
  /\ UNCHANGED <<multiple, workflow, cursor, run, output, report>>

\* asyncio.sleep(action_period)
PeriodOver ==
  /\ pc = "period"
  /\ pc' = "run"
  /\ UNCHANGED <<multiple, workflow, page, cursor, progress, report>>

\* Mutant: the failed action is skipped and the state goes on.
ActionRaisesSkipped ==
  /\ pc = "run" /\ action <= Len(ActionsOf(run))
  /\ page' \in Pages
  /\ action' = action + 1
  /\ UNCHANGED <<multiple, workflow, pc, cursor, run, partial, output, trace, report>>

\* Mutant: the index of the failed action is one too low.
ActionRaisesLow ==
  /\ pc = "run" /\ action <= Len(ActionsOf(run))
  /\ page' \in Pages
  /\ pc' = "done"
  /\ report' = [Running EXCEPT !.reason = "state", !.output = <<partial>>,
                               !.failed = action - 2]
  /\ UNCHANGED <<multiple, workflow, cursor, progress>>

\* Mutant: the failure is raised without the partial results.
ActionRaisesBare ==
  /\ pc = "run" /\ action <= Len(ActionsOf(run))
  /\ page' \in Pages
  /\ pc' = "done"
  /\ report' = [Running EXCEPT !.reason = "state", !.failed = action - 1]
  /\ UNCHANGED <<multiple, workflow, cursor, progress>>

\* StateExecutionError, shaped by _failure_result.
ActionRaises ==
  /\ pc = "run" /\ action <= Len(ActionsOf(run))
  /\ page' \in Pages
  /\ pc' = "done"
  /\ report' = [Running EXCEPT !.reason = "state", !.output = <<partial>>,
                               !.failed = action - 1]
  /\ UNCHANGED <<multiple, workflow, cursor, progress>>

StateDone ==
  /\ pc = "run" /\ action > Len(ActionsOf(run))
  /\ output' = Append(output, partial)
  /\ partial' = <<>> /\ action' = 1
  /\ IF run < Len(matching)
     THEN /\ run' = run + 1
          /\ trace' = Append(trace, <<>>)
          /\ UNCHANGED <<pc, report>>
     ELSE /\ Succeed(output')
          /\ UNCHANGED <<run, trace>>
  /\ UNCHANGED <<multiple, workflow, page, cursor>>
-----------------------------------------------------------------------------
Runner ==
  \/ Validate \/ CheckParameters
  \/ CheckRaises \/ CheckHolds \/ CheckFails \/ StateMatches \/ ChecksDone
  \/ Perform \/ PeriodOver \/ ActionRaises \/ StateDone

\* The page changes while the runner is suspended in an await.
PageMoves ==
  /\ pc # "done"
  /\ page' \in Pages \ {page}
  /\ UNCHANGED <<multiple, workflow, pc, cursor, progress, report>>

Next == Runner \/ PageMoves

Spec == Init /\ [][Next]_vars /\ WF_vars(Runner)
-----------------------------------------------------------------------------
(* Properties *)

Reasons == {"none", "running", "schema", "action", "parameters", "trigger",
            "multiple", "state"}

\* Every variable keeps the shape the Python objects have.
TypeOk ==
  /\ multiple \in BOOLEAN
  /\ workflow \in Inputs \cup {Normalize(doc) : doc \in Inputs}
  /\ pc \in {"validate", "parameters", "check", "run", "period", "done"}
  /\ page \in Pages
  /\ state \in Nat \ {0} /\ check \in Nat \ {0}
  /\ run \in Nat \ {0} /\ action \in Nat \ {0}
  /\ matching \in Seq(Nat)
  /\ partial \in Seq(Action)
  /\ output \in Seq(Seq(Action))
  /\ report \in [success : BOOLEAN, reason : Reasons,
                 output : Seq(Seq(Action)), failed : Nat]
  /\ answers \subseteq (Nat \X Nat \X BOOLEAN)
  /\ trace \in Seq(Seq(Action))

\* No action reaches the page before the whole document passed: every action of
\* every state is registered and binds, and every declared parameter was
\* supplied (WorkflowRunner.run: validate and _check_parameters come first).
NothingRunsUnvalidated ==
  trace # <<>> =>
    /\ \A s \in DOMAIN workflow.states :
         \A k \in DOMAIN workflow.states[s].actions :
           Binds(workflow.states[s].actions[k])
    /\ workflow.parameters \subseteq DOMAIN Supplied

\* A state runs only if each of its checks was answered True in this very run,
\* and every state that does not run had a check answered False; unless
\* several states are allowed, exactly one runs (ProgramController.check).
\* The answers are those of the moment each check was made: the page may have
\* moved since.
OnlyTheMatchRuns ==
  trace # <<>> =>
    /\ \A s \in DOMAIN workflow.states :
         LET asked == DOMAIN workflow.states[s].checks
         IN IF \E r \in DOMAIN matching : matching[r] = s
            THEN \A c \in asked : <<s, c, TRUE>> \in answers
            ELSE \E c \in asked : <<s, c, FALSE>> \in answers
    /\ multiple \/ Len(matching) = 1
    /\ \A i, j \in DOMAIN matching : i < j => matching[i] < matching[j]

\* What happens on the page is the matched states' actions in their order, each
\* once, with nothing skipped: the next state starts only after the last
\* action of the one before it (StateExecutor.run).
TraceFollowsTheMatch ==
  /\ Len(trace) <= Len(matching)
  /\ \A r \in DOMAIN trace :
       /\ Len(trace[r]) <= Len(ActionsOf(r))
       /\ r < Len(trace) => Len(trace[r]) = Len(ActionsOf(r))
       /\ \A k \in DOMAIN trace[r] : trace[r][k] = Resolve(ActionsOf(r)[k])

\* No declared placeholder is ever typed into the page, alone or inside a longer
\* text: _check_parameters guards the declared names, _resolve_params substitutes
\* the supplied ones.
NoDeclaredPlaceholderReachesThePage ==
  \A r \in DOMAIN trace : \A k \in DOMAIN trace[r] :
    \A key \in DOMAIN trace[r][k].params :
      ToSet(trace[r][k].params[key]) \cap workflow.parameters = {}

\* A report never disagrees with the page: success means every matched state ran
\* to its end, and the output holds one result per action performed; a failed
\* action is named by an index that counts the results kept for its state.
ReportAgreesWithTrace ==
  pc = "done" =>
    /\ report.success =>
         /\ report.output = trace
         /\ Len(trace) = Len(matching)
         /\ \A r \in DOMAIN trace : Len(trace[r]) = Len(ActionsOf(r))
    /\ report.reason = "state" =>
         /\ ~report.success /\ trace # <<>>
         /\ report.output = <<trace[Len(trace)]>>
         /\ report.failed = Len(trace[Len(trace)])
         /\ report.failed < Len(ActionsOf(Len(trace)))
    /\ report.success \/ report.reason = "state" \/ trace = <<>>

\* A failed run keeps the result of every action performed before the failure, which
\* is what the docstring of StateExecutionError says: "Carries the results of the
\* actions that completed before the failure [...] instead of losing the whole
\* run's evidence" (engine/executor.py:109-111).
FailureKeepsEveryResult ==
  report.reason = "state" => report.output = trace

\* Every replay ends with a report, however the page moves, provided each
\* awaited call returns.
Terminates == <>(pc = "done")

\* The engine implements ReplayContract: triggers, pages, parameters, periods
\* and results are hidden, and the states picked are those that matched.
Contract == INSTANCE ReplayContract WITH
  Scripts <- {[s \in DOMAIN Normalize(doc).states |->
                 [k \in DOMAIN Normalize(doc).states[s].actions |->
                    Resolve(Normalize(doc).states[s].actions[k])]] : doc \in Inputs},
  script <- [s \in DOMAIN Normalize(workflow).states |->
               [k \in DOMAIN Normalize(workflow).states[s].actions |->
                  Resolve(Normalize(workflow).states[s].actions[k])]],
  picked <- IF trace = <<>> THEN <<>> ELSE matching,
  performed <- trace,
  verdict <- IF pc # "done" THEN "open"
             ELSE IF report.success THEN "success" ELSE "failure"
ImplementsContract == Contract!Spec
=============================================================================
