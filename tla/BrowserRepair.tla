---------------------------- MODULE BrowserRepair ----------------------------
(***************************************************************************)
(* The browser subagent's execute_workflow: a workflow is executed on a     *)
(* live page, and when one of its actions fails a browser-use agent         *)
(* finishes the task by hand and its history becomes the workflow of the    *)
(* next round (agents/subagents/browser/execute/agent.py, called by         *)
(* run_workflow of agents/subagents/browser/agent.py).                      *)
(*                                                                         *)
(* WorkflowEngine models the checks of a workflow one trigger at a time;    *)
(* here their outcome is one choice. run_workflow builds its controller     *)
(* without "allow_multiple_states", so at most one state passes.            *)
(***************************************************************************)
EXTENDS Naturals, Sequences, FiniteSets, SequencesExt

CONSTANTS
  Inputs,        \* the workflow documents the agent may be given
  Actions,       \* workflow actions a document may mention
  Bindable,      \* those that are registered and whose parameters bind
  Names,         \* names of workflow parameters
  AgentActions,  \* actions the browser-use agent may plan
  Convert,       \* agent action -> workflow action, for those _convert_action keeps
  MaxRepair,     \* DEFAULT_MAX_REPAIR_ATTEMPTS
  MaxPlanned     \* bound: actions planned in one agent run (DEFAULT_MAX_STEPS)

\* What the checks of a state may answer: always True, True or False with the
\* page, or False or an exception (a check that cannot run).
State == [checks : {"always", "gated", "faulty"}, actions : Seq(Actions)]
Workflow == [states : Seq(State), parameters : SUBSET Names]

\* WorkflowSchema.normalize_legacy_single_state
Normalize(doc) ==
  IF "states" \in DOMAIN doc THEN doc
  ELSE [states |-> <<[checks |-> doc.checks, actions |-> doc.actions]>>,
        parameters |-> doc.parameters]

ASSUME RepairAssumption ==
  /\ \A doc \in Inputs : Normalize(doc) \in Workflow
  /\ Bindable \subseteq Actions
  /\ DOMAIN Convert \subseteq AgentActions
  /\ \A a \in DOMAIN Convert : Convert[a] \in Bindable
  /\ MaxRepair \in Nat
  /\ MaxPlanned \in Nat

VARIABLES
  workflow,   \* the document execute_workflow was given
  current,    \* current_workflow
  attempt,    \* repair_attempt
  pc,         \* where execute_workflow stands
  passed,     \* index of the state of passed_states in the current workflow
  action,     \* index of its next action
  partial,    \* results of _execute_state_actions, named by the action
  result,     \* result: one list of results per executed state
  completed,  \* completed_actions
  recovered,  \* the actions gen_workflow keeps of the running agent's history
  planned,    \* number of actions in that history
  returned,   \* what run_workflow gets back
  done,       \* history: every action the executor completed, with its round
  repairs     \* history: the actions of each patched workflow

vars == <<workflow, current, attempt, pc, passed, action, partial, result,
          completed, recovered, planned, returned, done, repairs>>
records == <<result, completed>>
agent == <<recovered, planned, repairs>>
cursor == <<passed, action, partial, done>>
-----------------------------------------------------------------------------
\* WorkflowRunner.validate
Valid(doc) ==
  LET states == Normalize(doc).states
  IN /\ states # <<>>
     /\ \A s \in DOMAIN states : \A k \in DOMAIN states[s].actions :
          states[s].actions[k] \in Bindable

CurrentStates == Normalize(current).states
Script == CurrentStates[passed].actions

\* gen_workflow: one state that always matches.
gen_workflow(actions) ==
  [states |-> <<[checks |-> "always", actions |-> actions]>>, parameters |-> {}]

\* _build_final_workflow, which is handed the document as it came in.
FinalWorkflow(doc, actions) ==
  IF "states" \notin DOMAIN doc
  THEN [k \in DOMAIN doc \cup {"states"} |-> IF k = "states" THEN <<>> ELSE doc[k]]
  ELSE [doc EXCEPT !.states[1].actions = actions]

Running == [kind |-> "running", results |-> <<>>, kept |-> <<>>, failed |-> <<>>,
            attempts |-> 0, saved |-> workflow]

Init ==
  /\ workflow \in Inputs
  /\ current = workflow
  /\ attempt = 0
  /\ pc = "route"
  /\ passed = 1 /\ action = 1 /\ partial = <<>>
  /\ result = <<>> /\ completed = <<>>
  /\ recovered = <<>> /\ planned = 0
  /\ returned = Running
  /\ done = <<>> /\ repairs = <<>>

\* An exception leaves execute_workflow; run_workflow reports it and keeps the
\* document it had.
Abort ==
  /\ pc' = "done"
  /\ returned' = [Running EXCEPT !.kind = "exception"]

\* The result list and the final workflow.
Finish(results, actions) ==
  /\ pc' = "done"
  /\ returned' = [Running EXCEPT !.kind = "list", !.results = results,
                                 !.saved = FinalWorkflow(workflow, actions)]
-----------------------------------------------------------------------------
\* route_workflow
Route ==
  /\ pc = "route"
  /\ IF Valid(workflow) THEN pc' = "check" /\ UNCHANGED returned ELSE Abort
  /\ UNCHANGED <<workflow, current, attempt, cursor, records, agent>>

Named(kind) == {s \in DOMAIN CurrentStates : CurrentStates[s].checks = kind}

\* runner.validate(current_workflow) or a check of some state raises.
CheckRaises ==
  /\ pc = "check"
  /\ ~Valid(current) \/ Named("faulty") # {}
  /\ Abort
  /\ UNCHANGED <<workflow, current, attempt, cursor, records, agent>>

\* controller.check, with the states that match as the page decides.
Check ==
  /\ pc = "check" /\ Valid(current)
  /\ \E matching \in SUBSET (Named("always") \cup Named("gated")) :
       /\ Named("always") \subseteq matching
       /\ \/ /\ Cardinality(matching) > 1
             /\ Abort
             /\ UNCHANGED passed
          \/ /\ matching = {}
             /\ Finish(result, completed)
             /\ UNCHANGED passed
          \/ /\ \E s \in matching : matching = {s} /\ passed' = s
             /\ pc' = "run"
             /\ UNCHANGED returned
  /\ UNCHANGED <<workflow, current, attempt, action, partial, done, records, agent>>
-----------------------------------------------------------------------------
\* One turn of _execute_state_actions: the action returned.
Perform ==
  /\ pc = "run" /\ action <= Len(Script)
  /\ partial' = Append(partial, Script[action])
  /\ done' = Append(done, [round |-> attempt, step |-> action,
                           action |-> Script[action]])
  /\ action' = action + 1
  /\ pc' = IF action < Len(Script) THEN "period" ELSE "run"
  /\ UNCHANGED <<workflow, current, attempt, passed, records, agent, returned>>

\* asyncio.sleep(action_period)
PeriodOver ==
  /\ pc = "period"
  /\ pc' = "run"
  /\ UNCHANGED <<workflow, current, attempt, cursor, records, agent, returned>>

\* Mutant: the results of the round that ends well are not appended.
StateDoneLoses ==
  /\ pc = "run" /\ action > Len(Script)
  /\ completed' = completed \o Script
  /\ Finish(result, completed')
  /\ UNCHANGED <<workflow, current, attempt, cursor, agent, result>>

\* Mutant: only a state that had an action to perform comes to an end.
StateDoneInLoop ==
  /\ pc = "run" /\ action > Len(Script) /\ partial # <<>>
  /\ result' = Append(result, partial)
  /\ completed' = completed \o Script
  /\ Finish(result', completed')
  /\ UNCHANGED <<workflow, current, attempt, cursor, agent>>

\* Every action returned: execute_workflow returns.
StateDone ==
  /\ pc = "run" /\ action > Len(Script)
  /\ result' = Append(result, partial)
  /\ completed' = completed \o Script
  /\ Finish(result', completed')
  /\ UNCHANGED <<workflow, current, attempt, cursor, agent>>

\* Mutant: the action that failed is recorded as completed.
KeepOneMore ==
  /\ result' = IF partial = <<>> THEN result ELSE Append(result, partial)
  /\ completed' = completed \o SubSeq(Script, 1, action)

\* What the handler of WorkflowExecutionError keeps of the round that failed.
KeepCompleted ==
  /\ result' = IF partial = <<>> THEN result ELSE Append(result, partial)
  /\ completed' = completed \o SubSeq(Script, 1, action - 1)

\* Mutant: one repair more than allowed.
LastAttemptLate == attempt > MaxRepair

LastAttempt == attempt >= MaxRepair

\* The action raised: the agent takes over on the live page.
StartRepair ==
  /\ pc = "run" /\ action <= Len(Script)
  /\ ~LastAttempt
  /\ KeepCompleted
  /\ pc' = "debug"
  /\ recovered' = <<>> /\ planned' = 0
  /\ UNCHANGED <<workflow, current, attempt, cursor, repairs, returned>>

\* Mutant: the report of the last failure names the action before.
GiveUpEarlier ==
  /\ pc = "run" /\ action <= Len(Script)
  /\ LastAttempt
  /\ KeepCompleted
  /\ pc' = "done"
  /\ returned' = [Running EXCEPT
       !.kind = "exhausted", !.kept = partial, !.attempts = attempt,
       !.failed = <<Script[IF action = 1 THEN 1 ELSE action - 1]>>,
       !.saved = FinalWorkflow(workflow, completed')]
  /\ UNCHANGED <<workflow, current, attempt, cursor, agent>>

\* Mutant: the last failure is swallowed.
GiveUpSilently ==
  /\ pc = "run" /\ action <= Len(Script)
  /\ LastAttempt
  /\ KeepCompleted
  /\ Finish(result', completed')
  /\ UNCHANGED <<workflow, current, attempt, cursor, agent>>

\* The action raised and no attempt is left.
GiveUp ==
  /\ pc = "run" /\ action <= Len(Script)
  /\ LastAttempt
  /\ KeepCompleted
  /\ pc' = "done"
  /\ returned' = [Running EXCEPT
       !.kind = "exhausted", !.kept = partial, !.failed = <<Script[action]>>,
       !.attempts = attempt, !.saved = FinalWorkflow(workflow, completed')]
  /\ UNCHANGED <<workflow, current, attempt, cursor, agent>>
-----------------------------------------------------------------------------
\* Mutant: what does not convert is kept as the agent planned it.
AgentPlansUnconverted ==
  /\ pc = "debug" /\ planned < MaxPlanned
  /\ planned' = planned + 1
  /\ \E a \in AgentActions :
       recovered' = Append(recovered, IF a \in DOMAIN Convert THEN Convert[a] ELSE a)
  /\ UNCHANGED <<workflow, current, attempt, pc, cursor, records, repairs, returned>>

\* debug_workflow. parse_agent_history and gen_workflow read the history one
\* action after the other, whether or not it succeeded on the page, and drop
\* the ignored ones and those that do not convert.
AgentPlans ==
  /\ pc = "debug" /\ planned < MaxPlanned
  /\ planned' = planned + 1
  /\ \E a \in AgentActions :
       recovered' = IF a \in DOMAIN Convert THEN Append(recovered, Convert[a])
                    ELSE recovered
  /\ UNCHANGED <<workflow, current, attempt, pc, cursor, records, repairs, returned>>

\* Agent.run or the model behind it raises.
AgentRaises ==
  /\ pc = "debug"
  /\ Abort
  /\ UNCHANGED <<workflow, current, attempt, cursor, records, agent>>

\* Mutant: the patched workflow is ignored and the failed one runs again.
AgentDoneIgnored ==
  /\ pc = "debug"
  /\ repairs' = Append(repairs, recovered)
  /\ attempt' = attempt + 1
  /\ pc' = "check"
  /\ action' = 1 /\ partial' = <<>>
  /\ UNCHANGED <<workflow, current, passed, done, records, recovered, planned, returned>>

\* Back in execute_workflow with the patched workflow, for the next attempt.
AgentDone ==
  /\ pc = "debug"
  /\ current' = gen_workflow(recovered)
  /\ repairs' = Append(repairs, recovered)
  /\ attempt' = attempt + 1
  /\ pc' = "check"
  /\ action' = 1 /\ partial' = <<>>
  /\ UNCHANGED <<workflow, passed, done, records, recovered, planned, returned>>
-----------------------------------------------------------------------------
Next ==
  \/ Route \/ CheckRaises \/ Check
  \/ Perform \/ PeriodOver \/ StateDone \/ StartRepair \/ GiveUp
  \/ AgentPlans \/ AgentRaises \/ AgentDone

Spec == Init /\ [][Next]_vars /\ WF_vars(Next)
-----------------------------------------------------------------------------
(* Properties *)

Entry == [round : Nat, step : Nat \ {0}, action : Actions]
Kinds == {"running", "list", "exhausted", "exception"}

\* Every variable keeps the shape the Python objects have.
TypeOk ==
  /\ workflow \in Inputs
  /\ Normalize(current) \in Workflow
  /\ attempt \in Nat /\ planned \in Nat
  /\ pc \in {"route", "check", "run", "period", "debug", "done"}
  /\ passed \in Nat \ {0} /\ action \in Nat \ {0}
  /\ partial \in Seq(Actions)
  /\ result \in Seq(Seq(Actions))
  /\ completed \in Seq(Actions)
  /\ recovered \in Seq(Bindable)
  /\ repairs \in Seq(Seq(Bindable))
  /\ done \in Seq(Entry)
  /\ returned.kind \in Kinds
  /\ returned.results \in Seq(Seq(Actions))
  /\ returned.kept \in Seq(Actions) /\ returned.failed \in Seq(Actions)
  /\ returned.attempts \in Nat

\* The returned workflow keeps its shape, and the actions of its first state are
\* those the executor completed over all attempts, in the order it completed them;
\* the rest is the caller's document (docstring of _build_final_workflow).
FirstStateHoldsWhatRan ==
  returned.kind \in {"list", "exhausted"} =>
    LET saved == Normalize(returned.saved)
        given == Normalize(workflow)
    IN /\ Len(saved.states) = Len(given.states)
       /\ Len(saved.states[1].actions) = Len(done)
       /\ \A i \in DOMAIN done : saved.states[1].actions[i] = done[i].action
       /\ saved.states[1].checks = given.states[1].checks
       /\ \A s \in DOMAIN given.states : s # 1 => saved.states[s] = given.states[s]
       /\ saved.parameters = given.parameters

\* The executed action e is the one its step names in a script.
Follows(e, script) == e.step <= Len(script) /\ e.action = script[e.step]

\* A repair continues and never starts over: the first round executes a prefix
\* of one state of the given workflow, each later one a prefix of the patched
\* workflow made for it, and no round is resumed once the next has begun
\* ("Execute only the patched continuation", execute_workflow).
ContinuationOnly ==
  /\ \E s \in DOMAIN Normalize(workflow).states \cup {1} : \A i \in DOMAIN done :
       done[i].round = 0 => Follows(done[i], Normalize(workflow).states[s].actions)
  /\ \A i \in DOMAIN done :
       /\ done[i].round <= Len(repairs)
       /\ done[i].round > 0 => Follows(done[i], repairs[done[i].round])
       /\ IF i > 1 /\ done[i - 1].round = done[i].round
          THEN done[i].step = done[i - 1].step + 1
          ELSE done[i].step = 1
       /\ i > 1 => done[i - 1].round <= done[i].round

\* The agent is called at most MaxRepair times, and the failure is returned as it
\* is only after all of them, with their number.
RepairBudget ==
  /\ Len(repairs) <= MaxRepair
  /\ pc = "debug" => Len(repairs) < MaxRepair
  /\ returned.kind = "exhausted" =>
       Len(repairs) = MaxRepair /\ returned.attempts = MaxRepair

\* A final failure names the action after the last one completed in its round,
\* and its "completed_results" are the results of that round alone, the last
\* ones of the whole run.
FailureNamesTheNextAction ==
  returned.kind = "exhausted" =>
    LET n == Len(returned.kept)
        last == Normalize(current).states[passed].actions
    IN /\ n < Len(last) /\ returned.failed = <<last[n + 1]>>
       /\ n <= Len(done)
       /\ \A i \in 1..n : done[Len(done) - n + i] =
            [round |-> attempt, step |-> i, action |-> returned.kept[i]]

\* Round r left an action of its script undone.
StopsShort(r, script) ==
  \E k \in DOMAIN script : \A i \in DOMAIN done : done[i].round = r => done[i].step < k

\* A returned result list means that no state of the given workflow matched, or that
\* the last round came to the end of its script, which is the last continuation if
\* there is one, and that every round before it had stopped short: the agent takes
\* over after a failure and for nothing else. Whether a continuation does what was
\* left is decided by nobody: execute_workflow does not read how the agent ended,
\* and an empty continuation comes to its end at once.
ListMeansFinished ==
  returned.kind = "list" =>
    LET rounds == Len(repairs)
    IN \/ rounds = 0 /\ done = <<>> /\ Named("always") = {}
       \/ /\ rounds > 0 => Script = repairs[rounds]
          /\ action = Len(Script) + 1 /\ Len(done) >= Len(Script)
          /\ \A i \in DOMAIN Script : done[Len(done) - Len(Script) + i] =
               [round |-> rounds, step |-> i, action |-> Script[i]]
          /\ \A r \in 1..(rounds - 1) : StopsShort(r, repairs[r])
          /\ rounds > 0 => \E s \in DOMAIN Normalize(workflow).states :
                             StopsShort(0, Normalize(workflow).states[s].actions)

\* The results returned on success are those of every action completed, one
\* each, over all the rounds.
ResultsCoverTheRun ==
  returned.kind = "list" =>
    LET flat == FlattenSeq(returned.results)
    IN Len(flat) = Len(done) /\ \A i \in DOMAIN flat : flat[i] = done[i].action

\* Whatever fails, execution ends, provided every awaited call returns and the
\* agent stops at its step limit.
Terminates == <>(pc = "done")
=============================================================================
