------------------------ MODULE WorkflowEngine_proofs ------------------------
(***************************************************************************)
(* Safety of WorkflowEngine for every set of documents, triggers, pages and *)
(* parameters, and of Registry, through which its actions and triggers are  *)
(* called, for every set of callables and registries.                       *)
(***************************************************************************)
EXTENDS WorkflowEngine, Registry, SequenceLemmas, TLAPS

\* The validated workflow is a well-formed one; before that it is a document.
WorkflowOk ==
  IF pc = "validate" THEN workflow \in Inputs ELSE workflow \in Workflow

\* Where the runner stands before, during and after the checks.
CursorOk ==
  /\ pc \in {"validate", "parameters"} => state = 1 /\ check = 1 /\ matching = <<>>
  /\ pc # "validate" => state <= Len(workflow.states) + 1
  /\ pc # "validate" /\ state <= Len(workflow.states)
       => check <= Len(Checks) + 1
  /\ \A r \in DOMAIN matching : matching[r] \in 1..(state - 1)
  /\ \A i, j \in DOMAIN matching : i < j => matching[i] < matching[j]

\* The answers ans account for state s being, or not being, in matching m.
Explained(w, s, m, ans) ==
  LET asked == DOMAIN w.states[s].checks
  IN IF \E r \in DOMAIN m : m[r] = s
     THEN \A c \in asked : <<s, c, TRUE>> \in ans
     ELSE \E c \in asked : <<s, c, FALSE>> \in ans

\* The answers so far explain which states matched.
AnswersOk ==
  pc # "validate" =>
    /\ \A s \in 1..(state - 1) : Explained(workflow, s, matching, answers)
    /\ \A c \in 1..(check - 1) : <<state, c, TRUE>> \in answers

\* What was established before the first action.
VettedOk ==
  /\ pc \in {"parameters", "check", "run", "period"} \/ trace # <<>> =>
       \A s \in DOMAIN workflow.states :
         \A k \in DOMAIN workflow.states[s].actions :
           Binds(workflow.states[s].actions[k])
  /\ pc \in {"check", "run", "period"} \/ trace # <<>> =>
       workflow.parameters \subseteq DOMAIN Supplied
  /\ pc \in {"run", "period"} \/ trace # <<>> =>
       /\ pc \in {"run", "period", "done"}
       /\ state = Len(workflow.states) + 1
       /\ ~TooMany /\ matching # <<>>

\* The runner's counters and lists against the trace.
ProgressOk ==
  /\ pc \in {"validate", "parameters", "check"} =>
       /\ run = 1 /\ action = 1 /\ partial = <<>> /\ output = <<>> /\ trace = <<>>
  /\ pc \in {"run", "period"} =>
       /\ Len(trace) = run /\ run <= Len(matching)
       /\ Len(output) = run - 1 /\ \A r \in 1..(run - 1) : output[r] = trace[r]
       /\ partial = trace[run] /\ action = Len(trace[run]) + 1
       /\ action <= Len(ActionsOf(run)) + 1
  /\ pc = "period" => action <= Len(ActionsOf(run))

IInv ==
  /\ TypeOk
  /\ WorkflowOk
  /\ CursorOk
  /\ AnswersOk
  /\ VettedOk
  /\ ProgressOk
  /\ TraceFollowsTheMatch
  /\ ReportAgreesWithTrace
  /\ pc # "done" => report = Running
-----------------------------------------------------------------------------
\* Substituting a supplied parameter yields a text, and none that was supplied
\* stays a placeholder.
LEMMA ResolvedType ==
  ASSUME NEW k \in Keys, NEW v \in Texts
  PROVE  /\ Resolved(k, v) \in Texts
         /\ \A i \in DOMAIN Resolved(k, v) : Resolved(k, v)[i] \notin DOMAIN Supplied
  <1> DEFINE Pieces == Literals \cup Names
  <1>1. DOMAIN Supplied \subseteq Names /\ Names \cap Literals = {}
        /\ \A n \in DOMAIN Supplied : Supplied[n] \in Literals
    BY EngineAssumption
  <1>2. v \in Seq(Pieces)
    BY DEF Texts
  <1>3. \A p \in Pieces : Substituted(p) \in Pieces \ DOMAIN Supplied
    BY <1>1 DEF Substituted
  <1>4. CASE DOMAIN Supplied = {}
    BY <1>2, <1>4 DEF Resolved, Texts
  <1>5. CASE DOMAIN Supplied # {} /\ Len(v) = 1 /\ v[1] \in Names
    <2> DEFINE p == Coerce[k][Substituted(v[1])]
    <2>1. Resolved(k, v) = <<p>>
      BY <1>5 DEF Resolved
    <2>2. p \in Pieces \ DOMAIN Supplied
      <3>1. CASE v[1] \in DOMAIN Supplied
        <4>1. Substituted(v[1]) \in Literals
          BY <1>1, <3>1 DEF Substituted
        <4>2. p \in Literals
          BY <4>1, EngineAssumption
        <4> QED
          BY <1>1, <4>2
      <3>2. CASE v[1] \notin DOMAIN Supplied
        <4>1. Substituted(v[1]) = v[1]
          BY <3>2 DEF Substituted
        <4>2. p \in Literals \cup {v[1]}
          BY <1>5, <4>1, EngineAssumption
        <4> QED
          BY <1>1, <1>5, <3>2, <4>2
      <3> QED
        BY <3>1, <3>2
    <2> HIDE DEF p
    <2> QED
      BY <2>1, <2>2 DEF Texts
  <1>6. CASE DOMAIN Supplied # {} /\ ~(Len(v) = 1 /\ v[1] \in Names)
    <2>1. Resolved(k, v) = [i \in DOMAIN v |-> Substituted(v[i])]
      BY <1>6 DEF Resolved
    <2>2. \A i \in DOMAIN v : v[i] \in Pieces
      BY <1>2
    <2>3. /\ DOMAIN Resolved(k, v) = DOMAIN v
          /\ \A i \in DOMAIN v : Resolved(k, v)[i] \in Pieces \ DOMAIN Supplied
      BY <1>3, <2>1, <2>2
    <2>4. Resolved(k, v) \in Seq(Pieces)
      <3>1. DOMAIN v = 1..Len(v) /\ Len(v) \in Nat
        BY <1>2
      <3>2. Resolved(k, v) = [i \in 1..Len(v) |-> Substituted(v[i])]
        BY <2>1, <3>1
      <3>3. \A i \in 1..Len(v) : Substituted(v[i]) \in Pieces
        BY <1>3, <2>2, <3>1
      <3> QED
        BY <3>1, <3>2, <3>3
    <2> QED
      BY <2>3, <2>4 DEF Texts
  <1> QED
    BY <1>4, <1>5, <1>6

\* Substituting supplied parameters yields an action again.
LEMMA ResolveType ==
  ASSUME NEW a \in Action
  PROVE  Resolve(a) \in Action
  <1>1. a.params \in [Keys -> Texts]
    BY DEF Action
  <1>2. \A k \in Keys : Resolved(k, a.params[k]) \in Texts
    BY <1>1, ResolvedType
  <1>3. Resolve(a).params \in [Keys -> Texts]
    BY <1>1, <1>2 DEF Resolve
  <1> QED
    BY <1>1, <1>3 DEF Resolve, Action

\* The indices the runner holds while it executes are within bounds.
LEMMA Indexing ==
  ASSUME IInv, pc \in {"run", "period"}
  PROVE  /\ workflow \in Workflow
         /\ run \in DOMAIN matching /\ run \in DOMAIN trace
         /\ matching[run] \in DOMAIN workflow.states
         /\ ActionsOf(run) \in Seq(Action)
         /\ trace[run] \in Seq(Action)
  <1>1. workflow \in Workflow
    BY DEF IInv, WorkflowOk
  <1>2. run \in DOMAIN matching /\ run \in DOMAIN trace
    BY DEF IInv, ProgressOk, TypeOk
  <1>3. matching[run] \in DOMAIN workflow.states
    BY <1>1, <1>2 DEF IInv, CursorOk, VettedOk, Workflow, TypeOk
  <1>4. ActionsOf(run) \in Seq(Action)
    <2>1. workflow.states \in Seq(State)
      BY <1>1 DEF Workflow
    <2>2. workflow.states[matching[run]] \in State
      BY <1>3, <2>1
    <2> QED
      BY <2>2 DEF ActionsOf, State
  <1>5. trace[run] \in Seq(Action)
    BY <1>2 DEF IInv, TypeOk
  <1> QED
    BY <1>1, <1>2, <1>3, <1>4, <1>5

\* The initial states satisfy the invariant.
THEOREM InitIInv == Init => IInv
  <1> SUFFICES ASSUME Init PROVE IInv
    OBVIOUS
  <1>1. TypeOk
    BY EngineAssumption DEF Init, TypeOk, Running, Reasons
  <1>2. WorkflowOk /\ CursorOk /\ AnswersOk /\ VettedOk /\ ProgressOk
    BY DEF Init, WorkflowOk, CursorOk, AnswersOk, VettedOk, ProgressOk
  <1>3. TraceFollowsTheMatch /\ ReportAgreesWithTrace
    BY DEF Init, TraceFollowsTheMatch, ReportAgreesWithTrace
  <1> QED
    BY <1>1, <1>2, <1>3 DEF IInv, Init
-----------------------------------------------------------------------------
Report == [success : BOOLEAN, reason : Reasons,
           output : Seq(Seq(Action)), failed : Nat]

\* With nothing performed there is nothing the trace could contradict.
LEMMA EmptyTrace ==
  ASSUME trace' = <<>>, matching' \in Seq(Nat)
  PROVE  TraceFollowsTheMatch'
  BY DEF TraceFollowsTheMatch

\* A refusal before the first action.
LEMMA Rejection ==
  ASSUME NEW reason \in Reasons \ {"none", "running", "state"},
         Reject(reason), trace' = <<>>
  PROVE  /\ report' \in Report /\ pc' = "done"
         /\ ReportAgreesWithTrace'
  <1>1. report' = [success |-> FALSE, reason |-> reason, output |-> <<>>,
                   failed |-> 0]
    BY DEF Reject, Running
  <1>2. report' \in Report
    BY <1>1 DEF Report
  <1>3. ReportAgreesWithTrace'
    BY <1>1 DEF Reasons, ReportAgreesWithTrace
  <1> QED
    BY <1>2, <1>3 DEF Reject

\* While the runner is not done its report is the initial one.
LEMMA NoReport ==
  ASSUME IInv, pc # "done", report' = report
  PROVE  report' \in Report /\ report' = Running
  BY DEF IInv, TypeOk, Report

\* Validation and the parameter check, the steps before any trigger.
LEMMA ValidateStep == IInv /\ Validate => IInv'
  <1> SUFFICES ASSUME IInv, Validate PROVE IInv'
    OBVIOUS
  <1> USE DEF IInv
  <1>1. workflow' \in Workflow
    BY EngineAssumption DEF WorkflowOk, Validate
  <1>2. trace = <<>> /\ trace' = <<>> /\ matching' = <<>> /\ state' = 1
        /\ check' = 1 /\ answers' = answers
    BY DEF ProgressOk, CursorOk, Validate, progress, cursor
  <1>3. \/ pc' = "done" /\ (Reject("schema") \/ Reject("action"))
        \/ pc' = "parameters" /\ report' = report
    BY DEF Validate, Reject
  <1>4. /\ report' \in Report
        /\ ReportAgreesWithTrace'
        /\ pc' # "done" => report' = Running
    <2>1. CASE Reject("schema")
      BY <2>1, <1>2, Rejection DEF Reasons
    <2>2. CASE Reject("action")
      BY <2>2, <1>2, Rejection DEF Reasons
    <2>3. CASE pc' = "parameters" /\ report' = report
      BY <2>3, NoReport DEF Validate, ReportAgreesWithTrace
    <2> QED
      BY <1>3, <2>1, <2>2, <2>3
  <1>5. TypeOk'
    <2>1. workflow' \in Inputs \cup {Normalize(doc) : doc \in Inputs}
      BY DEF Validate, WorkflowOk
    <2> QED
      BY <1>2, <1>3, <1>4, <2>1 DEF Validate, TypeOk, Report, progress
  <1>6. WorkflowOk'
    BY <1>1, <1>3 DEF WorkflowOk
  <1>7. CursorOk' /\ AnswersOk'
    <2>1. Len(workflow'.states) \in Nat
      BY <1>1 DEF Workflow
    <2>2. 1 <= Len(workflow'.states) => Len(workflow'.states[1].checks) \in Nat
      BY <1>1 DEF Workflow, State
    <2> QED
      BY <1>2, <2>1, <2>2 DEF CursorOk, AnswersOk, Checks
  <1>8. VettedOk' /\ ProgressOk'
    BY <1>2 DEF Validate, VettedOk, ProgressOk, AllActions, Reject, cursor,
                progress
  <1>9. TraceFollowsTheMatch'
    BY <1>2, EmptyTrace
  <1> QED
    BY <1>4, <1>5, <1>6, <1>7, <1>8, <1>9

\* The check of the declared parameters.
LEMMA CheckParametersStep == IInv /\ CheckParameters => IInv'
  <1> SUFFICES ASSUME IInv, CheckParameters PROVE IInv'
    OBVIOUS
  <1> USE DEF IInv
  <1>1. trace = <<>> /\ trace' = <<>> /\ matching' = <<>>
    BY DEF ProgressOk, CursorOk, CheckParameters, progress, cursor
  <1>2. Reject("parameters") \/ (pc' = "check" /\ report' = report)
    BY DEF CheckParameters
  <1>3. /\ report' \in Report
        /\ ReportAgreesWithTrace'
        /\ pc' # "done" => report' = Running
    <2>1. CASE Reject("parameters")
      BY <2>1, <1>1, Rejection DEF Reasons
    <2>2. CASE pc' = "check" /\ report' = report
      BY <2>2, NoReport DEF CheckParameters, ReportAgreesWithTrace
    <2> QED
      BY <1>2, <2>1, <2>2
  <1>4. TypeOk'
    BY <1>2, <1>3 DEF CheckParameters, TypeOk, Reject, Report, cursor, progress
  <1>5. WorkflowOk' /\ CursorOk' /\ AnswersOk'
    BY DEF CheckParameters, WorkflowOk, CursorOk, AnswersOk, Checks, Reject,
           cursor
  <1>6. VettedOk' /\ ProgressOk'
    BY <1>1 DEF CheckParameters, VettedOk, ProgressOk, Reject, cursor, progress
  <1>7. TraceFollowsTheMatch'
    BY <1>1, EmptyTrace
  <1> QED
    BY <1>3, <1>4, <1>5, <1>6, <1>7
-----------------------------------------------------------------------------
\* The checks. Before the first action the trace is empty and so are the lists.
LEMMA BeforeActions ==
  ASSUME IInv, pc = "check"
  PROVE  /\ trace = <<>> /\ run = 1 /\ action = 1 /\ partial = <<>>
         /\ output = <<>> /\ report = Running
         /\ workflow \in Workflow /\ workflow.states \in Seq(State)
         /\ matching \in Seq(Nat) /\ state \in Nat \ {0} /\ check \in Nat \ {0}
  BY DEF IInv, ProgressOk, WorkflowOk, TypeOk, Workflow

\* The checks of the state that is looked at.
LEMMA CheckingTypes ==
  ASSUME IInv, Checking
  PROVE  /\ state \in DOMAIN workflow.states
         /\ Checks \in Seq(Check) /\ check <= Len(Checks) + 1
         /\ DOMAIN Checks = 1..Len(Checks)
         /\ Checks = workflow.states[state].checks
  <1>1. state \in DOMAIN workflow.states
    BY BeforeActions DEF Checking
  <1>2. workflow.states[state] \in State
    BY <1>1, BeforeActions DEF Checking
  <1>3. Checks \in Seq(Check)
    BY <1>2 DEF Checks, State
  <1> QED
    BY <1>1, <1>3 DEF IInv, CursorOk, Checking, Checks

\* A check that cannot run ends the replay.
LEMMA CheckRaisesStep == IInv /\ CheckRaises => IInv'
  <1> SUFFICES ASSUME IInv, CheckRaises PROVE IInv'
    OBVIOUS
  <1> USE DEF IInv
  <1>1. pc = "check" /\ trace = <<>> /\ trace' = <<>> /\ matching' \in Seq(Nat)
    BY BeforeActions DEF CheckRaises, Checking, progress, cursor
  <1>2. report' \in Report /\ pc' = "done" /\ ReportAgreesWithTrace'
    BY <1>1, Rejection DEF CheckRaises, Reasons
  <1>3. TypeOk'
    BY <1>2 DEF CheckRaises, TypeOk, Report, cursor, progress
  <1>4. WorkflowOk' /\ CursorOk' /\ AnswersOk'
    BY <1>1, <1>2 DEF CheckRaises, WorkflowOk, CursorOk, AnswersOk, Checks,
                      cursor
  <1>5. VettedOk' /\ ProgressOk'
    BY <1>1, <1>2 DEF VettedOk, ProgressOk
  <1>6. TraceFollowsTheMatch'
    BY <1>1, EmptyTrace
  <1> QED
    BY <1>2, <1>3, <1>4, <1>5, <1>6

\* A check answers True.
LEMMA CheckHoldsStep == IInv /\ CheckHolds => IInv'
  <1> SUFFICES ASSUME IInv, CheckHolds PROVE IInv'
    OBVIOUS
  <1> USE DEF IInv
  <1>1. Checking /\ pc = "check" /\ pc' = "check" /\ report' = report
        /\ trace = <<>> /\ trace' = <<>> /\ matching' = matching
        /\ state' = state /\ check' = check + 1 /\ workflow' = workflow /\ multiple' = multiple
        /\ answers' = answers \cup {<<state, check, TRUE>>}
    BY BeforeActions DEF CheckHolds, Checking, progress
  <1>2. Checks' = Checks /\ check + 1 <= Len(Checks) + 1
    BY <1>1, CheckingTypes, BeforeActions DEF CheckHolds, NextCheck, Checks
  <1>3. TypeOk'
    <2>1. <<state, check, TRUE>> \in Nat \X Nat \X BOOLEAN
      BY DEF TypeOk
    <2>2. answers' \subseteq Nat \X Nat \X BOOLEAN
      BY <1>1, <2>1 DEF TypeOk
    <2>3. page' = page /\ check' \in Nat \ {0}
          /\ UNCHANGED <<run, action, partial, output>>
      BY DEF CheckHolds, TypeOk, progress
    <2> QED
      BY <1>1, <2>2, <2>3 DEF TypeOk
  <1>4. WorkflowOk' /\ CursorOk'
    BY <1>1, <1>2 DEF WorkflowOk, CursorOk
  <1>5. AnswersOk'
    <2>1. \A s \in 1..(state - 1) : Explained(workflow, s, matching, answers')
      BY <1>1 DEF AnswersOk, Explained
    <2>2. ASSUME NEW c \in 1..check
          PROVE  <<state, c, TRUE>> \in answers'
      <3>1. c \in 1..(check - 1) \/ c = check
        BY <1>1, BeforeActions
      <3> QED
        BY <1>1, <3>1 DEF AnswersOk
    <2>3. (check + 1) - 1 = check
      BY <1>1, BeforeActions
    <2> QED
      BY <1>1, <2>1, <2>2, <2>3 DEF AnswersOk
  <1>6. VettedOk' /\ ProgressOk' /\ ReportAgreesWithTrace'
        /\ report' = Running
    BY <1>1 DEF VettedOk, ProgressOk, ReportAgreesWithTrace, CheckHolds,
                progress
  <1>7. TraceFollowsTheMatch'
    BY <1>1, BeforeActions, EmptyTrace
  <1> QED
    BY <1>3, <1>4, <1>5, <1>6, <1>7

\* A state that fails its check stays out of matching; the answer says why.
LEMMA CheckFailsStep == IInv /\ CheckFails => IInv'
  <1> SUFFICES ASSUME IInv, CheckFails PROVE IInv'
    OBVIOUS
  <1> USE DEF IInv
  <1>1. Checking /\ pc = "check" /\ pc' = "check" /\ report' = report
        /\ trace = <<>> /\ trace' = <<>> /\ matching' = matching
        /\ state' = state + 1 /\ check' = 1 /\ workflow' = workflow /\ multiple' = multiple
        /\ answers' = answers \cup {<<state, check, FALSE>>}
    BY BeforeActions DEF CheckFails, Checking, progress
  <1>2. state + 1 <= Len(workflow.states) + 1 /\ state \in Nat \ {0}
        /\ workflow.states \in Seq(State) /\ check \in DOMAIN Checks
    BY <1>1, CheckingTypes, BeforeActions DEF Checking, CheckFails, NextCheck
  <1>3. TypeOk'
    <2>1. <<state, check, FALSE>> \in Nat \X Nat \X BOOLEAN
      BY DEF TypeOk
    <2>2. answers' \subseteq Nat \X Nat \X BOOLEAN
      BY <1>1, <2>1 DEF TypeOk
    <2>3. page' = page /\ state' \in Nat \ {0} /\ check' \in Nat \ {0}
          /\ UNCHANGED <<run, action, partial, output>>
      BY <1>1, <1>2 DEF CheckFails, progress
    <2> QED
      BY <1>1, <2>2, <2>3 DEF TypeOk
  <1>4. WorkflowOk'
    BY <1>1 DEF WorkflowOk
  <1>5. CursorOk'
    <2>1. ASSUME state + 1 <= Len(workflow.states)
          PROVE  Len(workflow.states[state + 1].checks) \in Nat
      <3>1. workflow.states[state + 1] \in State
        BY <1>2, <2>1
      <3> QED
        BY <3>1 DEF State
    <2>2. \A r \in DOMAIN matching : matching[r] \in 1..state
      BY <1>2, BeforeActions, <1>1 DEF CursorOk
    <2> QED
      BY <1>1, <1>2, <2>1, <2>2 DEF CursorOk, Checks
  <1>6. AnswersOk'
    <2>1. \A s \in 1..(state - 1) : Explained(workflow, s, matching, answers')
      BY <1>1 DEF AnswersOk, Explained
    <2>2. ~ \E r \in DOMAIN matching : matching[r] = state
      BY <1>2 DEF CursorOk
    <2>3. Explained(workflow, state, matching, answers')
      BY <1>1, <1>2, <2>2 DEF Checks, Explained
    <2>4. \A s \in 1..state : Explained(workflow, s, matching, answers')
      BY <1>2, <2>1, <2>3
    <2>5. (state + 1) - 1 = state /\ 1..(1 - 1) = {}
      BY <1>2
    <2> QED
      BY <1>1, <2>4, <2>5 DEF AnswersOk
  <1>7. VettedOk' /\ ProgressOk' /\ ReportAgreesWithTrace'
        /\ report' = Running
    BY <1>1 DEF VettedOk, ProgressOk, ReportAgreesWithTrace, CheckFails,
                progress
  <1>8. TraceFollowsTheMatch'
    BY <1>1, BeforeActions, EmptyTrace
  <1> QED
    BY <1>3, <1>4, <1>5, <1>6, <1>7, <1>8

\* A state whose every check was answered True joins matching.
LEMMA StateMatchesStep == IInv /\ StateMatches => IInv'
  <1> SUFFICES ASSUME IInv, StateMatches PROVE IInv'
    OBVIOUS
  <1> USE DEF IInv
  <1> DEFINE extended == Append(matching, state)
  <1>1. Checking /\ pc = "check" /\ pc' = "check" /\ report' = report
        /\ trace = <<>> /\ trace' = <<>> /\ matching' = extended
        /\ state' = state + 1 /\ check' = 1 /\ workflow' = workflow /\ multiple' = multiple
        /\ answers' = answers
    BY BeforeActions DEF StateMatches, Checking, progress
  <1>2. state + 1 <= Len(workflow.states) + 1 /\ state \in Nat \ {0}
        /\ workflow.states \in Seq(State) /\ check = Len(Checks) + 1
        /\ DOMAIN Checks = 1..Len(Checks) /\ matching \in Seq(Nat)
    BY <1>1, CheckingTypes, BeforeActions DEF Checking, StateMatches, NextCheck
  <1>3. /\ extended \in Seq(Nat)
        /\ \A r \in DOMAIN matching : r \in DOMAIN extended /\ r \in Nat
                                      /\ extended[r] = matching[r]
        /\ \A r \in DOMAIN extended :
             \/ r \in DOMAIN matching
             \/ r = Len(matching) + 1 /\ extended[r] = state
        /\ Len(matching) + 1 \in DOMAIN extended
        /\ extended[Len(matching) + 1] = state
        /\ \A r \in DOMAIN matching : r <= Len(matching)
        /\ Len(matching) \in Nat
    BY <1>2
  <1>4. TypeOk'
    <2>1. page' = page /\ state' \in Nat \ {0} /\ check' \in Nat \ {0}
          /\ UNCHANGED <<run, action, partial, output>>
      BY <1>1, <1>2 DEF StateMatches, progress
    <2> HIDE DEF extended
    <2> QED
      BY <1>1, <1>3, <2>1 DEF TypeOk
  <1> HIDE DEF extended
  <1>5. WorkflowOk'
    BY <1>1 DEF WorkflowOk
  <1>6. CursorOk'
    <2>1. ASSUME state + 1 <= Len(workflow.states)
          PROVE  Len(workflow.states[state + 1].checks) \in Nat
      <3>1. workflow.states[state + 1] \in State
        BY <1>2, <2>1
      <3> QED
        BY <3>1 DEF State
    <2>2. \A r \in DOMAIN matching :
            matching[r] \in 1..(state - 1) /\ matching[r] \in 1..state
      BY <1>2 DEF CursorOk
    <2>3. \A r \in DOMAIN extended : extended[r] \in 1..state
      BY <1>2, <1>3, <2>2
    <2>4. \A i, j \in DOMAIN extended : i < j => extended[i] < extended[j]
      <3> SUFFICES ASSUME NEW i \in DOMAIN extended, NEW j \in DOMAIN extended,
                          i < j
                   PROVE  extended[i] < extended[j]
        OBVIOUS
      <3>1. CASE j \in DOMAIN matching /\ i \in DOMAIN matching
        BY <1>3, <3>1 DEF CursorOk
      <3>2. CASE j = Len(matching) + 1 /\ i \in DOMAIN matching
        <4>1. matching[i] < state
          BY <1>2, <2>2, <3>2
        <4> QED
          BY <1>3, <3>2, <4>1
      <3>3. i \in DOMAIN matching /\ (j \in DOMAIN matching \/ j = Len(matching) + 1)
        <4>1. j <= Len(matching) + 1 /\ j \in Nat /\ i \in Nat
          BY <1>3
        <4> QED
          BY <1>3, <4>1
      <3> QED
        BY <3>1, <3>2, <3>3
    <2> QED
      BY <1>1, <1>2, <2>1, <2>3, <2>4 DEF CursorOk, Checks
  <1>7. AnswersOk'
    <2>1. ASSUME NEW s \in 1..(state - 1)
          PROVE  Explained(workflow, s, extended, answers)
      <3>1. (\E r \in DOMAIN extended : extended[r] = s)
              <=> (\E r \in DOMAIN matching : matching[r] = s)
        <4>1. s # state
          BY <1>2
        <4> QED
          BY <1>3, <4>1
      <3> QED
        BY <1>1, <3>1 DEF AnswersOk, Explained
    <2>2. Explained(workflow, state, extended, answers)
      <3>1. \E r \in DOMAIN extended : extended[r] = state
        BY <1>2, <1>3
      <3>2. \A c \in 1..Len(Checks) : <<state, c, TRUE>> \in answers
        <4>1. check - 1 = Len(Checks)
          BY <1>1, <1>2, CheckingTypes
        <4> QED
          BY <1>1, <4>1 DEF AnswersOk
      <3> QED
        BY <1>2, <3>1, <3>2 DEF Explained, Checks
    <2>3. \A s \in 1..state : Explained(workflow, s, extended, answers)
      BY <1>2, <2>1, <2>2
    <2>4. (state + 1) - 1 = state /\ 1..(1 - 1) = {}
      BY <1>2
    <2> QED
      BY <1>1, <2>3, <2>4 DEF AnswersOk
  <1>8. VettedOk' /\ ProgressOk' /\ ReportAgreesWithTrace'
        /\ report' = Running
    BY <1>1 DEF VettedOk, ProgressOk, ReportAgreesWithTrace, StateMatches,
                progress
  <1>9. TraceFollowsTheMatch'
    BY <1>1, <1>3, EmptyTrace
  <1> QED
    BY <1>1, <1>4, <1>5, <1>6, <1>7, <1>8, <1>9

\* The end of the checks: refuse, report that nothing matched, or start.
LEMMA ChecksDoneStep == IInv /\ ChecksDone => IInv'
  <1> SUFFICES ASSUME IInv, ChecksDone PROVE IInv'
    OBVIOUS
  <1> USE DEF IInv
  <1>1. pc = "check" /\ trace = <<>> /\ workflow' = workflow /\ multiple' = multiple
        /\ UNCHANGED <<page, state, check, matching, answers>>
        /\ UNCHANGED <<run, action, partial, output>>
    BY BeforeActions DEF ChecksDone, cursor
  <1>2. state = Len(workflow.states) + 1
    BY BeforeActions DEF ChecksDone, CursorOk
  <1>3. matching \in Seq(Nat) /\ run = 1 /\ action = 1 /\ partial = <<>>
        /\ output = <<>> /\ report = Running /\ workflow \in Workflow
    BY <1>1, BeforeActions
  <1>4. CASE TooMany /\ Reject("multiple") /\ UNCHANGED trace
    <2>1. report' \in Report /\ pc' = "done" /\ ReportAgreesWithTrace'
      BY <1>1, <1>4, Rejection DEF Reasons
    <2>2. TypeOk'
      BY <1>1, <1>4, <2>1 DEF TypeOk, Report
    <2>3. WorkflowOk' /\ CursorOk' /\ AnswersOk' /\ VettedOk' /\ ProgressOk'
      BY <1>1, <1>4, <2>1 DEF WorkflowOk, CursorOk, AnswersOk, Checks, VettedOk,
                              ProgressOk, Explained
    <2>4. TraceFollowsTheMatch'
      BY <1>1, <1>3, <1>4, EmptyTrace
    <2> QED
      BY <2>1, <2>2, <2>3, <2>4
  <1>5. CASE matching = <<>> /\ Succeed(<<>>) /\ UNCHANGED trace
    <2>1. report' = [success |-> TRUE, reason |-> "none", output |-> <<>>,
                     failed |-> 0] /\ pc' = "done"
      BY <1>5 DEF Succeed, Running
    <2>2. report' \in Report
      BY <2>1 DEF Report, Reasons
    <2>3. ReportAgreesWithTrace'
      BY <1>1, <1>5, <2>1 DEF ReportAgreesWithTrace
    <2>4. TypeOk'
      BY <1>1, <1>5, <2>1, <2>2 DEF TypeOk, Report
    <2>5. WorkflowOk' /\ CursorOk' /\ AnswersOk' /\ VettedOk' /\ ProgressOk'
      BY <1>1, <1>5, <2>1 DEF WorkflowOk, CursorOk, AnswersOk, Checks, VettedOk,
                              ProgressOk, Explained
    <2>6. TraceFollowsTheMatch'
      BY <1>1, <1>3, <1>5, EmptyTrace
    <2> QED
      BY <2>1, <2>2, <2>3, <2>4, <2>5, <2>6
  <1>6. CASE ~TooMany /\ matching # <<>> /\ pc' = "run" /\ trace' = <<<<>>>>
             /\ UNCHANGED report
    <2>1. Len(matching) \in Nat /\ Len(matching) >= 1
      BY <1>3, <1>6
    <2>2. trace' \in Seq(Seq(Action)) /\ Len(trace') = 1 /\ trace'[1] = <<>>
          /\ DOMAIN trace' = {1}
      BY <1>6
    <2>3. matching[1] \in DOMAIN workflow.states
      BY <1>2, <1>3, <2>1 DEF CursorOk, Workflow
    <2>4. Len(ActionsOf(1)) \in Nat /\ ActionsOf(1)' = ActionsOf(1)
      <3>1. workflow.states[matching[1]] \in State
        BY <1>3, <2>3 DEF Workflow
      <3> QED
        BY <1>1, <3>1 DEF State, ActionsOf
    <2>5. TypeOk'
      BY <1>1, <1>6, <2>2 DEF TypeOk
    <2>6. WorkflowOk' /\ CursorOk' /\ AnswersOk'
      BY <1>1, <1>6 DEF WorkflowOk, CursorOk, AnswersOk, Checks, Explained
    <2>7. VettedOk'
      BY <1>1, <1>2, <1>6 DEF VettedOk, TooMany
    <2>8. ProgressOk'
      BY <1>1, <1>3, <1>6, <2>1, <2>2, <2>4 DEF ProgressOk
    <2>9. TraceFollowsTheMatch'
      BY <1>1, <2>1, <2>2, <2>4 DEF TraceFollowsTheMatch
    <2> QED
      BY <1>3, <1>6, <2>5, <2>6, <2>7, <2>8, <2>9 DEF ReportAgreesWithTrace
  <1> QED
    BY <1>4, <1>5, <1>6 DEF ChecksDone
-----------------------------------------------------------------------------
\* Execution. The facts about checks and validation are not touched any more.
LEMMA Executing ==
  ASSUME IInv, pc \in {"run", "period"}, pc' \in {"run", "period", "done"},
         workflow' = workflow, multiple' = multiple, UNCHANGED cursor, trace # <<>>
  PROVE  WorkflowOk' /\ CursorOk' /\ AnswersOk' /\ VettedOk'
  BY DEF IInv, WorkflowOk, CursorOk, AnswersOk, VettedOk, Checks, TooMany,
         Explained, cursor

\* An action that returns extends the trace and the partial results alike.
LEMMA PerformStep == IInv /\ Perform => IInv'
  <1> SUFFICES ASSUME IInv, Perform PROVE IInv'
    OBVIOUS
  <1> DEFINE acts == ActionsOf(run)
             did == Resolve(acts[action])
             mine == Append(trace[run], did)
  <1>1. pc = "run" /\ pc' \in {"run", "period"} /\ workflow' = workflow /\ multiple' = multiple
        /\ UNCHANGED cursor /\ UNCHANGED <<run, output, report>>
        /\ action' = action + 1 /\ action <= Len(acts)
        /\ page' \in Pages /\ matching' = matching
    BY DEF Perform, cursor
  <1>2. /\ workflow \in Workflow /\ run \in DOMAIN matching /\ run \in DOMAIN trace
        /\ acts \in Seq(Action) /\ trace[run] \in Seq(Action)
    BY <1>1, Indexing
  <1>3. /\ trace \in Seq(Seq(Action)) /\ partial \in Seq(Action)
        /\ Len(trace) = run /\ partial = trace[run]
        /\ action = Len(trace[run]) + 1 /\ action \in Nat \ {0}
        /\ run \in Nat \ {0} /\ output \in Seq(Seq(Action))
    BY <1>1 DEF IInv, TypeOk, ProgressOk
  <1>4. acts[action] \in Action /\ did \in Action
    BY <1>1, <1>2, <1>3, ResolveType
  <1>5. trace' = [trace EXCEPT ![run] = mine] /\ partial' = mine
    BY <1>3 DEF Perform
  <1> HIDE DEF did
  <1>6. /\ mine \in Seq(Action) /\ Len(mine) = action
        /\ \A k \in DOMAIN mine : \/ k \in DOMAIN trace[run] /\ mine[k] = trace[run][k]
                                  \/ k = action /\ mine[k] = did
    BY <1>2, <1>3, <1>4
  <1> HIDE DEF mine
  <1>7. /\ trace' \in Seq(Seq(Action)) /\ Len(trace') = run
        /\ DOMAIN trace' = DOMAIN trace /\ trace'[run] = mine
        /\ \A r \in DOMAIN trace : r # run => trace'[r] = trace[r]
    BY <1>2, <1>3, <1>5, <1>6
  <1>8. \A r : ActionsOf(r)' = ActionsOf(r)
    BY <1>1 DEF ActionsOf
  <1>9. TypeOk'
    BY <1>1, <1>3, <1>5, <1>6, <1>7 DEF IInv, TypeOk, cursor
  <1>10. WorkflowOk' /\ CursorOk' /\ AnswersOk' /\ VettedOk'
    BY <1>1, <1>2, <1>3, Executing
  <1>11. ProgressOk'
    <2>1. pc' = "period" => action' <= Len(acts)
      BY <1>1, <1>2, <1>3 DEF Perform
    <2>2. action' = Len(trace'[run]) + 1 /\ action' <= Len(acts) + 1
      BY <1>1, <1>2, <1>3, <1>6, <1>7
    <2>3. run <= Len(matching) /\ Len(output) = run - 1
          /\ \A r \in 1..(run - 1) : output[r] = trace'[r]
      <3>1. \A r \in 1..(run - 1) : r \in DOMAIN trace /\ r # run
        BY <1>3
      <3> QED
        BY <1>1, <1>7, <3>1 DEF IInv, ProgressOk
    <2> QED
      BY <1>1, <1>5, <1>7, <1>8, <2>1, <2>2, <2>3 DEF ProgressOk
  <1>12. TraceFollowsTheMatch'
    <2>1. ASSUME NEW r \in DOMAIN trace
          PROVE  /\ Len(trace'[r]) <= Len(ActionsOf(r))
                 /\ r < Len(trace) => Len(trace'[r]) = Len(ActionsOf(r))
                 /\ \A k \in DOMAIN trace'[r] :
                      trace'[r][k] = Resolve(ActionsOf(r)[k])
      <3>1. CASE r = run
        <4>1. Len(mine) <= Len(acts)
          BY <1>1, <1>6
        <4>2. \A k \in DOMAIN trace[run] : trace[run][k] = Resolve(acts[k])
          BY <1>2 DEF IInv, TraceFollowsTheMatch
        <4>3. \A k \in DOMAIN mine : mine[k] = Resolve(acts[k])
          BY <1>6, <4>2 DEF did
        <4> QED
          BY <1>3, <1>7, <3>1, <4>1, <4>3
      <3>2. CASE r # run
        BY <1>7, <3>2 DEF IInv, TraceFollowsTheMatch
      <3> QED
        BY <3>1, <3>2
    <2>2. Len(trace) <= Len(matching)
      BY DEF IInv, TraceFollowsTheMatch
    <2> QED
      BY <1>1, <1>3, <1>7, <1>8, <2>1, <2>2 DEF TraceFollowsTheMatch
  <1> QED
    BY <1>1, <1>9, <1>10, <1>11, <1>12 DEF IInv, ReportAgreesWithTrace

\* The pause between two actions is over.
LEMMA PeriodOverStep == IInv /\ PeriodOver => IInv'
  <1> SUFFICES ASSUME IInv, PeriodOver PROVE IInv'
    OBVIOUS
  <1>1. pc = "period" /\ pc' = "run" /\ workflow' = workflow /\ multiple' = multiple
        /\ UNCHANGED cursor /\ UNCHANGED <<run, action, partial, output, trace>>
        /\ UNCHANGED <<page, report, state, check, matching, answers>>
    BY DEF PeriodOver, cursor, progress
  <1>2. trace # <<>>
    BY <1>1, Indexing DEF IInv, ProgressOk
  <1>3. WorkflowOk' /\ CursorOk' /\ AnswersOk' /\ VettedOk'
    BY <1>1, <1>2, Executing
  <1>4. \A r : ActionsOf(r)' = ActionsOf(r)
    BY <1>1 DEF ActionsOf
  <1>5. TypeOk' /\ ProgressOk'
    BY <1>1, <1>4 DEF IInv, TypeOk, ProgressOk
  <1>6. TraceFollowsTheMatch'
    BY <1>1, <1>4 DEF IInv, TraceFollowsTheMatch
  <1> QED
    BY <1>1, <1>3, <1>5, <1>6 DEF IInv, ReportAgreesWithTrace

\* The report of a failed action: the results of its state and their number.
LEMMA ActionRaisesStep == IInv /\ ActionRaises => IInv'
  <1> SUFFICES ASSUME IInv, ActionRaises PROVE IInv'
    OBVIOUS
  <1>1. pc = "run" /\ pc' = "done" /\ workflow' = workflow /\ multiple' = multiple
        /\ UNCHANGED cursor /\ UNCHANGED <<run, action, partial, output, trace>>
        /\ UNCHANGED <<state, check, matching, answers>>
        /\ page' \in Pages /\ action <= Len(ActionsOf(run))
    BY DEF ActionRaises, cursor, progress
  <1>2. /\ run \in DOMAIN trace /\ trace[run] \in Seq(Action)
        /\ ActionsOf(run) \in Seq(Action)
    BY <1>1, Indexing
  <1>3. /\ Len(trace) = run /\ partial = trace[run] /\ partial \in Seq(Action)
        /\ action = Len(trace[run]) + 1
    BY <1>1 DEF IInv, ProgressOk, TypeOk
  <1>4. report' = [success |-> FALSE, reason |-> "state",
                   output |-> <<partial>>, failed |-> action - 1]
    BY DEF ActionRaises, Running
  <1>5. report' \in Report
    <2>1. action - 1 \in Nat
      BY <1>2, <1>3
    <2>2. <<partial>> \in Seq(Seq(Action))
      BY <1>3
    <2> QED
      BY <1>4, <2>1, <2>2 DEF Report, Reasons
  <1>6. trace # <<>>
    BY <1>2, <1>3
  <1>7. WorkflowOk' /\ CursorOk' /\ AnswersOk' /\ VettedOk'
    BY <1>1, <1>6, Executing
  <1>8. \A r : ActionsOf(r)' = ActionsOf(r)
    BY <1>1 DEF ActionsOf
  <1>9. TypeOk' /\ ProgressOk'
    BY <1>1, <1>5 DEF IInv, TypeOk, ProgressOk, Report
  <1>10. TraceFollowsTheMatch'
    BY <1>1, <1>8 DEF IInv, TraceFollowsTheMatch
  <1>11. ReportAgreesWithTrace'
    BY <1>1, <1>2, <1>3, <1>4, <1>6, <1>8 DEF ReportAgreesWithTrace
  <1> QED
    BY <1>1, <1>7, <1>9, <1>10, <1>11 DEF IInv

\* The last action of a state: on to the next state, or success.
LEMMA StateDoneStep == IInv /\ StateDone => IInv'
  <1> SUFFICES ASSUME IInv, StateDone PROVE IInv'
    OBVIOUS
  <1>1. pc = "run" /\ multiple' = multiple /\ workflow' = workflow /\ page' = page
        /\ UNCHANGED cursor
        /\ UNCHANGED <<state, check, matching, answers>>
        /\ action > Len(ActionsOf(run)) /\ action' = 1 /\ partial' = <<>>
        /\ output' = Append(output, partial)
    BY DEF StateDone, cursor
  <1>2. /\ run \in DOMAIN matching /\ run \in DOMAIN trace
        /\ matching \in Seq(Nat) /\ workflow \in Workflow
        /\ ActionsOf(run) \in Seq(Action) /\ trace[run] \in Seq(Action)
    BY <1>1, Indexing DEF IInv, TypeOk
  <1>3. /\ trace \in Seq(Seq(Action)) /\ partial \in Seq(Action)
        /\ Len(trace) = run /\ partial = trace[run] /\ run \in Nat \ {0}
        /\ action = Len(trace[run]) + 1 /\ action <= Len(ActionsOf(run)) + 1
        /\ output \in Seq(Seq(Action)) /\ Len(output) = run - 1
        /\ \A r \in 1..(run - 1) : output[r] = trace[r]
        /\ run <= Len(matching)
    BY <1>1 DEF IInv, TypeOk, ProgressOk
  <1>4. Len(trace[run]) = Len(ActionsOf(run))
    BY <1>1, <1>2, <1>3
  <1>5. output' = trace
    <2>1. output' \in Seq(Seq(Action)) /\ Len(output') = run
      BY <1>1, <1>3
    <2>2. \A r \in 1..run : output'[r] = trace[r]
      BY <1>1, <1>3
    <2> QED
      BY <1>3, <2>1, <2>2
  <1>6. trace # <<>>
    BY <1>2, <1>3
  <1>7. \A r : ActionsOf(r)' = ActionsOf(r)
    BY <1>1 DEF ActionsOf
  <1>8. \A r \in DOMAIN trace : Len(trace[r]) = Len(ActionsOf(r))
    BY <1>3, <1>4 DEF IInv, TraceFollowsTheMatch
  <1>9. CASE run < Len(matching) /\ run' = run + 1
             /\ trace' = Append(trace, <<>>) /\ UNCHANGED <<pc, report>>
    <2>1. /\ trace' \in Seq(Seq(Action)) /\ Len(trace') = run + 1
          /\ trace'[run + 1] = <<>>
          /\ \A r \in DOMAIN trace : trace'[r] = trace[r]
          /\ \A r \in DOMAIN trace' : r \in DOMAIN trace \/ r = run + 1
          /\ DOMAIN trace = 1..run
      BY <1>3, <1>9
    <2>2. Len(ActionsOf(run + 1)) \in Nat
      <3>1. matching[run + 1] \in DOMAIN workflow.states
        BY <1>1, <1>2, <1>3, <1>6, <1>9 DEF IInv, CursorOk, VettedOk, Workflow
      <3>2. workflow.states[matching[run + 1]] \in State
        BY <1>2, <3>1 DEF Workflow
      <3> QED
        BY <3>2 DEF State, ActionsOf
    <2>3. WorkflowOk' /\ CursorOk' /\ AnswersOk' /\ VettedOk'
      BY <1>1, <1>6, <1>9, Executing
    <2>4. TypeOk'
      <3>1. output' \in Seq(Seq(Action)) /\ run' \in Nat \ {0} /\ partial' \in Seq(Action)
        BY <1>1, <1>3, <1>5, <1>9
      <3> QED
        BY <1>1, <1>9, <2>1, <3>1 DEF IInv, TypeOk
    <2>5. ProgressOk'
      BY <1>1, <1>3, <1>5, <1>7, <1>9, <2>1, <2>2 DEF ProgressOk
    <2>6. TraceFollowsTheMatch'
      <3>1. \A r \in DOMAIN trace : \A k \in DOMAIN trace[r] :
              trace[r][k] = Resolve(ActionsOf(r)[k])
        BY DEF IInv, TraceFollowsTheMatch
      <3>2. Len(trace') <= Len(matching)
        BY <1>2, <1>3, <1>9, <2>1
      <3>3. ASSUME NEW r \in DOMAIN trace'
            PROVE  /\ Len(trace'[r]) <= Len(ActionsOf(r))
                   /\ r < Len(trace') => Len(trace'[r]) = Len(ActionsOf(r))
                   /\ \A k \in DOMAIN trace'[r] :
                        trace'[r][k] = Resolve(ActionsOf(r)[k])
        <4>1. CASE r = run + 1
          BY <2>1, <2>2, <4>1
        <4>2. CASE r \in DOMAIN trace
          <5>1. Len(trace[r]) = Len(ActionsOf(r)) /\ Len(trace[r]) \in Nat
            BY <1>3, <1>8, <4>2
          <5> QED
            BY <2>1, <3>1, <4>2, <5>1
        <4> QED
          BY <2>1, <4>1, <4>2
      <3>4. matching' = matching
        BY <1>1
      <3> HIDE DEF ActionsOf
      <3> QED
        BY <1>7, <3>2, <3>3, <3>4 DEF TraceFollowsTheMatch
    <2> QED
      BY <1>1, <1>9, <2>3, <2>4, <2>5, <2>6 DEF IInv, ReportAgreesWithTrace
  <1>10. CASE run >= Len(matching) /\ Succeed(output') /\ UNCHANGED <<run, trace>>
    <2>1. report' = [success |-> TRUE, reason |-> "none", output |-> trace,
                     failed |-> 0] /\ pc' = "done"
      BY <1>5, <1>10 DEF Succeed, Running
    <2>2. report' \in Report
      BY <1>3, <2>1 DEF Report, Reasons
    <2>3. WorkflowOk' /\ CursorOk' /\ AnswersOk' /\ VettedOk'
      BY <1>1, <1>6, <2>1, Executing
    <2>4. TypeOk' /\ ProgressOk'
      BY <1>1, <1>3, <1>5, <1>10, <2>1, <2>2 DEF IInv, TypeOk, ProgressOk, Report
    <2>5. TraceFollowsTheMatch'
      BY <1>1, <1>7, <1>10 DEF IInv, TraceFollowsTheMatch
    <2>6. ReportAgreesWithTrace'
      <3>1. Len(trace) = Len(matching)
        BY <1>2, <1>3, <1>10
      <3> QED
        BY <1>1, <1>7, <1>8, <1>10, <2>1, <3>1 DEF ReportAgreesWithTrace
    <2> QED
      BY <2>1, <2>3, <2>4, <2>5, <2>6 DEF IInv
  <1>11. Len(matching) \in Nat /\ run \in Nat
    BY <1>2, <1>3
  <1> QED
    BY <1>9, <1>10, <1>11 DEF StateDone

\* The page is not part of any fact but its own type.
LEMMA PageMovesStep == IInv /\ PageMoves => IInv'
  <1> SUFFICES ASSUME IInv, PageMoves PROVE IInv'
    OBVIOUS
  <1>1. /\ UNCHANGED <<multiple, workflow, pc, state, check, matching, answers>>
        /\ UNCHANGED <<run, action, partial, output, trace, report>>
        /\ page' \in Pages
    BY DEF PageMoves, cursor, progress
  <1> QED
    BY <1>1 DEF IInv, TypeOk, WorkflowOk, CursorOk, AnswersOk, VettedOk,
                ProgressOk, TraceFollowsTheMatch, ReportAgreesWithTrace,
                Explained, Checks, ActionsOf, TooMany

\* A stuttering step changes nothing the invariant speaks of.
LEMMA StutterStep == IInv /\ UNCHANGED vars => IInv'
  BY DEF IInv, TypeOk, WorkflowOk, CursorOk, AnswersOk, VettedOk, ProgressOk,
         TraceFollowsTheMatch, ReportAgreesWithTrace, Explained, Checks,
         ActionsOf, TooMany, vars

\* The invariant is inductive.
THEOREM StepIInv == IInv /\ [Next]_vars => IInv'
  BY ValidateStep, CheckParametersStep, CheckRaisesStep, CheckHoldsStep,
     CheckFailsStep, StateMatchesStep, ChecksDoneStep, PerformStep,
     PeriodOverStep, ActionRaisesStep, StateDoneStep, PageMovesStep, StutterStep
     DEF Next, Runner

\* The invariant holds throughout.
THEOREM SpecIInv == Spec => []IInv
  BY InitIInv, StepIInv, PTL DEF Spec
-----------------------------------------------------------------------------
\* Every variable keeps its type, for every set of inputs.
THEOREM TypeCorrect == Spec => []TypeOk
  <1>1. IInv => TypeOk
    BY DEF IInv
  <1> QED
    BY <1>1, SpecIInv, PTL

\* No action reaches the page before the whole document passed validation.
THEOREM Validated == Spec => []NothingRunsUnvalidated
  <1>1. IInv => NothingRunsUnvalidated
    BY DEF IInv, VettedOk, NothingRunsUnvalidated
  <1> QED
    BY <1>1, SpecIInv, PTL

\* Only a state whose checks all answered True runs; the others answered False.
THEOREM MatchOnly == Spec => []OnlyTheMatchRuns
  <1>1. IInv => OnlyTheMatchRuns
    <2> SUFFICES ASSUME IInv, trace # <<>> PROVE OnlyTheMatchRuns
      BY DEF OnlyTheMatchRuns
    <2>1. workflow \in Workflow /\ pc # "validate" /\ state = Len(workflow.states) + 1
          /\ ~TooMany /\ matching # <<>> /\ matching \in Seq(Nat)
      BY DEF IInv, VettedOk, WorkflowOk, TypeOk
    <2>2. DOMAIN workflow.states = 1..(state - 1)
      BY <2>1 DEF Workflow
    <2>3. \A s \in DOMAIN workflow.states : Explained(workflow, s, matching, answers)
      BY <2>1, <2>2 DEF IInv, AnswersOk
    <2>4. multiple \/ Len(matching) = 1
      <3>1. Len(matching) \in Nat /\ Len(matching) # 0
        BY <2>1
      <3>2. multiple \/ ~(Len(matching) > 1)
        <4>1. multiple \in BOOLEAN
          BY DEF IInv, TypeOk
        <4> QED
          BY <2>1, <4>1, Zenon DEF TooMany
      <3>3. \A n \in Nat : n # 0 /\ ~(n > 1) => n = 1
        OBVIOUS
      <3> QED
        BY <3>1, <3>2, <3>3, Zenon
    <2> QED
      BY <2>3, <2>4 DEF IInv, CursorOk, OnlyTheMatchRuns, Explained
  <1> QED
    BY <1>1, SpecIInv, PTL

\* The page sees the matched states' actions in order, each once, none skipped.
THEOREM TraceInOrder == Spec => []TraceFollowsTheMatch
  <1>1. IInv => TraceFollowsTheMatch
    BY DEF IInv
  <1> QED
    BY <1>1, SpecIInv, PTL

\* The report agrees with what happened on the page.
THEOREM HonestReport == Spec => []ReportAgreesWithTrace
  <1>1. IInv => ReportAgreesWithTrace
    BY DEF IInv
  <1> QED
    BY <1>1, SpecIInv, PTL

\* No declared placeholder survives the substitution of the supplied values.
THEOREM PlaceholdersReplaced == Spec => []NoDeclaredPlaceholderReachesThePage
  <1>1. IInv => NoDeclaredPlaceholderReachesThePage
    <2> SUFFICES ASSUME IInv,
                        NEW r \in DOMAIN trace, NEW k \in DOMAIN trace[r],
                        NEW key \in DOMAIN trace[r][k].params
                 PROVE  ToSet(trace[r][k].params[key]) \cap workflow.parameters = {}
      BY DEF NoDeclaredPlaceholderReachesThePage
    <2>1. trace # <<>>
      BY DEF IInv, TypeOk
    <2>2. workflow.parameters \subseteq DOMAIN Supplied
      BY <2>1 DEF IInv, VettedOk
    <2>3. trace[r][k] = Resolve(ActionsOf(r)[k]) /\ ActionsOf(r)[k] \in Action
      <3>1. workflow \in Workflow /\ r \in DOMAIN matching
        BY <2>1 DEF IInv, TypeOk, WorkflowOk, VettedOk, TraceFollowsTheMatch
      <3>2. matching[r] \in DOMAIN workflow.states /\ workflow.states \in Seq(State)
        BY <2>1, <3>1 DEF IInv, CursorOk, VettedOk, Workflow, TypeOk
      <3>3. workflow.states[matching[r]] \in State
        BY <3>2
      <3>4. ActionsOf(r) \in Seq(Action)
        BY <3>3 DEF ActionsOf, State
      <3>5. trace[r] \in Seq(Action) /\ Len(trace[r]) <= Len(ActionsOf(r))
            /\ trace[r][k] = Resolve(ActionsOf(r)[k])
        BY DEF IInv, TypeOk, TraceFollowsTheMatch
      <3> QED
        BY <3>4, <3>5
    <2>4. key \in DOMAIN ActionsOf(r)[k].params
          /\ trace[r][k].params[key] = Resolved(key, ActionsOf(r)[k].params[key])
      <3>1. key \in Keys
        BY <2>3 DEF Resolve
      <3> QED
        BY <2>3, <3>1 DEF Resolve, Action
    <2>5. key \in Keys /\ ActionsOf(r)[k].params[key] \in Texts
      BY <2>3, <2>4 DEF Action
    <2> DEFINE text == trace[r][k].params[key]
    <2>6. \A i \in DOMAIN text : text[i] \notin DOMAIN Supplied
      BY <2>4, <2>5, ResolvedType
    <2> HIDE DEF text
    <2>7. ToSet(text) \cap workflow.parameters = {}
      BY <2>2, <2>6 DEF ToSet
    <2> QED
      BY <2>7 DEF text
  <1> QED
    BY <1>1, SpecIInv, PTL
-----------------------------------------------------------------------------
\* The state of ReplayContract, as ImplementsContract maps it: the actions that a
\* document stands for, the states picked and the verdict.
ScriptOf(doc) ==
  [s \in DOMAIN Normalize(doc).states |->
     [k \in DOMAIN Normalize(doc).states[s].actions |->
        Resolve(Normalize(doc).states[s].actions[k])]]
Script == ScriptOf(workflow)
Picked == IF trace = <<>> THEN <<>> ELSE matching
Verdict == IF pc # "done" THEN "open" ELSE IF report.success THEN "success" ELSE "failure"

\* How a step of the engine looks in the contract: it fails before it picked a state,
LEMMA RefuseIs ==
  ASSUME Verdict = "open", Picked = <<>>, Verdict' = "failure",
         UNCHANGED <<multiple, Script, Picked, trace>>
  PROVE  Contract!Refuse
  BY DEF Contract!Refuse, Verdict, Picked, Script, ScriptOf

\* it ends because no state applies,
LEMMA NothingAppliesIs ==
  ASSUME Verdict = "open", Picked = <<>>, Verdict' = "success",
         UNCHANGED <<multiple, Script, Picked, trace>>
  PROVE  Contract!NothingApplies
  BY DEF Contract!NothingApplies, Verdict, Picked, Script, ScriptOf

\* it picks states in their order,
LEMMA PickIs ==
  ASSUME Verdict = "open", Picked = <<>>, UNCHANGED <<multiple, Script, Verdict>>,
         trace' = <<<<>>>>, NEW n \in 1..Len(Script), Picked' \in [1..n -> DOMAIN Script],
         \A i, j \in DOMAIN Picked' : i < j => Picked'[i] < Picked'[j],
         Len(Picked') = 1 \/ multiple
  PROVE  Contract!Pick
  BY DEF Contract!Pick, Contract!Picks, Contract!Ascending, Verdict, Picked, Script, ScriptOf

\* it performs the next action of its state,
LEMMA PerformNextIs ==
  ASSUME Verdict = "open", Picked # <<>>, UNCHANGED <<multiple, Script, Picked, Verdict>>,
         NEW n, n = Len(trace), Len(trace[n]) < Len(Script[Picked[n]]),
         trace' = [trace EXCEPT ![n] = Append(@, Script[Picked[n]][Len(trace[n]) + 1])]
  PROVE  Contract!PerformNext
  BY DEF Contract!PerformNext, Contract!Current, Contract!Missing, Verdict, Picked, Script,
         ScriptOf

\* it goes on to the next state picked,
LEMMA EnterStateIs ==
  ASSUME Verdict = "open", Picked # <<>>, UNCHANGED <<multiple, Script, Picked, Verdict>>,
         NEW n, n = Len(trace), ~(Len(trace[n]) < Len(Script[Picked[n]])), n < Len(Picked),
         trace' = Append(trace, <<>>)
  PROVE  Contract!EnterState
  BY DEF Contract!EnterState, Contract!Current, Contract!Missing, Verdict, Picked, Script,
         ScriptOf

\* it ends after the last action,
LEMMA FinishIs ==
  ASSUME Verdict = "open", Picked # <<>>, UNCHANGED <<multiple, Script, Picked, trace>>,
         NEW n, n = Len(trace), ~(Len(trace[n]) < Len(Script[Picked[n]])), n = Len(Picked),
         Verdict' = "success"
  PROVE  Contract!Finish
  BY DEF Contract!Finish, Contract!Current, Contract!Missing, Verdict, Picked, Script,
         ScriptOf

\* it fails with an action left,
LEMMA GiveUpIs ==
  ASSUME Verdict = "open", Picked # <<>>, UNCHANGED <<multiple, Script, Picked, trace>>,
         NEW n, n = Len(trace), Len(trace[n]) < Len(Script[Picked[n]]), Verdict' = "failure"
  PROVE  Contract!GiveUp
  BY DEF Contract!GiveUp, Contract!Current, Contract!Missing, Verdict, Picked, Script,
         ScriptOf

\* or it is not seen.
LEMMA StutterIs ==
  ASSUME UNCHANGED <<multiple, Script, Picked, trace, Verdict>>
  PROVE  UNCHANGED Contract!vars
  BY DEF Contract!vars, Verdict, Picked, Script, ScriptOf
-----------------------------------------------------------------------------
\* An ascending sequence of numbers up to N has at most N of them.
LEMMA AscendingFits ==
  ASSUME NEW N \in Nat, NEW m \in Seq(Nat), \A r \in DOMAIN m : m[r] \in 1..N,
         \A i, j \in DOMAIN m : i < j => m[i] < m[j]
  PROVE  Len(m) <= N
  <1> DEFINE S == {n \in Nat : n \in DOMAIN m => n <= m[n]}
  <1>1. 0 \in S
    OBVIOUS
  <1>2. ASSUME NEW n \in Nat, n \in S
        PROVE  n + 1 \in S
    <2> SUFFICES ASSUME n + 1 \in DOMAIN m
                 PROVE  n + 1 <= m[n + 1]
      OBVIOUS
    <2>1. m[n + 1] \in 1..N
      OBVIOUS
    <2>2. CASE n = 0
      BY <2>1, <2>2
    <2>3. CASE n # 0
      <3>1. n \in DOMAIN m
        BY <2>3
      <3>2. n <= m[n] /\ m[n] < m[n + 1] /\ m[n] \in 1..N
        BY <1>2, <3>1
      <3> QED
        BY <2>1, <3>2
    <2> QED
      BY <2>2, <2>3
  <1>3. Nat \subseteq S
    <2> HIDE DEF S
    <2> QED
      BY <1>1, <1>2, SetInduction
  <1>4. Len(m) \in Nat /\ (Len(m) # 0 => Len(m) \in DOMAIN m)
    OBVIOUS
  <1>5. CASE Len(m) # 0
    <2>1. Len(m) <= m[Len(m)] /\ m[Len(m)] \in 1..N
      BY <1>3, <1>4, <1>5
    <2> QED
      BY <1>4, <2>1
  <1> QED
    BY <1>4, <1>5

\* The script of a validated workflow.
LEMMA ScriptIs ==
  ASSUME workflow \in Workflow
  PROVE  /\ DOMAIN Script = 1..Len(workflow.states) /\ Len(Script) = Len(workflow.states)
         /\ Len(workflow.states) \in Nat
         /\ \A s \in DOMAIN Script :
              /\ Len(Script[s]) = Len(workflow.states[s].actions)
              /\ \A k \in 1..Len(workflow.states[s].actions) :
                   Script[s][k] = Resolve(workflow.states[s].actions[k])
  <1>1. Normalize(workflow) = workflow /\ workflow.states \in Seq(State)
    BY DEF Workflow, Normalize
  <1>2. Script = [s \in 1..Len(workflow.states) |->
                    [k \in DOMAIN workflow.states[s].actions |->
                       Resolve(workflow.states[s].actions[k])]]
    BY <1>1 DEF Script, ScriptOf
  <1>3. Len(workflow.states) \in Nat /\ \A s \in 1..Len(workflow.states) :
          workflow.states[s].actions \in Seq(Action)
    <2>1. \A s \in 1..Len(workflow.states) : workflow.states[s] \in State
      BY <1>1
    <2> QED
      BY <1>1, <2>1 DEF State
  <1>4. DOMAIN Script = 1..Len(workflow.states) /\ Len(Script) = Len(workflow.states)
    BY <1>2, <1>3
  <1>5. ASSUME NEW s \in DOMAIN Script
        PROVE  /\ Len(Script[s]) = Len(workflow.states[s].actions)
               /\ \A k \in 1..Len(workflow.states[s].actions) :
                    Script[s][k] = Resolve(workflow.states[s].actions[k])
    <2>1. s \in 1..Len(workflow.states)
      BY <1>4
    <2>2. PICK as \in Seq(Action) : as = workflow.states[s].actions
      BY <1>3, <2>1
    <2>3. Script[s] = [k \in DOMAIN as |-> Resolve(as[k])]
      BY <1>2, <2>1, <2>2
    <2>4. PICK n \in Nat : n = Len(as)
      <3>1. Len(as) \in Nat
        BY <2>2
      <3> QED
        BY <3>1, Zenon
    <2>5. DOMAIN as = 1..n
      BY <2>2, <2>4
    <2>6. Script[s] = [k \in 1..n |-> Resolve(as[k])]
      BY <2>3, <2>5, Zenon
    <2>7. Len(Script[s]) = n
      BY <2>6
    <2>8. \A k \in 1..n : Script[s][k] = Resolve(as[k])
      BY <2>6, Zenon
    <2> QED
      BY <2>2, <2>4, <2>7, <2>8
  <1> QED
    BY <1>3, <1>4, <1>5

\* Until the first state is entered nothing is picked.
LEMMA OpenBefore ==
  ASSUME IInv, pc \in {"validate", "parameters", "check"}
  PROVE  trace = <<>> /\ Picked = <<>> /\ Verdict = "open"
  BY DEF IInv, ProgressOk, Picked, Verdict

\* A rejection before the first state refuses the workflow.
LEMMA RejectRefuses ==
  ASSUME IInv, pc \in {"validate", "parameters", "check"}, NEW reason, Reject(reason),
         UNCHANGED <<multiple, trace>>, Script' = Script
  PROVE  Contract!Refuse
  <1>1. Verdict' = "failure"
    BY DEF Reject, Running, Verdict
  <1>2. Picked' = Picked
    BY OpenBefore DEF Picked
  <1> QED
    BY <1>1, <1>2, OpenBefore, RefuseIs

\* Before the first state is entered, steps that end nothing are not seen.
LEMMA CheckingStutters ==
  ASSUME IInv, pc \in {"validate", "parameters", "check"}, pc' # "done",
         UNCHANGED <<multiple, trace>>, Script' = Script
  PROVE  UNCHANGED Contract!vars
  <1>1. Picked' = Picked /\ Verdict' = Verdict
    BY OpenBefore DEF Picked, Verdict
  <1> QED
    BY <1>1, StutterIs

\* The steps of the engine, one by one. Validation normalizes the document, and its script
\* stays the same.
LEMMA ValidateRefines == IInv /\ Validate => [Contract!Next]_(Contract!vars)
  <1> SUFFICES ASSUME IInv, Validate PROVE [Contract!Next]_(Contract!vars)
    OBVIOUS
  <1>1. pc = "validate" /\ UNCHANGED <<multiple, trace>> /\ workflow' = Normalize(workflow)
    BY DEF Validate, progress
  <1>2. Script' = Script
    <2>1. Normalize(Normalize(workflow)) = Normalize(workflow)
      BY DEF Normalize
    <2> QED
      BY <1>1, <2>1 DEF Script, ScriptOf
  <1>3. CASE \E reason : Reject(reason)
    BY <1>1, <1>2, <1>3, RejectRefuses DEF Contract!Next
  <1>4. CASE pc' = "parameters"
    BY <1>1, <1>2, <1>4, CheckingStutters
  <1> QED
    BY <1>3, <1>4 DEF Validate

\* The script only depends on the document.
LEMMA SameScript ==
  ASSUME workflow' = workflow
  PROVE  Script' = Script
  BY DEF Script

\* Parameters that are refused end the replay before anything is picked.
LEMMA CheckParametersRefines == IInv /\ CheckParameters => [Contract!Next]_(Contract!vars)
  <1> SUFFICES ASSUME IInv, CheckParameters PROVE [Contract!Next]_(Contract!vars)
    OBVIOUS
  <1>1. pc = "parameters" /\ UNCHANGED <<multiple, trace, workflow>>
    BY DEF CheckParameters, progress
  <1>2. CASE Reject("parameters")
    BY <1>1, <1>2, SameScript, RejectRefuses DEF Contract!Next
  <1>3. CASE pc' = "check"
    BY <1>1, <1>3, SameScript, CheckingStutters
  <1> QED
    BY <1>2, <1>3 DEF CheckParameters

\* Checks are not seen until the states to run are known.
LEMMA CheckingRefines ==
  IInv /\ (CheckRaises \/ CheckHolds \/ CheckFails \/ StateMatches)
    => [Contract!Next]_(Contract!vars)
  <1> SUFFICES ASSUME IInv, CheckRaises \/ CheckHolds \/ CheckFails \/ StateMatches
               PROVE  [Contract!Next]_(Contract!vars)
    OBVIOUS
  <1>1. pc = "check" /\ UNCHANGED <<multiple, trace, workflow>>
    BY DEF CheckRaises, CheckHolds, CheckFails, StateMatches, Checking, progress
  <1>2. CASE Reject("trigger")
    BY <1>1, <1>2, SameScript, RejectRefuses DEF Contract!Next
  <1>3. CASE pc' = pc
    BY <1>1, <1>3, SameScript, CheckingStutters
  <1> QED
    BY <1>2, <1>3 DEF CheckRaises, CheckHolds, CheckFails, StateMatches

\* The states that matched are picked.
LEMMA ChecksDoneRefines == IInv /\ ChecksDone => [Contract!Next]_(Contract!vars)
  <1> SUFFICES ASSUME IInv, ChecksDone PROVE [Contract!Next]_(Contract!vars)
    OBVIOUS
  <1>1. /\ pc = "check" /\ state > Len(workflow.states) /\ UNCHANGED <<multiple, workflow, matching>>
    BY DEF ChecksDone, cursor
  <1>2. CASE Reject("multiple") /\ UNCHANGED trace
    BY <1>1, <1>2, SameScript, RejectRefuses DEF Contract!Next
  <1>3. CASE Succeed(<<>>) /\ UNCHANGED trace
    <2>1. Verdict' = "success" /\ Picked' = Picked
      BY <1>1, <1>3, OpenBefore DEF Succeed, Running, Verdict, Picked
    <2> QED
      BY <1>1, <1>3, <2>1, OpenBefore, SameScript, NothingAppliesIs DEF Contract!Next
  <1>4. CASE ~TooMany /\ matching # <<>> /\ pc' = "run" /\ trace' = <<<<>>>>
    <2>1. /\ workflow \in Workflow /\ matching \in Seq(Nat) /\ multiple \in BOOLEAN
          /\ state <= Len(workflow.states) + 1 /\ state \in Nat
          /\ \A r \in DOMAIN matching : matching[r] \in 1..(state - 1)
          /\ \A i, j \in DOMAIN matching : i < j => matching[i] < matching[j]
      BY <1>1 DEF IInv, TypeOk, WorkflowOk, CursorOk
    <2>2. \A r \in DOMAIN matching : matching[r] \in 1..Len(Script)
      BY <1>1, <2>1, ScriptIs
    <2>3. PICK n \in 1..Len(Script) : n = Len(matching)
      <3>1. Len(Script) \in Nat /\ Len(matching) \in Nat /\ Len(matching) # 0
        BY <1>4, <2>1, ScriptIs
      <3>2. Len(matching) <= Len(Script)
        BY <2>1, <2>2, <3>1, AscendingFits
      <3> QED
        BY <3>1, <3>2
    <2>4. matching \in [1..n -> DOMAIN Script]
      BY <2>1, <2>2, <2>3, ScriptIs
    <2>5. Picked' = matching /\ Verdict' = Verdict
      BY <1>1, <1>4 DEF Picked, Verdict
    <2>6. Len(matching) = 1 \/ multiple
      <3>1. Len(matching) \in Nat /\ Len(matching) # 0
        BY <1>4, <2>1
      <3> QED
        BY <1>4, <2>1, <3>1 DEF TooMany
    <2>7. Script' = Script
      BY <1>1, SameScript
    <2> QED
      BY <1>1, <1>4, <2>1, <2>4, <2>5, <2>6, <2>7, OpenBefore, PickIs DEF Contract!Next
  <1> QED
    BY <1>2, <1>3, <1>4 DEF ChecksDone

\* The state being executed, in the terms of the contract.
LEMMA ExecutingIs ==
  ASSUME IInv, pc \in {"run", "period"}
  PROVE  /\ Picked = matching /\ Picked # <<>> /\ Verdict = "open" /\ trace # <<>>
         /\ run = Len(trace) /\ run <= Len(matching) /\ run \in Nat
         /\ Len(trace[run]) + 1 = action /\ Len(trace[run]) \in Nat
         /\ Len(Script[Picked[run]]) = Len(ActionsOf(run)) /\ Len(ActionsOf(run)) \in Nat
         /\ \A k \in 1..Len(ActionsOf(run)) : Script[Picked[run]][k] = Resolve(ActionsOf(run)[k])
  <1>1. /\ workflow \in Workflow /\ run \in DOMAIN matching /\ run \in DOMAIN trace
        /\ matching[run] \in DOMAIN workflow.states
        /\ ActionsOf(run) \in Seq(Action) /\ trace[run] \in Seq(Action)
    BY Indexing
  <1>2. /\ matching \in Seq(Nat) /\ trace \in Seq(Seq(Action)) /\ run \in Nat
        /\ run = Len(trace) /\ run <= Len(matching) /\ action = Len(trace[run]) + 1
    BY DEF IInv, TypeOk, ProgressOk
  <1>3. trace # <<>> /\ matching # <<>>
    BY <1>1, <1>2
  <1>4. Picked = matching /\ Verdict = "open"
    BY <1>3 DEF Picked, Verdict
  <1>5. matching[run] \in DOMAIN Script
    BY <1>1, ScriptIs DEF Workflow
  <1>6. /\ Len(Script[matching[run]]) = Len(ActionsOf(run))
        /\ \A k \in 1..Len(ActionsOf(run)) : Script[matching[run]][k] = Resolve(ActionsOf(run)[k])
    BY <1>1, <1>5, ScriptIs DEF ActionsOf
  <1>7. Len(ActionsOf(run)) \in Nat /\ Len(trace[run]) \in Nat
    BY <1>1
  <1> QED
    BY <1>2, <1>3, <1>4, <1>6, <1>7

\* The next missing action is performed.
LEMMA PerformRefines == IInv /\ Perform => [Contract!Next]_(Contract!vars)
  <1> SUFFICES ASSUME IInv, Perform PROVE [Contract!Next]_(Contract!vars)
    OBVIOUS
  <1>1. /\ pc = "run" /\ action <= Len(ActionsOf(run)) /\ pc' \in {"run", "period"}
        /\ trace' = [trace EXCEPT ![run] = Append(@, Resolve(ActionsOf(run)[action]))]
        /\ UNCHANGED <<multiple, workflow, matching, report>>
    BY DEF Perform, cursor
  <1>2. /\ Len(trace[run]) < Len(Script[Picked[run]])
        /\ Script[Picked[run]][Len(trace[run]) + 1] = Resolve(ActionsOf(run)[action])
    BY <1>1, ExecutingIs
  <1>3. Picked' = Picked /\ Verdict' = Verdict
    <2>1. trace' # <<>>
      <3>1. trace \in Seq(Seq(Action)) /\ trace # <<>>
        BY <1>1, ExecutingIs DEF IInv, TypeOk
      <3>2. run \in DOMAIN trace
        BY <1>1, Indexing
      <3>3. DOMAIN trace' = DOMAIN trace
        BY <1>1, Zenon
      <3>4. DOMAIN trace' # {}
        BY <3>2, <3>3, Zenon
      <3> QED
        BY <3>4
    <2> QED
      BY <1>1, <2>1, ExecutingIs DEF Picked, Verdict
  <1>4. Script' = Script
    BY <1>1, SameScript
  <1>5. /\ Verdict = "open" /\ Picked # <<>> /\ run = Len(trace)
        /\ trace' = [trace EXCEPT ![run] =
                       Append(@, Script[Picked[run]][Len(trace[run]) + 1])]
    BY <1>1, <1>2, ExecutingIs
  <1> QED
    BY <1>1, <1>2, <1>3, <1>4, <1>5, PerformNextIs DEF Contract!Next

\* The pause between two actions is not seen.
LEMMA PeriodOverRefines == IInv /\ PeriodOver => [Contract!Next]_(Contract!vars)
  <1> SUFFICES ASSUME IInv, PeriodOver PROVE [Contract!Next]_(Contract!vars)
    OBVIOUS
  <1>1. /\ pc = "period" /\ pc' = "run"
        /\ UNCHANGED <<multiple, workflow, matching, trace, report>>
    BY DEF PeriodOver, cursor, progress
  <1>2. Picked' = Picked /\ Verdict' = Verdict /\ Script' = Script
    BY <1>1, SameScript DEF Picked, Verdict
  <1> QED
    BY <1>1, <1>2, StutterIs

\* A failed action gives the replay up where the contract has an action missing.
LEMMA ActionRaisesRefines == IInv /\ ActionRaises => [Contract!Next]_(Contract!vars)
  <1> SUFFICES ASSUME IInv, ActionRaises PROVE [Contract!Next]_(Contract!vars)
    OBVIOUS
  <1>1. /\ pc = "run" /\ action <= Len(ActionsOf(run)) /\ pc' = "done"
        /\ UNCHANGED <<multiple, workflow, matching, trace>>
    BY DEF ActionRaises, cursor, progress
  <1>2. Verdict' = "failure"
    BY DEF ActionRaises, Running, Verdict
  <1>3. Picked' = Picked /\ Script' = Script
    BY <1>1, SameScript DEF Picked
  <1>4. Len(trace[run]) < Len(Script[Picked[run]])
    BY <1>1, ExecutingIs
  <1> QED
    BY <1>1, <1>2, <1>3, <1>4, ExecutingIs, GiveUpIs DEF Contract!Next

\* A state that ran to its end has no action missing.
LEMMA StateDoneRefines == IInv /\ StateDone => [Contract!Next]_(Contract!vars)
  <1> SUFFICES ASSUME IInv, StateDone PROVE [Contract!Next]_(Contract!vars)
    OBVIOUS
  <1>1. /\ pc = "run" /\ action > Len(ActionsOf(run))
        /\ UNCHANGED <<multiple, workflow, matching>>
    BY DEF StateDone, cursor
  <1>2. Script' = Script
    BY <1>1, SameScript
  <1>3. ~(Len(trace[run]) < Len(Script[Picked[run]]))
    BY <1>1, ExecutingIs
  <1>4. CASE run < Len(matching)
    <2>1. trace' = Append(trace, <<>>) /\ UNCHANGED <<pc, report>>
      BY <1>4 DEF StateDone
    <2>2. trace' # <<>>
      <3>1. trace \in Seq(Seq(Action))
        BY DEF IInv, TypeOk
      <3> QED
        BY <2>1, <3>1
    <2>3. Picked' = Picked /\ Verdict' = Verdict
      BY <1>1, <2>1, <2>2, ExecutingIs DEF Picked, Verdict
    <2> QED
      BY <1>1, <1>2, <1>3, <1>4, <2>1, <2>3, ExecutingIs, EnterStateIs DEF Contract!Next
  <1>5. CASE ~(run < Len(matching))
    <2>1. trace' = trace /\ Verdict' = "success"
      BY <1>5 DEF StateDone, Succeed, Running, Verdict
    <2>2. Picked' = Picked
      BY <1>1, <2>1 DEF Picked
    <2>3. run = Len(Picked)
      <3>1. matching \in Seq(Nat)
        BY DEF IInv, TypeOk
      <3> QED
        BY <1>1, <1>5, <3>1, ExecutingIs
    <2> QED
      BY <1>1, <1>2, <1>3, <2>1, <2>2, <2>3, ExecutingIs, FinishIs DEF Contract!Next
  <1> QED
    BY <1>4, <1>5

\* What the page does by itself is not seen.
LEMMA UnseenRefines == PageMoves \/ UNCHANGED vars => UNCHANGED Contract!vars
  <1> SUFFICES ASSUME PageMoves \/ UNCHANGED vars PROVE UNCHANGED Contract!vars
    OBVIOUS
  <1>1. UNCHANGED <<multiple, workflow, matching, trace, pc, report>>
    BY DEF PageMoves, vars, cursor, progress
  <1>2. Picked' = Picked /\ Verdict' = Verdict /\ Script' = Script
    BY <1>1, SameScript DEF Picked, Verdict
  <1> QED
    BY <1>1, <1>2, StutterIs

\* A replay starts as the contract does.
LEMMA InitRefines == Init => Contract!Init
  <1> SUFFICES ASSUME Init PROVE Contract!Init
    OBVIOUS
  <1>1. multiple \in BOOLEAN /\ workflow \in Inputs /\ trace = <<>> /\ pc # "done"
    BY EngineAssumption DEF Init
  <1>2. Script \in {ScriptOf(doc) : doc \in Inputs}
    BY <1>1 DEF Script
  <1> QED
    BY <1>1, <1>2 DEF Contract!Init, Script, ScriptOf

\* Every step of the engine is a step of the contract or is not seen in it.
THEOREM StepRefines == IInv /\ [Next]_vars => [Contract!Next]_(Contract!vars)
  BY ValidateRefines, CheckParametersRefines, CheckingRefines, ChecksDoneRefines,
     PerformRefines, PeriodOverRefines, ActionRaisesRefines, StateDoneRefines,
     UnseenRefines DEF Next, Runner

\* The engine implements the safety part of ReplayContract, for every document, page and
\* configuration: it refuses and performs nothing, or performs the actions of the states
\* it picked in order, and its verdict is a success exactly when none is missing.
THEOREM EngineImplementsContract == Spec => Contract!Init /\ [][Contract!Next]_(Contract!vars)
  BY InitRefines, StepRefines, SpecIInv, PTL DEF Spec
-----------------------------------------------------------------------------
(* Registry *)

\* Tables of names and callables, as _entries is one.
Tables == UNION {[D -> Callables] : D \in SUBSET EntryNames}

\* The names written on the holders.
Marks == [Holders -> EntryNames \cup {None}]

\* What register() works on.
States == [mark : Marks, es : Tables, refused : BOOLEAN, tidy : BOOLEAN]

\* A registered callable was not refused, and its name is written on it if that can be.
Written(m, es) ==
  \A n \in DOMAIN es :
    es[n] \notin Positional /\ (Holder[es[n]] \in Unmarkable \/ m[Holder[es[n]]] # None)

\* Each callable of a table would be registered again under the name it has there.
Faithful(m, es) ==
  \A n \in DOMAIN es :
    IF Holder[es[n]] \in Unmarkable THEN OwnName[es[n]] = n ELSE m[Holder[es[n]]] = n

\* Everything the second table has, the first one has too.
Includes(es, old) == \A n \in DOMAIN old : n \in DOMAIN es /\ es[n] = old[n]

\* They are names, and none is written where that is refused.
MarksOk(m) ==
  /\ m \in Marks
  /\ \A h \in Unmarkable : m[h] = None

\* What the calls are.
Operations == {"none", "register", "add", "make", "context", "create", "run"}

\* Every variable of Registry keeps the shape its object has.
RegistryTypeOk ==
  /\ mark \in Marks
  /\ DOMAIN entries \subseteq Registries /\ entries \in [DOMAIN entries -> Tables]
  /\ context \in [DOMAIN entries -> Contexts \cup {Missing}]
  /\ made \subseteq [registry : DOMAIN entries, entry : Callables]
  /\ calls \in 0..MaxCalls
  /\ last \in [op : Operations, refused : BOOLEAN]
  /\ ran \in [named : Callables \cup {Missing}, did : Callables \cup {Missing},
              ctx : Contexts \cup {Missing}]
  /\ source \in [DOMAIN entries -> Tables]
  /\ tidy \in BOOLEAN

\* The names on the callables and the tables agree, whatever was registered.
TablesOk == MarksOk(mark) /\ \A r \in DOMAIN entries : Written(mark, entries[r])

\* What holds as long as no name was taken from a callable.
TidyOk ==
  /\ \A r \in DOMAIN entries : Faithful(mark, entries[r]) /\ Includes(entries[r], source[r])
  /\ \A m \in made : \E n \in DOMAIN entries[m.registry] :
       entries[m.registry][n] = m.entry
  /\ ran.did = ran.named
  /\ ~(last.op = "make" /\ last.refused)

\* The inductive invariant.
RegistryIInv == RegistryTypeOk /\ TablesOk /\ (tidy => TidyOk)
-----------------------------------------------------------------------------
\* What a table is a function of, and into.
LEMMA TableType ==
  ASSUME NEW es \in Tables
  PROVE  /\ DOMAIN es \subseteq EntryNames
         /\ es \in [DOMAIN es -> Callables]
  BY DEF Tables

\* Any function from names to callables is one.
LEMMA TableIntro ==
  ASSUME NEW D \in SUBSET EntryNames, NEW es \in [D -> Callables]
  PROVE  es \in Tables
  BY DEF Tables

\* A table with one more name is a table.
LEMMA WithType ==
  ASSUME NEW es \in Tables, NEW n \in EntryNames, NEW c \in Callables
  PROVE  With(es, n, c) \in Tables
  <1>1. DOMAIN es \cup {n} \in SUBSET EntryNames
    BY TableType
  <1>2. With(es, n, c) \in [DOMAIN es \cup {n} -> Callables]
    BY TableType DEF With
  <1> QED
    BY <1>1, <1>2, TableIntro

\* Every callable has a holder.
LEMMA HolderType ==
  ASSUME NEW c \in Callables
  PROVE  Holder[c] \in Holders
  BY DEF Holders

\* No name is the absence of one.
LEMMA NamesAreNotNone == None \notin EntryNames
  BY DEF EntryNames, None

\* What is read from a callable is a name or nothing,
LEMMA MetadataType ==
  ASSUME NEW m \in Marks, NEW c \in Callables
  PROVE  MetadataName(m, c) \in EntryNames \cup {None}
  BY RegistryAssumption, HolderType DEF MetadataName, Marks

\* and what it is registered under always a name.
LEMMA ResolvedNameType ==
  ASSUME NEW m \in Marks, NEW c \in Callables, NEW name \in EntryNames \cup {None}
  PROVE  ResolveName(m, c, name) \in EntryNames
  BY RegistryAssumption, MetadataType DEF ResolveName

\* Marks with one more name written.
LEMMA MarkedType ==
  ASSUME NEW m \in Marks, NEW c \in Callables, NEW n \in EntryNames
  PROVE  Marked(m, c, n) \in Marks
  BY HolderType DEF Marked, Marks

\* What a holder has after a name was written.
LEMMA MarkedElsewhere ==
  ASSUME NEW m \in Marks, NEW c \in Callables, NEW n \in EntryNames, NEW h \in Holders
  PROVE  Marked(m, c, n)[h] =
           IF h = Holder[c] /\ h \notin Unmarkable THEN n ELSE m[h]
  BY HolderType DEF Marked, Marks

\* The three ways register() ends.
LEMMA RegisterCases ==
  ASSUME NEW s \in States, NEW c \in Callables, NEW name \in EntryNames \cup {None},
         NEW overwrite \in BOOLEAN,
         NEW n, n = ResolveName(s.mark, c, name),
         NEW t, t = Register(s, c, name, overwrite)
  PROVE  /\ n \in EntryNames /\ t \in States
         /\ \/ /\ s.refused \/ (~overwrite /\ n \in DOMAIN s.es)
               /\ t.mark = s.mark /\ t.es = s.es /\ t.tidy = s.tidy /\ t.refused
            \/ /\ ~s.refused /\ (overwrite \/ n \notin DOMAIN s.es)
               /\ c \in Positional
               /\ t.mark = Marked(s.mark, c, n) /\ t.es = s.es /\ t.tidy = s.tidy
               /\ t.refused
            \/ /\ ~s.refused /\ (overwrite \/ n \notin DOMAIN s.es)
               /\ c \notin Positional
               /\ t.mark = Marked(s.mark, c, n) /\ t.es = With(s.es, n, c)
               /\ t.tidy = (s.tidy /\ Keeps(s, c, n)) /\ ~t.refused
  <1>1. s.mark \in Marks /\ s.es \in Tables /\ s.refused \in BOOLEAN /\ s.tidy \in BOOLEAN
    BY DEF States
  <1>2. n \in EntryNames
    BY <1>1, ResolvedNameType
  <1>3. Marked(s.mark, c, n) \in Marks /\ With(s.es, n, c) \in Tables
    BY <1>1, <1>2, MarkedType, WithType
  <1>4. (s.tidy /\ Keeps(s, c, n)) \in BOOLEAN
    OBVIOUS
  <1>5. CASE s.refused \/ (~overwrite /\ n \in DOMAIN s.es)
    <2>1. t = [s EXCEPT !.refused = TRUE]
      BY <1>5 DEF Register
    <2> QED
      BY <1>2, <1>5, <2>1 DEF States
  <1>6. CASE ~(s.refused \/ (~overwrite /\ n \in DOMAIN s.es)) /\ c \in Positional
    <2>1. t = [s EXCEPT !.mark = Marked(s.mark, c, n), !.refused = TRUE]
      BY <1>6 DEF Register
    <2> QED
      BY <1>2, <1>3, <1>6, <2>1 DEF States
  <1>7. CASE ~(s.refused \/ (~overwrite /\ n \in DOMAIN s.es)) /\ c \notin Positional
    <2> DEFINE kept == s.tidy /\ Keeps(s, c, n)
    <2>1. t = [s EXCEPT !.mark = Marked(s.mark, c, n), !.es = With(s.es, n, c),
                        !.tidy = kept]
      BY <1>7 DEF Register
    <2> HIDE DEF kept
    <2>2. kept \in BOOLEAN
      BY <1>4 DEF kept
    <2>3. t.mark = Marked(s.mark, c, n) /\ t.es = With(s.es, n, c) /\ t.refused = s.refused
      BY <2>1 DEF States
    <2>4. t.tidy = kept
      BY <2>1, <2>2 DEF States
    <2>5. t \in States
      BY <2>1, <2>2, <1>3 DEF States
    <2> QED
      BY <1>2, <1>7, <2>3, <2>4, <2>5 DEF kept
  <1> QED
    BY <1>5, <1>6, <1>7

\* A registration that takes no name away is the last of them.
LEMMA RegisterAccepted ==
  ASSUME NEW s \in States, ~s.refused, NEW c \in Callables, c \notin Positional,
         NEW name \in EntryNames \cup {None}, NEW overwrite \in BOOLEAN,
         NEW n, n = ResolveName(s.mark, c, name), overwrite \/ n \notin DOMAIN s.es,
         Keeps(s, c, n),
         NEW t, t = Register(s, c, name, overwrite)
  PROVE  /\ t \in States /\ ~t.refused /\ t.tidy = s.tidy
         /\ t.mark = Marked(s.mark, c, n) /\ t.es = With(s.es, n, c)
  <1>1. t \in States
    BY RegisterCases
  <1>2. /\ t.mark = Marked(s.mark, c, n) /\ t.es = With(s.es, n, c)
        /\ t.tidy = (s.tidy /\ Keeps(s, c, n)) /\ ~t.refused
    BY RegisterCases
  <1>3. s.tidy \in BOOLEAN
    BY DEF States
  <1> QED
    BY <1>1, <1>2, <1>3

-----------------------------------------------------------------------------
\* What register() needs of the record it works on.
Good(s) == s \in States /\ MarksOk(s.mark) /\ Written(s.mark, s.es)

\* What becomes of a record, and of every other table, when callables are registered.
Follows(s, t) ==
  /\ Good(t)
  /\ \A es \in Tables : Written(s.mark, es) => Written(t.mark, es)
  /\ t.tidy => /\ s.tidy
               /\ \A es \in Tables :
                    Written(s.mark, es) /\ Faithful(s.mark, es) => Faithful(t.mark, es)
               /\ Faithful(s.mark, s.es) => Faithful(t.mark, t.es)
               /\ Includes(t.es, s.es)

\* A callable refused for its ctx shares its holder with no registered one.
LEMMA PositionalApart ==
  ASSUME NEW c \in Callables, NEW d \in Callables, c \in Positional, d \notin Positional
  PROVE  Holder[d] # Holder[c]
  BY RegistryAssumption

\* Names are written over no unmarkable holder.
LEMMA MarkedOk ==
  ASSUME NEW m, MarksOk(m), NEW c \in Callables, NEW n \in EntryNames
  PROVE  MarksOk(Marked(m, c, n))
  <1>1. m \in Marks /\ \A h \in Unmarkable : m[h] = None
    BY DEF MarksOk
  <1>2. Unmarkable \subseteq Holders
    BY RegistryAssumption
  <1>3. Marked(m, c, n) \in Marks
    BY <1>1, MarkedType
  <1>4. ASSUME NEW h \in Unmarkable PROVE Marked(m, c, n)[h] = None
    BY <1>1, <1>2, <1>4, MarkedElsewhere
  <1> QED
    BY <1>3, <1>4 DEF MarksOk

\* Writing a name leaves written what is written.
LEMMA MarkedWritten ==
  ASSUME NEW m \in Marks, NEW c \in Callables, NEW n \in EntryNames,
         NEW es \in Tables, Written(m, es)
  PROVE  Written(Marked(m, c, n), es)
  <1> SUFFICES ASSUME NEW x \in DOMAIN es
               PROVE  /\ es[x] \notin Positional
                      /\ Holder[es[x]] \in Unmarkable \/ Marked(m, c, n)[Holder[es[x]]] # None
    BY DEF Written
  <1>1. es[x] \in Callables
    BY TableType
  <1>2. es[x] \notin Positional /\ (Holder[es[x]] \in Unmarkable \/ m[Holder[es[x]]] # None)
    BY DEF Written
  <1>3. Holder[es[x]] \in Holders
    BY <1>1, HolderType
  <1>4. Marked(m, c, n)[Holder[es[x]]] =
          IF Holder[es[x]] = Holder[c] /\ Holder[es[x]] \notin Unmarkable THEN n
          ELSE m[Holder[es[x]]]
    BY <1>3, MarkedElsewhere
  <1> QED
    BY <1>2, <1>4, NamesAreNotNone

\* A name that takes none from another callable leaves every table faithful.
LEMMA MarkedFaithful ==
  ASSUME NEW m \in Marks, NEW c \in Callables, NEW n \in EntryNames,
         NEW es \in Tables, Written(m, es), Faithful(m, es),
         c \in Positional \/ m[Holder[c]] \in {None, n}
  PROVE  Faithful(Marked(m, c, n), es)
  <1> SUFFICES ASSUME NEW x \in DOMAIN es
               PROVE  IF Holder[es[x]] \in Unmarkable THEN OwnName[es[x]] = x
                      ELSE Marked(m, c, n)[Holder[es[x]]] = x
    BY DEF Faithful
  <1>1. es[x] \in Callables
    BY TableType
  <1>2. es[x] \notin Positional /\ (Holder[es[x]] \in Unmarkable \/ m[Holder[es[x]]] # None)
    BY DEF Written
  <1>3. IF Holder[es[x]] \in Unmarkable THEN OwnName[es[x]] = x ELSE m[Holder[es[x]]] = x
    BY DEF Faithful
  <1>4. Holder[es[x]] \in Holders
    BY <1>1, HolderType
  <1>5. Marked(m, c, n)[Holder[es[x]]] =
          IF Holder[es[x]] = Holder[c] /\ Holder[es[x]] \notin Unmarkable THEN n
          ELSE m[Holder[es[x]]]
    BY <1>4, MarkedElsewhere
  <1>6. CASE Holder[es[x]] # Holder[c] \/ Holder[es[x]] \in Unmarkable
    BY <1>3, <1>5, <1>6
  <1>7. CASE Holder[es[x]] = Holder[c] /\ Holder[es[x]] \notin Unmarkable
    <2>1. c \notin Positional
      BY <1>1, <1>2, <1>7, PositionalApart
    <2>2. m[Holder[c]] \in {None, n} /\ m[Holder[c]] = x /\ x # None
      BY <2>1, <1>2, <1>3, <1>7
    <2> QED
      BY <2>2, <1>5, <1>7
  <1> QED
    BY <1>6, <1>7

\* The callable that is registered gets its name, if it is not refused.
LEMMA RegisteredWritten ==
  ASSUME NEW m, MarksOk(m), NEW c \in Callables, c \notin Positional,
         NEW n \in EntryNames, NEW es \in Tables, Written(m, es)
  PROVE  Written(Marked(m, c, n), With(es, n, c))
  <1> DEFINE w == Marked(m, c, n)
             ts == With(es, n, c)
  <1>1. m \in Marks
    BY DEF MarksOk
  <1>2. Written(w, es)
    BY <1>1, MarkedWritten
  <1>3. DOMAIN ts = DOMAIN es \cup {n} /\ \A x \in DOMAIN ts : ts[x] = IF x = n THEN c ELSE es[x]
    BY DEF With
  <1>4. Holder[c] \in Unmarkable \/ w[Holder[c]] # None
    BY <1>1, HolderType, MarkedElsewhere, NamesAreNotNone
  <1> HIDE DEF w, ts
  <1>5. ASSUME NEW x \in DOMAIN ts
        PROVE  ts[x] \notin Positional /\ (Holder[ts[x]] \in Unmarkable \/ w[Holder[ts[x]]] # None)
    <2>1. CASE x = n
      BY <1>3, <1>4, <2>1
    <2>2. CASE x # n
      <3>1. x \in DOMAIN es /\ ts[x] = es[x]
        BY <1>3, <1>5, <2>2
      <3> QED
        BY <3>1, <1>2 DEF Written
    <2> QED
      BY <2>1, <2>2
  <1>6. Written(w, ts)
    BY <1>5 DEF Written
  <1> QED
    BY <1>6 DEF w, ts

\* When it takes no name from a callable, the table stays faithful and only grows.
LEMMA RegisteredFaithful ==
  ASSUME NEW s \in States, MarksOk(s.mark), NEW c \in Callables, c \notin Positional,
         NEW n \in EntryNames, Keeps(s, c, n), Written(s.mark, s.es), Faithful(s.mark, s.es)
  PROVE  Faithful(Marked(s.mark, c, n), With(s.es, n, c))
  <1> DEFINE w == Marked(s.mark, c, n)
             ts == With(s.es, n, c)
  <1>1. s.mark \in Marks /\ s.es \in Tables
    BY DEF States
  <1>2. s.mark[Holder[c]] \in {None, n} /\ (MetadataName(w, c) = n \/ OwnName[c] = n)
    BY DEF Keeps
  <1>3. Faithful(w, s.es)
    BY <1>1, <1>2, MarkedFaithful
  <1>4. DOMAIN ts = DOMAIN s.es \cup {n}
        /\ \A x \in DOMAIN ts : ts[x] = IF x = n THEN c ELSE s.es[x]
    BY DEF With
  <1>5. IF Holder[c] \in Unmarkable THEN OwnName[c] = n ELSE w[Holder[c]] = n
    <2>1. CASE Holder[c] \notin Unmarkable
      BY <1>1, <2>1, HolderType, MarkedElsewhere
    <2>2. CASE Holder[c] \in Unmarkable
      <3>1. w[Holder[c]] = None
        BY <2>2, MarkedOk DEF MarksOk
      <3>2. Base[Holder[c]] = NoBase
        BY <2>2, RegistryAssumption
      <3>3. MetadataName(w, c) = None
        BY <3>1, <3>2 DEF MetadataName
      <3> QED
        BY <3>3, <1>2, <2>2, NamesAreNotNone
    <2> QED
      BY <2>1, <2>2
  <1> HIDE DEF w, ts
  <1>6. ASSUME NEW x \in DOMAIN ts
        PROVE  IF Holder[ts[x]] \in Unmarkable THEN OwnName[ts[x]] = x
               ELSE w[Holder[ts[x]]] = x
    <2>1. CASE x = n
      BY <1>4, <1>5, <2>1
    <2>2. CASE x # n
      <3>1. x \in DOMAIN s.es /\ ts[x] = s.es[x]
        BY <1>4, <1>6, <2>2
      <3> QED
        BY <3>1, <1>3 DEF Faithful
    <2> QED
      BY <2>1, <2>2
  <1>7. Faithful(w, ts)
    BY <1>6 DEF Faithful
  <1> QED
    BY <1>7 DEF w, ts

\* One registration, refused or not.
LEMMA RegisterFollows ==
  ASSUME NEW s, Good(s), NEW c \in Callables, NEW name \in EntryNames \cup {None},
         NEW overwrite \in BOOLEAN
  PROVE  Follows(s, Register(s, c, name, overwrite))
  <1>1. PICK n : n = ResolveName(s.mark, c, name)
    OBVIOUS
  <1>2. PICK t : t = Register(s, c, name, overwrite)
    OBVIOUS
  <1>3. s \in States /\ MarksOk(s.mark) /\ Written(s.mark, s.es)
    BY DEF Good
  <1>4. n \in EntryNames /\ t \in States
    BY <1>1, <1>2, <1>3, RegisterCases
  <1>5. s.mark \in Marks /\ s.es \in Tables
    BY <1>3 DEF States
  <1>6. CASE t.mark = s.mark /\ t.es = s.es /\ t.tidy = s.tidy
    <2>1. Good(t)
      BY <1>3, <1>4, <1>6 DEF Good
    <2>2. Includes(t.es, s.es)
      BY <1>6 DEF Includes
    <2> QED
      BY <2>1, <2>2, <1>2, <1>6 DEF Follows
  <1>7. CASE c \in Positional /\ t.mark = Marked(s.mark, c, n) /\ t.es = s.es
             /\ t.tidy = s.tidy
    <2>1. MarksOk(t.mark)
      BY <1>3, <1>4, <1>7, MarkedOk
    <2>2. \A es \in Tables : Written(s.mark, es) => Written(t.mark, es)
      BY <1>4, <1>5, <1>7, MarkedWritten
    <2>3. \A es \in Tables : Written(s.mark, es) /\ Faithful(s.mark, es)
            => Faithful(t.mark, es)
      BY <1>4, <1>5, <1>7, MarkedFaithful
    <2>4. Good(t)
      BY <1>3, <1>4, <1>5, <1>7, <2>1, <2>2 DEF Good
    <2>5. Includes(t.es, s.es)
      BY <1>7 DEF Includes
    <2>6. Faithful(s.mark, s.es) => Faithful(t.mark, t.es)
      BY <1>3, <1>5, <1>7, <2>3
    <2> QED
      BY <2>2, <2>3, <2>4, <2>5, <2>6, <1>2, <1>7 DEF Follows
  <1>8. CASE c \notin Positional /\ t.mark = Marked(s.mark, c, n)
             /\ t.es = With(s.es, n, c) /\ t.tidy = (s.tidy /\ Keeps(s, c, n))
    <2>1. MarksOk(t.mark)
      BY <1>3, <1>4, <1>8, MarkedOk
    <2>2. \A es \in Tables : Written(s.mark, es) => Written(t.mark, es)
      BY <1>4, <1>5, <1>8, MarkedWritten
    <2>3. Written(t.mark, t.es)
      BY <1>3, <1>4, <1>5, <1>8, RegisteredWritten
    <2>4. Good(t)
      BY <1>4, <2>1, <2>3 DEF Good
    <2>5. ASSUME t.tidy
          PROVE  /\ s.tidy
                 /\ \A es \in Tables :
                      Written(s.mark, es) /\ Faithful(s.mark, es) => Faithful(t.mark, es)
                 /\ Faithful(s.mark, s.es) => Faithful(t.mark, t.es)
                 /\ Includes(t.es, s.es)
      <3>1. s.tidy /\ Keeps(s, c, n)
        BY <1>8, <2>5
      <3>2. s.mark[Holder[c]] \in {None, n} /\ (n \in DOMAIN s.es => s.es[n] = c)
        BY <3>1 DEF Keeps
      <3>3. \A es \in Tables :
              Written(s.mark, es) /\ Faithful(s.mark, es) => Faithful(t.mark, es)
        BY <1>4, <1>5, <1>8, <3>2, MarkedFaithful
      <3>4. Faithful(s.mark, s.es) => Faithful(t.mark, t.es)
        BY <1>3, <1>4, <1>8, <3>1, RegisteredFaithful
      <3>5. Includes(t.es, s.es)
        BY <1>8, <3>2 DEF Includes, With
      <3> QED
        BY <3>1, <3>3, <3>4, <3>5
    <2> QED
      BY <2>2, <2>4, <2>5, <1>2 DEF Follows
  <1> QED
    BY <1>1, <1>2, <1>3, <1>6, <1>7, <1>8, RegisterCases

\* A record that nothing is registered in follows itself,
LEMMA FollowsItself ==
  ASSUME NEW s, Good(s)
  PROVE  Follows(s, s)
  BY DEF Follows, Includes

\* and what follows is transitive: registrations add up.
LEMMA FollowsOn ==
  ASSUME NEW s, Good(s), NEW t, NEW u, Follows(s, t), Follows(t, u)
  PROVE  Follows(s, u)
  <1>1. Good(u) /\ Good(t)
    BY DEF Follows
  <1>2. \A es \in Tables : Written(s.mark, es) => Written(u.mark, es)
    BY DEF Follows
  <1>3. ASSUME u.tidy
        PROVE  /\ s.tidy
               /\ \A es \in Tables :
                    Written(s.mark, es) /\ Faithful(s.mark, es) => Faithful(u.mark, es)
               /\ Faithful(s.mark, s.es) => Faithful(u.mark, u.es)
               /\ Includes(u.es, s.es)
    <2>1. t.tidy
      BY <1>3 DEF Follows
    <2>2. Includes(u.es, s.es)
      BY <1>3, <2>1 DEF Follows, Includes
    <2> QED
      BY <1>3, <2>1, <2>2 DEF Follows
  <1> QED
    BY <1>1, <1>2, <1>3 DEF Follows
-----------------------------------------------------------------------------
\* What the function inside AddAll is defined to be, on the first n callables.
Adds(f, n, s, cs, overwrite) ==
  f = [k \in 0..n |-> IF k = 0 THEN s ELSE Register(f[k - 1], cs[k], None, overwrite)]

\* The next value of the recursion.
LEMMA AddsStep ==
  ASSUME NEW f, NEW n \in Nat, NEW s, NEW cs, NEW overwrite, Adds(f, n, s, cs, overwrite),
         NEW k \in Nat, k + 1 <= n
  PROVE  f[k + 1] = Register(f[k], cs[k + 1], None, overwrite)
  <1>1. k + 1 \in 0..n /\ (k + 1) - 1 = k /\ k + 1 # 0
    OBVIOUS
  <1>2. f[k + 1] = IF k + 1 = 0 THEN s
                   ELSE Register(f[(k + 1) - 1], cs[k + 1], None, overwrite)
    BY <1>1 DEF Adds
  <1> QED
    BY <1>1, <1>2

\* There is such a function.
LEMMA AddsExists ==
  ASSUME NEW n \in Nat, NEW s, NEW cs, NEW overwrite
  PROVE  \E f : Adds(f, n, s, cs, overwrite)
  <1> DEFINE S == {k \in Nat : \E f : Adds(f, k, s, cs, overwrite)}
  <1>1. 0 \in S
    <2> DEFINE f == [k \in 0..0 |-> s]
    <2>1. f = [k \in 0..0 |-> IF k = 0 THEN s
                              ELSE Register(f[k - 1], cs[k], None, overwrite)]
      OBVIOUS
    <2> QED
      BY <2>1 DEF Adds
  <1>2. ASSUME NEW i \in Nat, i \in S
        PROVE  i + 1 \in S
    <2>1. PICK f : Adds(f, i, s, cs, overwrite)
      BY <1>2
    <2> DEFINE g == [k \in 0..(i + 1) |->
                       IF k = i + 1 THEN Register(f[i], cs[i + 1], None, overwrite)
                       ELSE f[k]]
    <2>2. ASSUME NEW k \in 0..(i + 1)
          PROVE  g[k] = IF k = 0 THEN s ELSE Register(g[k - 1], cs[k], None, overwrite)
      <3>1. CASE k = i + 1
        <4>1. k # 0 /\ k - 1 = i /\ i \in 0..(i + 1) /\ i # i + 1
          BY <3>1, <1>2
        <4>2. g[k - 1] = f[i]
          BY <4>1
        <4> QED
          BY <3>1, <4>1, <4>2
      <3>2. CASE k # i + 1
        <4>1. k \in 0..i
          BY <3>2, <2>2, <1>2
        <4>2. f[k] = IF k = 0 THEN s ELSE Register(f[k - 1], cs[k], None, overwrite)
          BY <2>1, <4>1 DEF Adds
        <4>3. k # 0 => k - 1 \in 0..(i + 1) /\ k - 1 # i + 1
          BY <4>1, <1>2
        <4>4. k # 0 => g[k - 1] = f[k - 1]
          BY <4>3
        <4> QED
          BY <3>2, <4>2, <4>4
      <3> QED
        BY <3>1, <3>2
    <2>3. Adds(g, i + 1, s, cs, overwrite)
      <3>1. g = [k \in 0..(i + 1) |-> g[k]]
        OBVIOUS
      <3> HIDE DEF g
      <3> QED
        BY <2>2, <3>1, Zenon DEF Adds
    <2> QED
      BY <2>3, <1>2
  <1>3. Nat \subseteq S
    <2> HIDE DEF S
    <2> QED
      BY <1>1, <1>2, SetInduction
  <1> QED
    BY <1>3

\* add_entries() is its last value.
LEMMA AddAllIs ==
  ASSUME NEW s, NEW V, NEW cs \in Seq(V), NEW overwrite
  PROVE  \E f : Adds(f, Len(cs), s, cs, overwrite) /\ AddAll(s, cs, overwrite) = f[Len(cs)]
  <1>1. Len(cs) \in Nat
    OBVIOUS
  <1>2. \E f : Adds(f, Len(cs), s, cs, overwrite)
    BY <1>1, AddsExists
  <1> DEFINE h == CHOOSE f : Adds(f, Len(cs), s, cs, overwrite)
  <1>3. Adds(h, Len(cs), s, cs, overwrite)
    BY <1>2, Zenon
  <1>4. AddAll(s, cs, overwrite) = h[Len(cs)]
    BY Zenon DEF AddAll, Adds
  <1> QED
    BY <1>3, <1>4, Zenon

\* Several registrations, up to the first that is refused.
LEMMA AddAllFollows ==
  ASSUME NEW s, Good(s), NEW cs \in Seq(Callables), NEW overwrite \in BOOLEAN
  PROVE  Follows(s, AddAll(s, cs, overwrite))
  <1>1. PICK n \in Nat : n = Len(cs) /\ DOMAIN cs = 1..n
    OBVIOUS
  <1>2. PICK f : Adds(f, n, s, cs, overwrite) /\ AddAll(s, cs, overwrite) = f[n]
    BY <1>1, AddAllIs
  <1> DEFINE S == {k \in Nat : k <= n => Follows(s, f[k])}
  <1>3. 0 \in S
    <2>1. f[0] = s
      BY <1>1, <1>2 DEF Adds
    <2> QED
      BY <2>1, FollowsItself
  <1>4. ASSUME NEW k \in Nat, k \in S
        PROVE  k + 1 \in S
    <2> SUFFICES ASSUME k + 1 <= n
                 PROVE  Follows(s, f[k + 1])
      BY <1>4
    <2>1. Follows(s, f[k])
      BY <1>1, <1>4
    <2>2. f[k + 1] = Register(f[k], cs[k + 1], None, overwrite)
      BY <1>1, <1>2, AddsStep
    <2>3. cs[k + 1] \in Callables
      BY <1>1
    <2>4. Good(f[k])
      BY <2>1 DEF Follows
    <2>5. Follows(f[k], f[k + 1])
      BY <2>2, <2>3, <2>4, RegisterFollows
    <2> QED
      BY <2>1, <2>5, FollowsOn
  <1>5. Nat \subseteq S
    <2> HIDE DEF S
    <2> QED
      BY <1>3, <1>4, SetInduction
  <1> QED
    BY <1>1, <1>2, <1>5
-----------------------------------------------------------------------------
\* The same for the function inside AddItems, over the names up to n.
AddsItems(f, n, s, es) ==
  f = [k \in 0..n |->
         IF k = 0 THEN s
         ELSE IF k \in DOMAIN es THEN Register(f[k - 1], es[k], None, FALSE)
         ELSE f[k - 1]]

\* Its next value.
LEMMA AddsItemsStep ==
  ASSUME NEW f, NEW n \in Nat, NEW s, NEW es, AddsItems(f, n, s, es),
         NEW k \in Nat, k + 1 <= n
  PROVE  f[k + 1] = IF k + 1 \in DOMAIN es THEN Register(f[k], es[k + 1], None, FALSE)
                    ELSE f[k]
  <1>1. k + 1 \in 0..n /\ (k + 1) - 1 = k /\ k + 1 # 0
    OBVIOUS
  <1>2. f[k + 1] = IF k + 1 = 0 THEN s
                   ELSE IF k + 1 \in DOMAIN es
                        THEN Register(f[(k + 1) - 1], es[k + 1], None, FALSE)
                   ELSE f[(k + 1) - 1]
    BY <1>1 DEF AddsItems
  <1> QED
    BY <1>1, <1>2

\* There is such a function.
LEMMA AddsItemsExists ==
  ASSUME NEW n \in Nat, NEW s, NEW es
  PROVE  \E f : AddsItems(f, n, s, es)
  <1> DEFINE S == {k \in Nat : \E f : AddsItems(f, k, s, es)}
             Next1(t, k) == IF k \in DOMAIN es THEN Register(t, es[k], None, FALSE) ELSE t
  <1>1. 0 \in S
    <2> DEFINE f == [k \in 0..0 |-> s]
    <2>1. f = [k \in 0..0 |->
                 IF k = 0 THEN s
                 ELSE IF k \in DOMAIN es THEN Register(f[k - 1], es[k], None, FALSE)
                 ELSE f[k - 1]]
      OBVIOUS
    <2> QED
      BY <2>1 DEF AddsItems
  <1>2. ASSUME NEW i \in Nat, i \in S
        PROVE  i + 1 \in S
    <2>1. PICK f : AddsItems(f, i, s, es)
      BY <1>2
    <2> DEFINE g == [k \in 0..(i + 1) |-> IF k = i + 1 THEN Next1(f[i], i + 1) ELSE f[k]]
    <2>2. ASSUME NEW k \in 0..(i + 1)
          PROVE  g[k] = IF k = 0 THEN s
                        ELSE IF k \in DOMAIN es THEN Register(g[k - 1], es[k], None, FALSE)
                        ELSE g[k - 1]
      <3>1. CASE k = i + 1
        <4>1. k # 0 /\ k - 1 = i /\ i \in 0..(i + 1) /\ i # i + 1
          BY <3>1, <1>2
        <4>2. g[k - 1] = f[i]
          BY <4>1
        <4> QED
          BY <3>1, <4>1, <4>2
      <3>2. CASE k # i + 1
        <4>1. k \in 0..i
          BY <3>2, <2>2, <1>2
        <4>2. f[k] = IF k = 0 THEN s
                     ELSE IF k \in DOMAIN es THEN Register(f[k - 1], es[k], None, FALSE)
                     ELSE f[k - 1]
          BY <2>1, <4>1 DEF AddsItems
        <4>3. k # 0 => k - 1 \in 0..(i + 1) /\ k - 1 # i + 1
          BY <4>1, <1>2
        <4>4. k # 0 => g[k - 1] = f[k - 1]
          BY <4>3
        <4> QED
          BY <3>2, <4>2, <4>4
      <3> QED
        BY <3>1, <3>2
    <2>3. AddsItems(g, i + 1, s, es)
      <3>1. g = [k \in 0..(i + 1) |-> g[k]]
        OBVIOUS
      <3> HIDE DEF g
      <3> QED
        BY <2>2, <3>1, Zenon DEF AddsItems
    <2> QED
      BY <2>3, <1>2
  <1>3. Nat \subseteq S
    <2> HIDE DEF S
    <2> QED
      BY <1>1, <1>2, SetInduction
  <1> QED
    BY <1>3

\* What a new registry is filled with is its last value.
LEMMA AddItemsIs ==
  ASSUME NEW s, NEW es
  PROVE  \E f : AddsItems(f, MaxName, s, es) /\ AddItems(s, es) = f[MaxName]
  <1>1. \E f : AddsItems(f, MaxName, s, es)
    BY RegistryAssumption, AddsItemsExists
  <1> DEFINE h == CHOOSE f : AddsItems(f, MaxName, s, es)
  <1>2. AddsItems(h, MaxName, s, es)
    BY <1>1, Zenon
  <1>3. AddItems(s, es) = h[MaxName]
    BY Zenon DEF AddItems, AddsItems
  <1> QED
    BY <1>2, <1>3, Zenon

\* A table registered again, up to the first name that is refused.
LEMMA AddItemsFollows ==
  ASSUME NEW s, Good(s), NEW es \in Tables
  PROVE  Follows(s, AddItems(s, es))
  <1>1. PICK f : AddsItems(f, MaxName, s, es) /\ AddItems(s, es) = f[MaxName]
    BY AddItemsIs
  <1>2. MaxName \in Nat
    BY RegistryAssumption
  <1> DEFINE S == {k \in Nat : k <= MaxName => Follows(s, f[k])}
  <1>3. 0 \in S
    <2>1. f[0] = s
      BY <1>1, <1>2 DEF AddsItems
    <2> QED
      BY <2>1, FollowsItself
  <1>4. ASSUME NEW k \in Nat, k \in S
        PROVE  k + 1 \in S
    <2> SUFFICES ASSUME k + 1 <= MaxName
                 PROVE  Follows(s, f[k + 1])
      BY <1>4
    <2>1. Follows(s, f[k])
      BY <1>2, <1>4
    <2>2. f[k + 1] = IF k + 1 \in DOMAIN es THEN Register(f[k], es[k + 1], None, FALSE)
                     ELSE f[k]
      BY <1>1, <1>2, AddsItemsStep
    <2>3. Good(f[k])
      BY <2>1 DEF Follows
    <2>4. CASE k + 1 \in DOMAIN es
      <3>1. es[k + 1] \in Callables
        BY <2>4, TableType
      <3>2. Follows(f[k], f[k + 1])
        BY <2>2, <2>3, <2>4, <3>1, RegisterFollows
      <3> QED
        BY <2>1, <3>2, FollowsOn
    <2>5. CASE k + 1 \notin DOMAIN es
      BY <2>1, <2>2, <2>5
    <2> QED
      BY <2>4, <2>5
  <1>5. Nat \subseteq S
    <2> HIDE DEF S
    <2> QED
      BY <1>3, <1>4, SetInduction
  <1> QED
    BY <1>1, <1>2, <1>5
-----------------------------------------------------------------------------
\* The part of a table with the names up to n.
Upto(es, n) == [x \in {y \in DOMAIN es : y <= n} |-> es[x]]

\* A callable of a faithful table would get the name it has there, and writes nothing new.
LEMMA FaithfulName ==
  ASSUME NEW m, MarksOk(m), NEW es \in Tables, Faithful(m, es), Written(m, es),
         NEW n \in DOMAIN es
  PROVE  /\ ResolveName(m, es[n], None) = n
         /\ Marked(m, es[n], n) = m
         /\ m[Holder[es[n]]] \in {None, n}
         /\ MetadataName(m, es[n]) = n \/ OwnName[es[n]] = n
  <1> DEFINE c == es[n]
             h == Holder[c]
  <1>1. c \in Callables /\ n \in EntryNames
    BY TableType
  <1>2. h \in Holders /\ m \in Marks
    BY <1>1, HolderType DEF MarksOk
  <1>3. IF h \in Unmarkable THEN OwnName[c] = n ELSE m[h] = n
    BY DEF Faithful
  <1> HIDE DEF c
  <1>4. CASE h \in Unmarkable
    <2>1. m[h] = None /\ Base[h] = NoBase
      BY <1>4, RegistryAssumption DEF MarksOk
    <2>2. MetadataName(m, c) = None
      BY <2>1 DEF MetadataName
    <2>3. Marked(m, c, n) = m
      BY <1>4 DEF Marked
    <2> QED
      BY <1>3, <1>4, <2>1, <2>2, <2>3 DEF ResolveName, c
  <1>5. CASE h \notin Unmarkable
    <2>1. m[h] = n /\ n # None
      BY <1>1, <1>3, <1>5, NamesAreNotNone
    <2>2. MetadataName(m, c) = n
      BY <2>1 DEF MetadataName
    <2>3. Marked(m, c, n) = m
      <3>1. Marked(m, c, n) = [m EXCEPT ![h] = n]
        BY <1>5 DEF Marked
      <3> QED
        BY <3>1, <2>1, <1>2 DEF Marks
    <2> QED
      BY <2>1, <2>2, <2>3 DEF ResolveName, c
  <1> QED
    BY <1>4, <1>5

\* A registry made of a faithful table is not refused, changes no mark and is that table.
LEMMA CopyIs ==
  ASSUME NEW s, Good(s), DOMAIN s.es = {}, ~s.refused,
         NEW es \in Tables, Written(s.mark, es), Faithful(s.mark, es),
         NEW t, t = AddItems(s, es)
  PROVE  t.mark = s.mark /\ t.es = es /\ ~t.refused /\ t.tidy = s.tidy
  <1>1. PICK f : AddsItems(f, MaxName, s, es) /\ AddItems(s, es) = f[MaxName]
    BY AddItemsIs
  <1>2. MaxName \in Nat
    BY RegistryAssumption
  <1>3. s \in States /\ MarksOk(s.mark) /\ s.mark \in Marks
    BY DEF Good, MarksOk
  <1>4. DOMAIN es \subseteq EntryNames /\ es \in [DOMAIN es -> Callables]
    BY TableType
  <1> DEFINE Copied(u, k) == /\ u \in States /\ u.mark = s.mark /\ u.es = Upto(es, k)
                             /\ ~u.refused /\ u.tidy = s.tidy
             S == {k \in Nat : k <= MaxName => Copied(f[k], k)}
  <1>5. 0 \in S
    <2>1. f[0] = s
      BY <1>1, <1>2 DEF AddsItems
    <2>2. {y \in DOMAIN es : y <= 0} = {}
      BY <1>4 DEF EntryNames
    <2>3. s.es = Upto(es, 0)
      <3>1. s.es \in Tables
        BY <1>3 DEF States
      <3>2. s.es \in [DOMAIN s.es -> Callables]
        BY <3>1, TableType
      <3>3. DOMAIN Upto(es, 0) = {} /\ Upto(es, 0) = [x \in {} |-> es[x]]
        BY <2>2 DEF Upto
      <3>4. s.es = [x \in {} |-> es[x]]
        BY <3>2
      <3> QED
        BY <3>3, <3>4
    <2> QED
      BY <1>3, <2>1, <2>3
  <1>6. ASSUME NEW k \in Nat, k \in S
        PROVE  k + 1 \in S
    <2> SUFFICES ASSUME k + 1 <= MaxName
                 PROVE  Copied(f[k + 1], k + 1)
      BY <1>6
    <2>1. Copied(f[k], k)
      BY <1>2, <1>6
    <2>2. f[k + 1] = IF k + 1 \in DOMAIN es THEN Register(f[k], es[k + 1], None, FALSE)
                     ELSE f[k]
      BY <1>1, <1>2, AddsItemsStep
    <2>3. CASE k + 1 \in DOMAIN es
      <3>1. PICK c : c = es[k + 1]
        OBVIOUS
      <3>2. PICK u, v : u = f[k] /\ v = f[k + 1]
        OBVIOUS
      <3>3. c \in Callables /\ k + 1 \in EntryNames
        BY <1>4, <2>3, <3>1
      <3>4. /\ ResolveName(s.mark, c, None) = k + 1
            /\ Marked(s.mark, c, k + 1) = s.mark
            /\ s.mark[Holder[c]] \in {None, k + 1}
            /\ MetadataName(s.mark, c) = k + 1 \/ OwnName[c] = k + 1
        BY <1>3, <2>3, <3>1, FaithfulName
      <3>5. c \notin Positional
        BY <2>3, <3>1 DEF Written
      <3>6. v = Register(u, c, None, FALSE)
        BY <2>2, <2>3, <3>1, <3>2
      <3>7. /\ u \in States /\ u.mark = s.mark /\ u.es = Upto(es, k)
            /\ ~u.refused /\ u.tidy = s.tidy
        BY <2>1, <3>2
      <3>8. k + 1 \notin DOMAIN u.es
        BY <3>7 DEF Upto
      <3>9. Keeps(u, c, k + 1)
        BY <3>4, <3>7, <3>8 DEF Keeps
      <3>10. /\ v \in States /\ v.mark = s.mark /\ v.es = With(u.es, k + 1, c)
             /\ ~v.refused /\ v.tidy = s.tidy
        <4>1. k + 1 = ResolveName(u.mark, c, None) /\ Marked(u.mark, c, k + 1) = s.mark
          BY <3>4, <3>7
        <4>3. /\ v \in States /\ v.mark = Marked(u.mark, c, k + 1)
              /\ v.es = With(u.es, k + 1, c) /\ ~v.refused
              /\ v.tidy = u.tidy
          <5>1. PICK name, overwrite : name = None /\ overwrite = FALSE
            OBVIOUS
          <5>2. name \in EntryNames \cup {None} /\ overwrite \in BOOLEAN
                /\ v = Register(u, c, name, overwrite) /\ k + 1 = ResolveName(u.mark, c, name)
            BY <5>1, <3>6, <4>1
          <5> QED
            BY <3>3, <3>5, <3>7, <3>8, <3>9, <5>2, RegisterAccepted
        <4> QED
          BY <3>7, <4>1, <4>3
      <3>11. With(u.es, k + 1, c) = Upto(es, k + 1)
        <4>1. {y \in DOMAIN es : y <= k + 1} = {y \in DOMAIN es : y <= k} \cup {k + 1}
          BY <1>4, <2>3 DEF EntryNames
        <4> QED
          BY <4>1, <3>1, <3>7 DEF With, Upto
      <3> QED
        BY <3>2, <3>10, <3>11
    <2>4. CASE k + 1 \notin DOMAIN es
      <3>1. {y \in DOMAIN es : y <= k + 1} = {y \in DOMAIN es : y <= k}
        BY <1>4, <2>4 DEF EntryNames
      <3>2. Upto(es, k + 1) = Upto(es, k)
        BY <3>1 DEF Upto
      <3> QED
        BY <2>1, <2>2, <2>4, <3>2
    <2> QED
      BY <2>3, <2>4
  <1>7. Nat \subseteq S
    <2> HIDE DEF S
    <2> QED
      BY <1>5, <1>6, SetInduction
  <1>8. Copied(f[MaxName], MaxName)
    BY <1>2, <1>7
  <1>9. Upto(es, MaxName) = es
    <2>1. {y \in DOMAIN es : y <= MaxName} = DOMAIN es
      BY <1>2, <1>4 DEF EntryNames
    <2>2. Upto(es, MaxName) = [x \in DOMAIN es |-> es[x]]
      BY <2>1 DEF Upto
    <2> QED
      BY <2>2, <1>4
  <1> QED
    BY <1>1, <1>8, <1>9

\* A registered callable is found under the name it had, whatever else is marked.
LEMMA FaithfulFound ==
  ASSUME NEW m, MarksOk(m), NEW es \in Tables, Faithful(m, es), Written(m, es),
         NEW n \in DOMAIN es
  PROVE  Found(m, es, es[n]) = es[n]
  <1>1. MetadataName(m, es[n]) = n \/ ~(MetadataName(m, es[n]) \in DOMAIN es)
        \/ Holder[es[n]] \in Unmarkable
    <2>1. Holder[es[n]] \notin Unmarkable => m[Holder[es[n]]] = n /\ n # None
      BY TableType, NamesAreNotNone DEF Faithful
    <2> QED
      BY <2>1 DEF MetadataName
  <1>2. CASE Holder[es[n]] \in Unmarkable
    <2>1. m[Holder[es[n]]] = None /\ Base[Holder[es[n]]] = NoBase
      BY <1>2, RegistryAssumption DEF MarksOk
    <2>2. MetadataName(m, es[n]) = None
      BY <2>1 DEF MetadataName
    <2>3. MetadataName(m, es[n]) \notin DOMAIN es
      BY <2>2, TableType, NamesAreNotNone
    <2> QED
      BY <2>3 DEF Found
  <1> QED
    BY <1>1, <1>2 DEF Found
-----------------------------------------------------------------------------
\* A call to a registry begins with a record that can be registered in,
LEMMA StartGood ==
  ASSUME RegistryIInv, NEW r \in DOMAIN entries
  PROVE  Good(Start(entries[r])) /\ Start(entries[r]).es = entries[r]
         /\ Start(entries[r]).mark = mark /\ Start(entries[r]).tidy = tidy
  <1>1. mark \in Marks /\ entries[r] \in Tables /\ tidy \in BOOLEAN
    BY DEF RegistryIInv, RegistryTypeOk
  <1>2. MarksOk(mark) /\ Written(mark, entries[r])
    BY DEF RegistryIInv, TablesOk
  <1> QED
    BY <1>1, <1>2 DEF Good, Start, States

\* and so does the constructor, with no entries.
LEMMA StartEmpty ==
  ASSUME RegistryIInv
  PROVE  /\ Good(Start(<<>>)) /\ DOMAIN Start(<<>>).es = {} /\ ~Start(<<>>).refused
         /\ Start(<<>>).mark = mark /\ Start(<<>>).tidy = tidy
  <1>1. mark \in Marks /\ tidy \in BOOLEAN /\ MarksOk(mark)
    BY DEF RegistryIInv, RegistryTypeOk, TablesOk
  <1> DEFINE none == <<>>
  <1>2. DOMAIN none = {} /\ none \in [{} -> Callables]
    OBVIOUS
  <1>3. none \in Tables
    BY <1>2, TableIntro
  <1> HIDE DEF none
  <1>4. Written(mark, none)
    BY <1>2 DEF Written
  <1>5. Good(Start(none)) /\ Start(none).es = none /\ ~Start(none).refused
        /\ Start(none).mark = mark /\ Start(none).tidy = tidy
    BY <1>1, <1>3, <1>4 DEF Good, Start, States
  <1> QED
    BY <1>2, <1>5 DEF none

\* A call counts.
LEMMA CallCounts ==
  ASSUME RegistryTypeOk, NEW op \in Operations, NEW refused \in BOOLEAN, Call(op, refused)
  PROVE  /\ calls' \in 0..MaxCalls /\ calls' # calls
         /\ last' = [op |-> op, refused |-> refused]
         /\ last' \in [op : Operations, refused : BOOLEAN]
  BY RegistryAssumption DEF RegistryTypeOk, Call

\* Registration, of one callable or of several.
LEMMA RegisteredStep ==
  ASSUME RegistryIInv, NEW r \in DOMAIN entries, NEW t,
         Follows(Start(entries[r]), t), NEW op \in Operations, op # "make",
         Call(op, t.refused), Registered(r, t)
  PROVE  RegistryIInv'
  <1>1. PICK s : s = Start(entries[r])
    OBVIOUS
  <1>2. Good(s) /\ s.es = entries[r] /\ s.mark = mark /\ s.tidy = tidy
    BY <1>1, StartGood
  <1>3. Good(t) /\ t \in States /\ t.es \in Tables /\ t.mark \in Marks
        /\ t.tidy \in BOOLEAN /\ t.refused \in BOOLEAN
    BY DEF Follows, Good, States
  <1>4. mark' = t.mark /\ tidy' = t.tidy /\ entries' = [entries EXCEPT ![r] = t.es]
        /\ context' = context /\ made' = made /\ ran' = ran /\ source' = source
    BY DEF Registered
  <1>5. RegistryTypeOk
    BY DEF RegistryIInv
  <1>6. DOMAIN entries' = DOMAIN entries /\ entries' \in [DOMAIN entries -> Tables]
    BY <1>3, <1>4, <1>5 DEF RegistryTypeOk
  <1>7. \A x \in DOMAIN entries : entries'[x] = IF x = r THEN t.es ELSE entries[x]
    BY <1>4, <1>5 DEF RegistryTypeOk
  <1>8. RegistryTypeOk'
    <2>1. /\ calls' \in 0..MaxCalls
          /\ last' \in [op : Operations, refused : BOOLEAN]
      BY <1>3, <1>5, CallCounts
    <2> QED
      BY <1>3, <1>4, <1>5, <1>6, <2>1 DEF RegistryTypeOk
  <1>9. TablesOk'
    <2>1. MarksOk(mark') /\ Written(mark', t.es)
      BY <1>3, <1>4 DEF Good
    <2>2. ASSUME NEW x \in DOMAIN entries PROVE Written(mark', entries'[x])
      <3>1. Written(mark, entries[x]) /\ entries[x] \in Tables
        BY <1>5 DEF RegistryIInv, TablesOk, RegistryTypeOk
      <3>2. Written(t.mark, entries[x])
        BY <1>1, <1>2, <3>1 DEF Follows
      <3> QED
        BY <1>4, <1>7, <2>1, <3>2
    <2> QED
      BY <1>6, <2>1, <2>2 DEF TablesOk
  <1>10. ASSUME tidy' PROVE TidyOk'
    <2>1. t.tidy /\ tidy /\ Includes(t.es, entries[r])
      BY <1>1, <1>2, <1>4, <1>10 DEF Follows
    <2>2. TidyOk
      BY <2>1 DEF RegistryIInv
    <2>3. ASSUME NEW x \in DOMAIN entries
          PROVE  Faithful(mark', entries'[x]) /\ Includes(entries'[x], source'[x])
      <3>1. /\ Faithful(mark, entries[x]) /\ Includes(entries[x], source[x])
            /\ Faithful(mark, entries[r])
            /\ Written(mark, entries[x]) /\ entries[x] \in Tables
        BY <1>5, <2>2 DEF RegistryIInv, TablesOk, RegistryTypeOk, TidyOk
      <3>2. Faithful(t.mark, entries[x]) /\ Faithful(t.mark, t.es)
        BY <1>1, <1>2, <2>1, <3>1 DEF Follows
      <3>3. CASE x = r
        <4>1. Includes(t.es, source[x])
          BY <2>1, <3>1, <3>3 DEF Includes
        <4> QED
          BY <1>4, <1>7, <3>2, <3>3, <4>1
      <3>4. CASE x # r
        BY <1>4, <1>7, <3>1, <3>2, <3>4
      <3> QED
        BY <3>3, <3>4
    <2>4. ASSUME NEW m \in made
          PROVE  \E n \in DOMAIN entries'[m.registry] : entries'[m.registry][n] = m.entry
      <3>1. PICK x : x = m.registry
        OBVIOUS
      <3>2. x \in DOMAIN entries
        BY <3>1, <1>5 DEF RegistryTypeOk
      <3>3. PICK n \in DOMAIN entries[x] : entries[x][n] = m.entry
        BY <2>2, <3>1 DEF TidyOk
      <3>4. n \in DOMAIN entries'[x] /\ entries'[x][n] = entries[x][n]
        BY <1>7, <2>1, <3>2, <3>3 DEF Includes
      <3> QED
        BY <3>1, <3>3, <3>4
    <2>5. ran'.did = ran'.named /\ ~(last'.op = "make" /\ last'.refused)
      BY <1>3, <1>4, <1>5, <2>2, CallCounts DEF TidyOk
    <2> QED
      BY <1>4, <1>6, <2>3, <2>4, <2>5 DEF TidyOk
  <1> QED
    BY <1>8, <1>9, <1>10 DEF RegistryIInv

\* One callable is registered, under a name given or its own.
LEMMA RegisterOneStep ==
  ASSUME RegistryIInv, NEW r \in DOMAIN entries, NEW c \in Callables,
         NEW name \in EntryNames \cup {None}, NEW overwrite \in BOOLEAN,
         RegisterOne(r, c, name, overwrite)
  PROVE  RegistryIInv'
  <1>1. PICK t : t = Register(Start(entries[r]), c, name, overwrite)
    OBVIOUS
  <1>2. Call("register", t.refused) /\ Registered(r, t)
    BY <1>1 DEF RegisterOne
  <1>3. Follows(Start(entries[r]), t)
    BY <1>1, StartGood, RegisterFollows
  <1>4. "register" \in Operations /\ "register" # "make"
    BY DEF Operations
  <1> QED
    BY <1>2, <1>3, <1>4, RegisteredStep

\* Several are.
LEMMA AddEntriesStep ==
  ASSUME RegistryIInv, NEW r \in DOMAIN entries, NEW cs \in Seq(Callables),
         NEW overwrite \in BOOLEAN, AddEntries(r, cs, overwrite)
  PROVE  RegistryIInv'
  <1>1. PICK t : t = AddAll(Start(entries[r]), cs, overwrite)
    OBVIOUS
  <1>2. Call("add", t.refused) /\ Registered(r, t)
    BY <1>1 DEF AddEntries
  <1>3. Follows(Start(entries[r]), t)
    BY <1>1, StartGood, AddAllFollows
  <1>4. "add" \in Operations /\ "add" # "make"
    BY DEF Operations
  <1> QED
    BY <1>2, <1>3, <1>4, RegisteredStep

\* A registry made of another one: refused, it is not there; accepted, it is one more.
LEMMA MakeStep ==
  ASSUME RegistryIInv, NEW r \in Registries, NEW of \in DOMAIN entries, Make(r, of)
  PROVE  RegistryIInv'
  <1>1. PICK s, t : s = Start(<<>>) /\ t = AddItems(s, entries[of])
    OBVIOUS
  <1>2. /\ r \notin DOMAIN entries /\ Call("make", t.refused)
        /\ mark' = t.mark /\ tidy' = t.tidy
        /\ IF t.refused THEN entries' = entries /\ context' = context /\ source' = source
           ELSE /\ entries' = With(entries, r, t.es)
                /\ context' = With(context, r, context[of])
                /\ source' = With(source, r, entries[of])
        /\ made' = made /\ ran' = ran
    BY <1>1, Zenon DEF Make
  <1>3. /\ RegistryTypeOk
        /\ Good(s) /\ DOMAIN s.es = {} /\ ~s.refused /\ s.mark = mark /\ s.tidy = tidy
    BY <1>1, StartEmpty DEF RegistryIInv
  <1>4. entries[of] \in Tables /\ context[of] \in Contexts \cup {Missing}
    BY <1>3 DEF RegistryTypeOk
  <1>5. Follows(s, t)
    BY <1>1, <1>3, <1>4, AddItemsFollows
  <1>6. Good(t) /\ t \in States /\ t.es \in Tables /\ t.mark \in Marks
        /\ t.tidy \in BOOLEAN /\ t.refused \in BOOLEAN /\ MarksOk(t.mark)
        /\ Written(t.mark, t.es)
    BY <1>5 DEF Follows, Good, States
  <1>7. "make" \in Operations
    BY DEF Operations
  <1>8. /\ calls' \in 0..MaxCalls /\ last' = [op |-> "make", refused |-> t.refused]
        /\ last' \in [op : Operations, refused : BOOLEAN]
    BY <1>2, <1>3, <1>6, <1>7, CallCounts
  <1>9. ASSUME NEW x \in DOMAIN entries
        PROVE  entries[x] \in Tables /\ Written(mark, entries[x]) /\ Written(t.mark, entries[x])
    <2>1. entries[x] \in Tables /\ Written(mark, entries[x])
      BY <1>3 DEF RegistryIInv, TablesOk, RegistryTypeOk
    <2> QED
      BY <2>1, <1>3, <1>5 DEF Follows
  <1>10. CASE t.refused
    <2>1. RegistryTypeOk'
      BY <1>2, <1>3, <1>6, <1>8, <1>10 DEF RegistryTypeOk
    <2>2. TablesOk'
      BY <1>2, <1>6, <1>9, <1>10 DEF TablesOk
    <2>3. ~tidy'
      <3> SUFFICES ASSUME tidy' PROVE FALSE
        OBVIOUS
      <3>1. tidy
        BY <1>2, <1>3, <1>5 DEF Follows
      <3>2. Faithful(mark, entries[of]) /\ Written(mark, entries[of])
        BY <3>1, <1>9 DEF RegistryIInv, TidyOk
      <3>3. ~t.refused
        BY <1>1, <1>3, <1>4, <3>2, CopyIs
      <3> QED
        BY <3>3, <1>10
    <2> QED
      BY <2>1, <2>2, <2>3 DEF RegistryIInv
  <1>11. CASE ~t.refused
    <2>1. /\ DOMAIN entries' = DOMAIN entries \cup {r}
          /\ entries'[r] = t.es /\ \A x \in DOMAIN entries : entries'[x] = entries[x]
      BY <1>2, <1>11 DEF With
    <2>2. /\ source'[r] = entries[of]
          /\ \A x \in DOMAIN entries : source'[x] = source[x]
      BY <1>2, <1>3, <1>11 DEF With, RegistryTypeOk
    <2>3. RegistryTypeOk'
      <3>1. entries' \in [DOMAIN entries' -> Tables] /\ DOMAIN entries' \subseteq Registries
        BY <1>2, <1>3, <1>6, <1>11, <2>1 DEF With, RegistryTypeOk
      <3>2. source' \in [DOMAIN entries' -> Tables]
        BY <1>2, <1>3, <1>4, <1>11, <2>1 DEF With, RegistryTypeOk
      <3>3. context' \in [DOMAIN entries' -> Contexts \cup {Missing}]
        BY <1>2, <1>3, <1>4, <1>11, <2>1 DEF With, RegistryTypeOk
      <3>4. made' \subseteq [registry : DOMAIN entries', entry : Callables]
        BY <1>2, <1>3, <2>1 DEF RegistryTypeOk
      <3> QED
        BY <1>2, <1>3, <1>6, <1>8, <3>1, <3>2, <3>3, <3>4 DEF RegistryTypeOk
    <2>4. TablesOk'
      BY <1>2, <1>6, <1>9, <2>1 DEF TablesOk
    <2>5. ASSUME tidy' PROVE TidyOk'
      <3>1. t.tidy /\ tidy
        BY <1>2, <1>3, <1>5, <2>5 DEF Follows
      <3>2. TidyOk
        BY <3>1 DEF RegistryIInv
      <3>3. Faithful(mark, entries[of]) /\ Written(mark, entries[of])
        BY <3>2, <1>9 DEF TidyOk
      <3>4. t.mark = mark /\ t.es = entries[of]
        BY <1>1, <1>3, <1>4, <3>3, CopyIs
      <3>5. ASSUME NEW x \in DOMAIN entries'
            PROVE  Faithful(mark', entries'[x]) /\ Includes(entries'[x], source'[x])
        <4>1. CASE x = r
          <5>1. Includes(entries[of], entries[of])
            BY DEF Includes
          <5> QED
            BY <1>2, <2>1, <2>2, <3>3, <3>4, <4>1, <5>1
        <4>2. CASE x # r
          <5>1. x \in DOMAIN entries
            BY <2>1, <3>5, <4>2
          <5>2. Faithful(mark, entries[x]) /\ Includes(entries[x], source[x])
            BY <3>2, <5>1 DEF TidyOk
          <5> QED
            BY <1>2, <2>1, <2>2, <3>4, <5>1, <5>2
        <4> QED
          BY <4>1, <4>2
      <3>6. ASSUME NEW m \in made'
            PROVE  \E n \in DOMAIN entries'[m.registry] : entries'[m.registry][n] = m.entry
        <4>1. m \in made /\ m.registry \in DOMAIN entries
          BY <1>2, <1>3, <3>6 DEF RegistryTypeOk
        <4>2. \E n \in DOMAIN entries[m.registry] : entries[m.registry][n] = m.entry
          BY <3>2, <4>1 DEF TidyOk
        <4> QED
          BY <2>1, <4>1, <4>2
      <3>7. ran'.did = ran'.named /\ ~(last'.op = "make" /\ last'.refused)
        BY <1>2, <1>8, <1>11, <3>2 DEF TidyOk
      <3> QED
        BY <3>5, <3>6, <3>7 DEF TidyOk
    <2> QED
      BY <2>3, <2>4, <2>5 DEF RegistryIInv
  <1> QED
    BY <1>10, <1>11

\* The context changes no table.
LEMMA AddContextStep ==
  ASSUME RegistryIInv, NEW r \in DOMAIN entries, NEW v \in Contexts, AddContext(r, v)
  PROVE  RegistryIInv'
  <1>1. "context" \in Operations /\ "context" # "make" /\ FALSE \in BOOLEAN
    BY DEF Operations
  <1>2. /\ Call("context", FALSE) /\ context' = [context EXCEPT ![r] = v]
        /\ mark' = mark /\ entries' = entries /\ made' = made /\ ran' = ran
        /\ source' = source /\ tidy' = tidy
    BY DEF AddContext
  <1>3. RegistryTypeOk
    BY DEF RegistryIInv
  <1>4. /\ calls' \in 0..MaxCalls /\ last' = [op |-> "context", refused |-> FALSE]
        /\ last' \in [op : Operations, refused : BOOLEAN]
    BY <1>1, <1>2, <1>3, CallCounts
  <1>5. RegistryTypeOk'
    BY <1>2, <1>3, <1>4 DEF RegistryTypeOk
  <1>6. TablesOk'
    BY <1>2 DEF RegistryIInv, TablesOk
  <1>7. tidy' => TidyOk'
    <2>1. last'.op # "make"
      BY <1>1, <1>4
    <2> QED
      BY <1>2, <2>1 DEF RegistryIInv, TidyOk
  <1> QED
    BY <1>5, <1>6, <1>7 DEF RegistryIInv

\* A prepared call names an entry that is there.
LEMMA CreateStep ==
  ASSUME RegistryIInv, NEW r \in DOMAIN entries, NEW name \in EntryNames, Create(r, name)
  PROVE  RegistryIInv'
  <1>1. "create" \in Operations /\ "create" # "make" /\ FALSE \in BOOLEAN
    BY DEF Operations
  <1> DEFINE new == [registry |-> r, entry |-> entries[r][name]]
  <1>2. /\ name \in DOMAIN entries[r] /\ Call("create", FALSE) /\ made' = made \cup {new}
        /\ mark' = mark /\ entries' = entries /\ context' = context /\ ran' = ran
        /\ source' = source /\ tidy' = tidy
    BY DEF Create
  <1>3. RegistryTypeOk
    BY DEF RegistryIInv
  <1>4. /\ calls' \in 0..MaxCalls /\ last' = [op |-> "create", refused |-> FALSE]
        /\ last' \in [op : Operations, refused : BOOLEAN]
    BY <1>1, <1>2, <1>3, CallCounts
  <1>5. new \in [registry : DOMAIN entries, entry : Callables]
    <2>1. entries[r] \in Tables
      BY <1>3 DEF RegistryTypeOk
    <2>2. entries[r][name] \in Callables
      BY <1>2, <2>1, TableType
    <2> QED
      BY <2>2
  <1>6. RegistryTypeOk'
    BY <1>2, <1>3, <1>4, <1>5 DEF RegistryTypeOk
  <1>7. TablesOk'
    BY <1>2 DEF RegistryIInv, TablesOk
  <1>8. ASSUME tidy' PROVE TidyOk'
    <2>1. TidyOk
      BY <1>2, <1>8 DEF RegistryIInv
    <2>2. new.registry = r /\ new.entry = entries[r][name]
      OBVIOUS
    <2> HIDE DEF new
    <2>3. \A m \in made' : \E n \in DOMAIN entries[m.registry] :
            entries[m.registry][n] = m.entry
      BY <1>2, <2>1, <2>2 DEF TidyOk
    <2>4. last'.op # "make"
      BY <1>1, <1>4
    <2> QED
      BY <1>2, <2>1, <2>3, <2>4 DEF TidyOk
  <1> QED
    BY <1>6, <1>7, <1>8 DEF RegistryIInv

\* A call that reaches what it names as long as no name was taken.
LEMMA RunStep ==
  ASSUME RegistryIInv, NEW r \in DOMAIN entries, NEW named \in Callables,
         NEW did \in Callables \cup {Missing}, NEW ctx \in Contexts \cup {Missing},
         NEW refused \in BOOLEAN, Run(r, named, did, ctx, refused),
         tidy => did = named
  PROVE  RegistryIInv'
  <1>1. "run" \in Operations /\ "run" # "make"
    BY DEF Operations
  <1>2. PICK re \in BOOLEAN : re = (refused \/ did = Missing)
    OBVIOUS
  <1>3. /\ Call("run", re)
        /\ context' = IF did = Missing \/ ctx = Missing THEN context
                      ELSE [context EXCEPT ![r] = ctx]
        /\ ran' = IF refused /\ did # Missing THEN Nothing
                  ELSE [named |-> named, did |-> did, ctx |-> context'[r]]
        /\ mark' = mark /\ entries' = entries /\ made' = made
        /\ source' = source /\ tidy' = tidy
    BY <1>2 DEF Run
  <1>4. RegistryTypeOk
    BY DEF RegistryIInv
  <1>5. /\ calls' \in 0..MaxCalls /\ last' = [op |-> "run", refused |-> re]
        /\ last' \in [op : Operations, refused : BOOLEAN]
    BY <1>1, <1>2, <1>3, <1>4, CallCounts
  <1>6. context' \in [DOMAIN entries -> Contexts \cup {Missing}]
    BY <1>3, <1>4 DEF RegistryTypeOk
  <1>7. ran' \in [named : Callables \cup {Missing}, did : Callables \cup {Missing},
                  ctx : Contexts \cup {Missing}]
    <2>1. context'[r] \in Contexts \cup {Missing}
      BY <1>6
    <2> QED
      BY <1>3, <2>1 DEF Nothing
  <1>8. RegistryTypeOk'
    BY <1>3, <1>4, <1>5, <1>6, <1>7 DEF RegistryTypeOk
  <1>9. TablesOk'
    BY <1>3 DEF RegistryIInv, TablesOk
  <1>10. ASSUME tidy' PROVE TidyOk'
    <2>1. TidyOk /\ did = named
      BY <1>3, <1>10 DEF RegistryIInv
    <2>2. last'.op # "make"
      BY <1>1, <1>5
    <2>3. ran'.did = ran'.named
      BY <1>3, <2>1 DEF Nothing
    <2> QED
      BY <1>3, <2>1, <2>2, <2>3 DEF TidyOk
  <1> QED
    BY <1>8, <1>9, <1>10 DEF RegistryIInv

\* By name: the entry itself is called.
LEMMA RunNameStep ==
  ASSUME RegistryIInv, NEW r \in DOMAIN entries, NEW name \in EntryNames,
         NEW ctx \in Contexts \cup {Missing}, NEW refused \in BOOLEAN,
         RunName(r, name, ctx, refused)
  PROVE  RegistryIInv'
  <1>1. entries[r] \in Tables
    BY DEF RegistryIInv, RegistryTypeOk
  <1>2. name \in DOMAIN entries[r] /\ Run(r, entries[r][name], entries[r][name], ctx, refused)
    BY DEF RunName
  <1>3. entries[r][name] \in Callables
    BY <1>1, <1>2, TableType
  <1> QED
    BY <1>2, <1>3, RunStep

\* Prepared: the callable is looked up again when it is called.
LEMMA RunCreatedStep ==
  ASSUME RegistryIInv, NEW m \in made, NEW ctx \in Contexts \cup {Missing},
         NEW refused \in BOOLEAN, RunCreated(m, ctx, refused)
  PROVE  RegistryIInv'
  <1>1. PICK r, c : r = m.registry /\ c = m.entry
    OBVIOUS
  <1>2. r \in DOMAIN entries /\ c \in Callables /\ entries[r] \in Tables /\ mark \in Marks
    BY <1>1 DEF RegistryIInv, RegistryTypeOk
  <1>3. PICK did : did = Found(mark, entries[r], c)
    OBVIOUS
  <1>4. Run(r, c, did, ctx, refused)
    BY <1>1, <1>3 DEF RunCreated
  <1>5. did \in Callables \cup {Missing}
    BY <1>2, <1>3, TableType DEF Found
  <1>6. ASSUME tidy PROVE did = c
    <2>1. PICK n \in DOMAIN entries[r] : entries[r][n] = c
      BY <1>1, <1>6 DEF RegistryIInv, TidyOk
    <2>2. MarksOk(mark) /\ Written(mark, entries[r]) /\ Faithful(mark, entries[r])
      BY <1>2, <1>6 DEF RegistryIInv, TablesOk, TidyOk
    <2> QED
      BY <1>2, <1>3, <2>1, <2>2, FaithfulFound
  <1> QED
    BY <1>2, <1>4, <1>5, <1>6, RunStep
-----------------------------------------------------------------------------
\* The library is empty when it is imported.
LEMMA RegistryInitIInv ==
  ASSUME RegistryInit
  PROVE  RegistryIInv
  <1> DEFINE none == <<>>
  <1>1. DOMAIN none = {} /\ none \in [{} -> Callables]
    OBVIOUS
  <1>2. none \in Tables
    BY <1>1, TableIntro
  <1>3. /\ mark = [h \in Holders |-> None] /\ entries = [r \in {Library} |-> none]
        /\ context = [r \in {Library} |-> Missing] /\ made = {} /\ calls = 0
        /\ last = [op |-> "none", refused |-> FALSE] /\ ran = Nothing
        /\ source = entries /\ tidy = TRUE
    BY DEF RegistryInit
  <1> HIDE DEF none
  <1>4. mark \in Marks /\ calls \in 0..MaxCalls /\ Library \in Registries
    BY <1>3, RegistryAssumption DEF Marks
  <1>5. entries \in [{Library} -> Tables] /\ DOMAIN entries = {Library}
        /\ entries[Library] = none
    BY <1>2, <1>3
  <1>6. context \in [{Library} -> Contexts \cup {Missing}]
    BY <1>3
  <1>7. last \in [op : Operations, refused : BOOLEAN] /\ last.op # "make"
    BY <1>3 DEF Operations
  <1>8. ran \in [named : Callables \cup {Missing}, did : Callables \cup {Missing},
                 ctx : Contexts \cup {Missing}]
        /\ ran.did = ran.named
    BY <1>3 DEF Nothing
  <1>9. RegistryTypeOk
    BY <1>3, <1>4, <1>5, <1>6, <1>7, <1>8 DEF RegistryTypeOk
  <1>10. TablesOk
    <2>1. MarksOk(mark)
      BY <1>3, <1>4, RegistryAssumption DEF MarksOk
    <2> QED
      BY <1>1, <1>5, <2>1 DEF TablesOk, Written
  <1>11. TidyOk
    BY <1>1, <1>3, <1>5, <1>7, <1>8 DEF TidyOk, Faithful, Includes
  <1> QED
    BY <1>9, <1>10, <1>11 DEF RegistryIInv

\* Every step preserves the invariant of the registries.
LEMMA RegistryStepIInv ==
  ASSUME RegistryIInv, [RegistryNext]_registryVars
  PROVE  RegistryIInv'
  <1>1. ASSUME NEW r \in DOMAIN entries, NEW c \in Callables,
               NEW name \in EntryNames \cup {None}, NEW overwrite \in BOOLEAN,
               RegisterOne(r, c, name, overwrite)
        PROVE  RegistryIInv'
    BY <1>1, RegisterOneStep
  <1>2. ASSUME NEW r \in DOMAIN entries, NEW c \in Callables, NEW d \in Callables,
               NEW overwrite \in BOOLEAN, AddEntries(r, <<c, d>>, overwrite)
        PROVE  RegistryIInv'
    <2>1. <<c, d>> \in Seq(Callables)
      OBVIOUS
    <2> QED
      BY <1>2, <2>1, AddEntriesStep
  <1>3. ASSUME NEW r \in Registries, NEW of \in DOMAIN entries, Make(r, of)
        PROVE  RegistryIInv'
    BY <1>3, MakeStep
  <1>4. ASSUME NEW r \in DOMAIN entries, NEW v \in Contexts, AddContext(r, v)
        PROVE  RegistryIInv'
    BY <1>4, AddContextStep
  <1>5. ASSUME NEW r \in DOMAIN entries, NEW name \in EntryNames, Create(r, name)
        PROVE  RegistryIInv'
    BY <1>5, CreateStep
  <1>6. ASSUME NEW r \in DOMAIN entries, NEW name \in EntryNames,
               NEW v \in Contexts \cup {Missing}, NEW refused \in BOOLEAN,
               RunName(r, name, v, refused)
        PROVE  RegistryIInv'
    BY <1>6, RunNameStep
  <1>7. ASSUME NEW m \in made, NEW v \in Contexts \cup {Missing}, NEW refused \in BOOLEAN,
               RunCreated(m, v, refused)
        PROVE  RegistryIInv'
    BY <1>7, RunCreatedStep
  <1>8. CASE UNCHANGED registryVars
    BY <1>8 DEF registryVars, RegistryIInv, RegistryTypeOk, TablesOk, TidyOk
  <1>9. CASE Done
    BY <1>8, <1>9 DEF Done
  <1> QED
    BY <1>1, <1>2, <1>3, <1>4, <1>5, <1>6, <1>7, <1>8, <1>9, Zenon DEF RegistryNext

\* So it always holds.
LEMMA RegistrySpecIInv == RegistrySpec => []RegistryIInv
  <1>1. RegistryInit => RegistryIInv
    BY RegistryInitIInv
  <1>2. RegistryIInv /\ [RegistryNext]_registryVars => RegistryIInv'
    BY RegistryStepIInv
  <1> QED
    BY <1>1, <1>2, PTL DEF RegistrySpec
-----------------------------------------------------------------------------
\* The tables, the names written on callables and the prepared calls keep their types.
THEOREM RegistriesTyped == RegistrySpec => []RegistryTypeOk
  <1>1. RegistryIInv => RegistryTypeOk
    BY DEF RegistryIInv
  <1> QED
    BY <1>1, RegistrySpecIInv, PTL

\* As long as no registration took a name from a callable, a registry made of another one
\* is never refused and has all its entries, and a prepared call reaches its callable.
THEOREM CallsReach == RegistrySpec => []CallsReachWhatTheyName
  <1>1. ASSUME RegistryIInv PROVE CallsReachWhatTheyName
    <2> SUFFICES ASSUME tidy
                 PROVE  /\ ~(last.op = "make" /\ last.refused)
                        /\ \A r \in DOMAIN source : \A n \in DOMAIN source[r] :
                             n \in DOMAIN entries[r] /\ entries[r][n] = source[r][n]
                        /\ ran.did = ran.named
      BY DEF CallsReachWhatTheyName
    <2>1. TidyOk /\ DOMAIN source = DOMAIN entries
      BY <1>1 DEF RegistryIInv, RegistryTypeOk
    <2> QED
      BY <2>1 DEF TidyOk, Includes
  <1> QED
    BY <1>1, RegistrySpecIInv, PTL

\* What a refusal may have written changes no name that a registered callable has.
LEMMA RefusedFindsTheSame ==
  ASSUME NEW m \in Marks, NEW c \in Callables, c \in Positional, NEW n \in EntryNames,
         NEW es \in Tables, Written(m, es), NEW x \in DOMAIN es
  PROVE  Found(Marked(m, c, n), es, es[x]) = Found(m, es, es[x])
  <1>1. es[x] \in Callables
    BY TableType
  <1>2. es[x] \notin Positional /\ (Holder[es[x]] \in Unmarkable \/ m[Holder[es[x]]] # None)
    BY DEF Written
  <1>3. Holder[es[x]] # Holder[c] /\ Holder[es[x]] \in Holders
    BY <1>1, <1>2, PositionalApart, HolderType
  <1>4. Marked(m, c, n)[Holder[es[x]]] = m[Holder[es[x]]]
    BY <1>3, MarkedElsewhere
  <1>5. MetadataName(Marked(m, c, n), es[x]) = MetadataName(m, es[x])
    <2>1. CASE Holder[es[x]] \in Unmarkable
      <3>1. Base[Holder[es[x]]] = NoBase
        BY <2>1, RegistryAssumption
      <3> QED
        BY <3>1, <1>4 DEF MetadataName
    <2>2. CASE m[Holder[es[x]]] # None
      BY <2>2, <1>4 DEF MetadataName
    <2> QED
      BY <2>1, <2>2, <1>2
  <1> QED
    BY <1>5 DEF Found

\* A refused registration leaves every table, and every registered callable where it was.
THEOREM RefusalsAreHarmless == RegistrySpec => RefusedChangesNothing
  <1> DEFINE Harmless ==
        calls' # calls /\ last'.op = "register" /\ last'.refused =>
          /\ entries' = entries
          /\ \A r \in DOMAIN entries : \A n \in DOMAIN entries[r] :
               Found(mark', entries[r], entries[r][n]) = Found(mark, entries[r], entries[r][n])
  <1>1. ASSUME RegistryIInv, [RegistryNext]_registryVars PROVE Harmless
    <2> SUFFICES ASSUME calls' # calls, last'.op = "register", last'.refused
                 PROVE  /\ entries' = entries
                        /\ \A r \in DOMAIN entries : \A n \in DOMAIN entries[r] :
                             Found(mark', entries[r], entries[r][n])
                               = Found(mark, entries[r], entries[r][n])
      BY Zenon
    <2>1. PICK r \in DOMAIN entries, c \in Callables, name \in EntryNames \cup {None},
               overwrite \in BOOLEAN : RegisterOne(r, c, name, overwrite)
      <3>1. ~(UNCHANGED registryVars) /\ ~Done
        BY DEF registryVars, Done
      <3>2. \A s, of : ~Make(s, of)
        BY DEF Make, Call
      <3>3. \A s, cs, overwrite : ~AddEntries(s, cs, overwrite)
        BY DEF AddEntries, Call
      <3>4. \A s, v : ~AddContext(s, v) /\ ~Create(s, v)
        BY DEF AddContext, Create, Call
      <3>5. \A s, named, did, ctx, refused : ~Run(s, named, did, ctx, refused)
        BY DEF Run, Call
      <3>6. \A s, v, ctx, refused : ~RunName(s, v, ctx, refused)
        BY <3>5, Zenon DEF RunName
      <3>7. \A m, ctx, refused : ~RunCreated(m, ctx, refused)
        BY <3>5, Zenon DEF RunCreated
      <3> QED
        BY <1>1, <3>1, <3>2, <3>3, <3>4, <3>6, <3>7, Zenon DEF RegistryNext
    <2>2. PICK s : s = Start(entries[r])
      OBVIOUS
    <2>3. PICK n : n = ResolveName(s.mark, c, name)
      OBVIOUS
    <2>4. PICK t : t = Register(s, c, name, overwrite)
      OBVIOUS
    <2>5. Call("register", t.refused) /\ Registered(r, t)
      BY <2>1, <2>2, <2>4 DEF RegisterOne
    <2>6. s \in States /\ s.es = entries[r] /\ s.mark = mark
      BY <1>1, <2>2, StartGood DEF Good
    <2>7. t.refused
      BY <2>5 DEF Call
    <2>8. mark' = t.mark /\ entries' = [entries EXCEPT ![r] = t.es]
      BY <2>5 DEF Registered
    <2>9. n \in EntryNames /\ t.es = s.es
          /\ (t.mark = s.mark \/ (c \in Positional /\ t.mark = Marked(s.mark, c, n)))
      BY <2>1, <2>3, <2>4, <2>6, <2>7, RegisterCases
    <2>10. entries' = entries
      BY <1>1, <2>6, <2>8, <2>9 DEF RegistryIInv, RegistryTypeOk
    <2>11. ASSUME NEW q \in DOMAIN entries, NEW x \in DOMAIN entries[q]
           PROVE  Found(mark', entries[q], entries[q][x]) = Found(mark, entries[q], entries[q][x])
      <3>1. mark \in Marks /\ entries[q] \in Tables /\ Written(mark, entries[q])
        BY <1>1, <2>11 DEF RegistryIInv, RegistryTypeOk, TablesOk
      <3>2. CASE t.mark = s.mark
        BY <2>6, <2>8, <3>2
      <3>3. CASE c \in Positional /\ t.mark = Marked(s.mark, c, n)
        BY <2>1, <2>6, <2>8, <2>9, <2>11, <3>1, <3>3, RefusedFindsTheSame
      <3> QED
        BY <2>9, <3>2, <3>3
    <2> QED
      BY <2>10, <2>11
  <1>2. RegistryIInv /\ [RegistryNext]_registryVars => [Harmless]_registryVars
    BY <1>1
  <1> QED
    BY <1>2, RegistrySpecIInv, PTL DEF RegistrySpec, RefusedChangesNothing
=============================================================================
