------------------------ MODULE BrowserRepair_proofs ------------------------
(***************************************************************************)
(* Safety of BrowserRepair for every set of documents, every conversion of  *)
(* the agent's actions and every number of repairs.                         *)
(***************************************************************************)
EXTENDS BrowserRepair, SequenceLemmas, TLAPS

\* The workflow being executed is the given one, or the last patch.
CurrentOk ==
  /\ attempt = Len(repairs) /\ attempt <= MaxRepair
  /\ current = IF attempt = 0 THEN workflow ELSE gen_workflow(repairs[attempt])

Executing == pc \in {"run", "period", "debug"}

\* Where each place of the program leaves the cursor.
PlaceOk ==
  /\ pc = "route" => attempt = 0
  /\ pc \notin {"route", "done"} => Valid(workflow)
  /\ pc \in {"route", "check"} => action = 1 /\ partial = <<>>
  /\ Executing => passed \in DOMAIN CurrentStates /\ action <= Len(Script) + 1
  /\ pc \in {"period", "debug"} => action <= Len(Script)
  /\ pc = "debug" => attempt < MaxRepair
  /\ pc # "done" => returned = Running

\* The entries of done that belong to the running round are its first steps.
Base == Len(done) - (action - 1)
RoundOk ==
  /\ pc # "done" => Base \in Nat /\ Len(partial) = action - 1
  /\ pc # "done" => \A i \in 1..Base : done[i].round < attempt
  /\ Executing => \A k \in 1..(action - 1) :
       /\ partial[k] = Script[k]
       /\ done[Base + k] = [round |-> attempt, step |-> k, action |-> Script[k]]

\* completed_actions lags behind what was executed by the running round.
RecordOk ==
  /\ pc \in {"route", "check", "run", "period"} => Len(completed) = Base
  /\ pc = "debug" => Len(completed) = Len(done)
  /\ pc # "done" => \A i \in DOMAIN completed : completed[i] = done[i].action

SavedOk ==
  (\A doc \in Inputs : "states" \in DOMAIN doc) => FirstStateHoldsWhatRan

\* A list is returned at the end of the script in hand, or when nothing matched.
LastRoundFinished ==
  returned.kind = "list" =>
    \/ done = <<>> /\ Named("always") = {} /\ attempt = 0
    \/ /\ attempt # 0 => Script = repairs[attempt]
       /\ action = Len(Script) + 1
       /\ Len(done) >= Len(Script)
       /\ \A i \in DOMAIN Script : done[Len(done) - Len(Script) + i] =
            [round |-> attempt, step |-> i, action |-> Script[i]]

IInv ==
  /\ TypeOk
  /\ CurrentOk
  /\ PlaceOk
  /\ RoundOk
  /\ RecordOk
  /\ ContinuationOnly
  /\ RepairBudget
  /\ FailureNamesTheNextAction
  /\ LastRoundFinished
  /\ SavedOk
-----------------------------------------------------------------------------
\* What is recorded of an executed action has a round and a step.
LEMMA Entries ==
  ASSUME IInv, NEW i \in 1..Len(done)
  PROVE  /\ done[i] \in Entry
         /\ done[i].round \in Nat /\ done[i].step \in Nat \ {0}
         /\ done[i].action \in Actions
  <1>1. done[i] \in Entry
    BY DEF IInv, TypeOk
  <1> QED
    BY <1>1 DEF Entry

\* The workflow being executed is well-formed, and so is the script of its state.
LEMMA Shapes ==
  ASSUME IInv
  PROVE  /\ Normalize(workflow) \in Workflow
         /\ CurrentStates \in Seq(State)
         /\ Executing => Script \in Seq(Actions)
  <1>1. Normalize(workflow) \in Workflow
    BY RepairAssumption DEF IInv, TypeOk
  <1>2. CurrentStates \in Seq(State)
    BY DEF IInv, TypeOk, CurrentStates, Workflow
  <1>3. Executing => Script \in Seq(Actions)
    <2>1. Executing => CurrentStates[passed] \in State
      BY <1>2 DEF IInv, PlaceOk
    <2> QED
      BY <2>1 DEF Script, State
  <1> QED
    BY <1>1, <1>2, <1>3

\* The initial state satisfies the invariant.
THEOREM InitIInv == Init => IInv
  <1> SUFFICES ASSUME Init PROVE IInv
    OBVIOUS
  <1>1. TypeOk
    BY RepairAssumption DEF Init, TypeOk, Running, Kinds
  <1>2. CurrentOk /\ PlaceOk
    BY RepairAssumption DEF Init, CurrentOk, PlaceOk, Executing
  <1>3. RoundOk /\ RecordOk
    BY DEF Init, RoundOk, RecordOk, Base, Executing
  <1>4. ContinuationOnly
    BY DEF Init, ContinuationOnly
  <1>5. RepairBudget /\ FailureNamesTheNextAction /\ LastRoundFinished /\ SavedOk
    BY RepairAssumption DEF Init, Running, RepairBudget, FailureNamesTheNextAction,
       LastRoundFinished, SavedOk, FirstStateHoldsWhatRan
  <1> QED
    BY <1>1, <1>2, <1>3, <1>4, <1>5 DEF IInv
-----------------------------------------------------------------------------
\* An exception leaves everything but the report as it is.
LEMMA AbortStep ==
  ASSUME IInv, Abort, UNCHANGED <<workflow, current, attempt, cursor, records, agent>>
  PROVE  IInv'
  <1> USE DEF cursor, records, agent
  <1>1. pc' = "done" /\ returned'.kind = "exception"
    BY DEF Abort, Running
  <1>2. TypeOk'
    BY <1>1 DEF IInv, TypeOk, Abort, Running, Kinds
  <1>3. CurrentOk'
    BY DEF IInv, CurrentOk
  <1>4. PlaceOk' /\ RoundOk' /\ RecordOk'
    BY <1>1 DEF PlaceOk, RoundOk, RecordOk, Executing
  <1>5. ContinuationOnly'
    BY DEF IInv, ContinuationOnly
  <1>6. RepairBudget' /\ FailureNamesTheNextAction' /\ LastRoundFinished' /\ SavedOk'
    BY <1>1 DEF IInv, RepairBudget, FailureNamesTheNextAction, LastRoundFinished,
       SavedOk, FirstStateHoldsWhatRan
  <1> QED
    BY <1>2, <1>3, <1>4, <1>5, <1>6 DEF IInv

\* Before the end there is no report to be wrong about.
LEMMA NoReport ==
  ASSUME returned' = returned, returned = Running
  PROVE  /\ FailureNamesTheNextAction' /\ LastRoundFinished' /\ SavedOk'
         /\ returned'.kind = "running"
  BY DEF Running, FailureNamesTheNextAction, LastRoundFinished, SavedOk,
         FirstStateHoldsWhatRan

\* route_workflow
LEMMA RouteStep ==
  ASSUME IInv, Route
  PROVE  IInv'
  <1> USE DEF cursor, records, agent
  <1>1. CASE Abort
    BY <1>1, AbortStep DEF Route
  <1>2. CASE Valid(workflow) /\ pc' = "check" /\ UNCHANGED returned
    <2>1. pc = "route" /\ UNCHANGED <<workflow, current, attempt, cursor, records, agent>>
      BY DEF Route
    <2>2. TypeOk'
      BY <1>2, <2>1 DEF IInv, TypeOk
    <2>3. CurrentOk' /\ PlaceOk'
      BY <1>2, <2>1 DEF IInv, CurrentOk, PlaceOk, Executing, Valid, Running
    <2>4. RoundOk' /\ RecordOk'
      BY <1>2, <2>1 DEF IInv, RoundOk, RecordOk, Executing, Base
    <2>5. ContinuationOnly'
      BY <2>1 DEF IInv, ContinuationOnly
    <2>6. RepairBudget'
      BY <1>2, <2>1 DEF IInv, RepairBudget
    <2> QED
      BY <1>2, <2>1, <2>2, <2>3, <2>4, <2>5, <2>6, NoReport DEF IInv, PlaceOk
  <1> QED
    BY <1>1, <1>2 DEF Route

\* runner.validate or a check raises.
LEMMA CheckRaisesStep ==
  ASSUME IInv, CheckRaises
  PROVE  IInv'
  BY AbortStep DEF CheckRaises

\* Once patched, a workflow has a single state that always matches.
LEMMA PatchedAlwaysMatches ==
  ASSUME IInv, attempt # 0
  PROVE  Named("always") # {}
  <1>1. current = gen_workflow(repairs[attempt])
    BY DEF IInv, CurrentOk
  <1>2. CurrentStates = <<[checks |-> "always", actions |-> repairs[attempt]]>>
    BY <1>1 DEF CurrentStates, Normalize, gen_workflow
  <1>3. 1 \in Named("always")
    BY <1>2 DEF Named
  <1> QED
    BY <1>3

\* With nothing executed in the running round, every completed action is in done.
LEMMA SavedAtReturn ==
  ASSUME IInv, pc \notin {"route", "done"},
         NEW actions \in Seq(Actions),
         Len(actions) = Len(done'), done' \in Seq(Entry),
         \A i \in DOMAIN actions : actions[i] = done'[i].action,
         workflow' = workflow, returned'.saved = FinalWorkflow(workflow, actions)
  PROVE  SavedOk'
  <1> SUFFICES ASSUME \A doc \in Inputs : "states" \in DOMAIN doc
               PROVE  FirstStateHoldsWhatRan'
    BY DEF SavedOk
  <1> DEFINE saved == returned'.saved
  <1>1. "states" \in DOMAIN workflow /\ Normalize(workflow) = workflow
    BY DEF IInv, TypeOk, Normalize
  <1>2. workflow \in Workflow /\ workflow.states # <<>>
    BY <1>1, Shapes DEF IInv, PlaceOk, Valid
  <1>3. workflow.states \in Seq(State) /\ 1 \in DOMAIN workflow.states
        /\ workflow.states[1] \in State
    BY <1>2 DEF Workflow
  <1>4. saved = [workflow EXCEPT !.states[1].actions = actions]
    BY <1>1 DEF FinalWorkflow
  <1>5. /\ "states" \in DOMAIN saved /\ Normalize(saved) = saved
        /\ saved.states = [workflow.states EXCEPT ![1].actions = actions]
        /\ saved.parameters = workflow.parameters
    BY <1>2, <1>4 DEF Workflow, Normalize
  <1>6. Len(saved.states) = Len(workflow.states)
    BY <1>3, <1>5
  <1>7. saved.states[1] = [workflow.states[1] EXCEPT !.actions = actions]
    BY <1>3, <1>5
  <1>8. saved.states[1].actions = actions /\ saved.states[1].checks = workflow.states[1].checks
    BY <1>3, <1>7 DEF State
  <1>9. \A s \in DOMAIN workflow.states : s # 1 => saved.states[s] = workflow.states[s]
    BY <1>3, <1>5
  <1> QED
    BY <1>1, <1>5, <1>6, <1>8, <1>9 DEF FirstStateHoldsWhatRan
-----------------------------------------------------------------------------
\* controller.check
LEMMA CheckStep ==
  ASSUME IInv, Check
  PROVE  IInv'
  <1> USE DEF cursor, records, agent
  <1>0. /\ pc = "check" /\ action = 1 /\ partial = <<>> /\ returned = Running
        /\ UNCHANGED <<workflow, current, attempt, action, partial, done, records, agent>>
    BY DEF Check, IInv, PlaceOk
  <1>1. PICK matching \in SUBSET (Named("always") \cup Named("gated")) :
          /\ Named("always") \subseteq matching
          /\ \/ /\ Cardinality(matching) > 1
                /\ Abort
                /\ UNCHANGED passed
             \/ /\ matching = {}
                /\ Finish(result, completed)
                /\ UNCHANGED passed
             \/ /\ \E s \in matching : matching = {s} /\ passed' = s
                /\ pc' = "run"
                /\ UNCHANGED returned
    BY DEF Check
  <1>2. ContinuationOnly'
    BY <1>0 DEF IInv, ContinuationOnly
  <1>3. CurrentOk'
    BY <1>0 DEF IInv, CurrentOk
  <1>4. CASE Abort /\ UNCHANGED passed
    BY <1>0, <1>4, AbortStep
  <1>5. CASE matching = {} /\ Finish(result, completed) /\ UNCHANGED passed
    <2>1. attempt = 0 /\ Named("always") = {}
      BY <1>1, <1>5, PatchedAlwaysMatches
    <2>2. Len(done) = Base /\ Len(done) = Len(completed)
      BY <1>0 DEF IInv, RoundOk, RecordOk, Base, TypeOk
    <2>3. done = <<>>
      <3>1. \A i \in 1..Len(done) : done[i].round < 0 /\ done[i].round \in Nat
        <4>1. \A i \in 1..Len(done) : done[i].round < attempt
          BY <1>0, <2>2 DEF IInv, RoundOk
        <4>2. \A i \in 1..Len(done) : done[i].round \in Nat
          BY Entries
        <4> QED
          BY <2>1, <4>1, <4>2
      <3>2. Len(done) = 0
        <4>1. Len(done) \in Nat
          BY DEF IInv, TypeOk
        <4>2. Len(done) # 0 => 1 \in 1..Len(done)
          BY <4>1
        <4> QED
          BY <3>1, <4>2
      <3> QED
        BY <3>2 DEF IInv, TypeOk
    <2>4. /\ pc' = "done" /\ returned'.kind = "list" /\ returned'.results = result
          /\ returned'.kept = <<>> /\ returned'.failed = <<>> /\ returned'.attempts = 0
          /\ returned'.saved = FinalWorkflow(workflow, completed)
      BY <1>5 DEF Finish, Running
    <2>5. TypeOk'
      BY <1>0, <1>5, <2>4 DEF IInv, TypeOk, Kinds
    <2>6. PlaceOk' /\ RoundOk' /\ RecordOk'
      BY <2>4 DEF PlaceOk, RoundOk, RecordOk, Executing
    <2>7. RepairBudget' /\ FailureNamesTheNextAction'
      BY <1>0, <2>4 DEF IInv, RepairBudget, FailureNamesTheNextAction
    <2>8. LastRoundFinished'
      BY <1>0, <2>1, <2>3 DEF LastRoundFinished, Named, CurrentStates
    <2>9. SavedOk'
      <3>1. \A i \in DOMAIN completed : completed[i] = done'[i].action
        BY <1>0 DEF IInv, RecordOk
      <3> QED
        BY <1>0, <2>2, <2>4, <3>1, SavedAtReturn DEF IInv, TypeOk
    <2> QED
      BY <1>2, <1>3, <2>5, <2>6, <2>7, <2>8, <2>9 DEF IInv
  <1>6. CASE /\ \E s \in matching : matching = {s} /\ passed' = s
             /\ pc' = "run"
             /\ UNCHANGED returned
    <2>1. passed' \in DOMAIN CurrentStates /\ CurrentStates' = CurrentStates
      BY <1>0, <1>6 DEF Named, CurrentStates
    <2>2. CurrentStates \in Seq(State)
      BY Shapes
    <2>3. Script' \in Seq(Actions)
      <3>1. CurrentStates[passed'] \in State
        BY <2>1, <2>2
      <3> QED
        BY <2>1, <3>1 DEF Script, State
    <2>4. TypeOk'
      BY <1>0, <1>6, <2>1, <2>2 DEF IInv, TypeOk
    <2>5. PlaceOk'
      <3>1. Valid(workflow)
        BY <1>0 DEF IInv, PlaceOk
      <3>2. 1 <= Len(Script') + 1
        BY <2>3
      <3> QED
        BY <1>0, <1>6, <2>1, <3>1, <3>2 DEF PlaceOk, Valid, Running
    <2>6. RoundOk' /\ RecordOk'
      BY <1>0, <1>6 DEF IInv, RoundOk, RecordOk, Executing, Base
    <2>7. RepairBudget'
      BY <1>0, <1>6 DEF IInv, RepairBudget
    <2> QED
      BY <1>0, <1>2, <1>3, <1>6, <2>4, <2>5, <2>6, <2>7, NoReport DEF IInv
  <1> QED
    BY <1>1, <1>4, <1>5, <1>6
-----------------------------------------------------------------------------
\* The entries of the running round, and the witness of its state.
LEMMA FirstRound ==
  ASSUME IInv, Executing, attempt = 0
  PROVE  /\ Len(done) = action - 1
         /\ \A i \in 1..Len(done) : done[i] = [round |-> 0, step |-> i, action |-> Script[i]]
         /\ CurrentStates = Normalize(workflow).states
  <1>1. Base \in Nat /\ Len(done) \in Nat
    BY DEF IInv, RoundOk, TypeOk, PlaceOk, Executing
  <1>2. Base = 0
    <2>1. \A i \in 1..Base : done[i].round < 0
      BY DEF IInv, RoundOk, Executing
    <2>2. Base <= Len(done)
      BY <1>1 DEF Base, IInv, TypeOk
    <2>3. \A i \in 1..Base : done[i].round \in Nat
      BY <1>1, <2>2, Entries
    <2>4. Base # 0 => 1 \in 1..Base
      BY <1>1
    <2> QED
      BY <2>1, <2>3, <2>4
  <1>3. Len(done) = action - 1
    BY <1>1, <1>2 DEF Base, IInv, TypeOk
  <1>4. \A k \in 1..(action - 1) :
          done[Base + k] = [round |-> attempt, step |-> k, action |-> Script[k]]
    BY DEF IInv, RoundOk, Executing
  <1>5. \A i \in 1..Len(done) : done[i] = [round |-> 0, step |-> i, action |-> Script[i]]
    <2> SUFFICES ASSUME NEW i \in 1..Len(done)
                 PROVE  done[i] = [round |-> 0, step |-> i, action |-> Script[i]]
      OBVIOUS
    <2>1. i \in 1..(action - 1) /\ Base + i = i
      BY <1>2, <1>3
    <2> QED
      BY <1>4, <2>1
  <1>6. CurrentStates = Normalize(workflow).states
    BY DEF IInv, CurrentOk, CurrentStates
  <1> QED
    BY <1>3, <1>5, <1>6

\* After a repair, the script is that of the last patched workflow.
LEMMA LaterRound ==
  ASSUME IInv, Executing, attempt # 0
  PROVE  Script = repairs[attempt]
  <1>1. current = gen_workflow(repairs[attempt])
    BY DEF IInv, CurrentOk
  <1>2. CurrentStates = <<[checks |-> "always", actions |-> repairs[attempt]]>>
    BY <1>1 DEF CurrentStates, Normalize, gen_workflow
  <1>3. passed = 1
    BY <1>2 DEF IInv, PlaceOk, Executing
  <1> QED
    BY <1>2, <1>3 DEF Script

\* What the executor does next comes after what it did last.
LEMMA PerformOrder ==
  ASSUME IInv, Executing, Len(done) # 0
  PROVE  /\ done[Len(done)].round <= attempt
         /\ action = 1 => done[Len(done)].round < attempt
         /\ action # 1 => done[Len(done)].round = attempt
                          /\ done[Len(done)].step + 1 = action
  <1> DEFINE n == Len(done)
  <1>1. n \in Nat /\ n # 0 /\ action \in Nat \ {0} /\ attempt \in Nat /\ Base \in Nat
        /\ done[n].round \in Nat
    BY Entries DEF IInv, TypeOk, RoundOk, Executing
  <1>2. CASE action = 1
    <2>1. n \in 1..Base
      BY <1>1, <1>2 DEF Base
    <2> QED
      BY <1>1, <1>2, <2>1 DEF IInv, RoundOk, Executing
  <1>3. CASE action # 1
    <2>1. action - 1 \in 1..(action - 1) /\ Base + (action - 1) = n
      BY <1>1, <1>3 DEF Base
    <2>2. done[n] = [round |-> attempt, step |-> action - 1, action |-> Script[action - 1]]
      BY <2>1 DEF IInv, RoundOk
    <2> QED
      BY <1>1, <1>3, <2>2
  <1> QED
    BY <1>2, <1>3

\* The action returned.
LEMMA PerformStep ==
  ASSUME IInv, Perform
  PROVE  IInv'
  <1> USE DEF cursor, records, agent
  <1> DEFINE n == Len(done)
             e == [round |-> attempt, step |-> action, action |-> Script[action]]
  <1>1. /\ pc = "run" /\ action <= Len(Script)
        /\ partial' = Append(partial, Script[action])
        /\ done' = Append(done, e) /\ action' = action + 1
        /\ pc' = IF action < Len(Script) THEN "period" ELSE "run"
        /\ UNCHANGED <<workflow, current, attempt, passed, records, agent, returned>>
    BY DEF Perform
  <1>2. /\ Executing /\ Script \in Seq(Actions) /\ action \in Nat \ {0} /\ attempt \in Nat
        /\ Script[action] \in Actions /\ Script' = Script /\ CurrentStates' = CurrentStates
        /\ n \in Nat /\ passed \in DOMAIN CurrentStates
    BY <1>1, Shapes DEF IInv, TypeOk, Executing, Script, CurrentStates, PlaceOk
  <1>3. e \in Entry
    BY <1>2 DEF Entry
  <1>4. TypeOk'
    BY <1>1, <1>2, <1>3 DEF IInv, TypeOk
  <1>5. Len(done') = n + 1 /\ done'[n + 1] = e /\ \A i \in 1..n : done'[i] = done[i]
    BY <1>1, <1>3 DEF IInv, TypeOk
  <1>6. CurrentOk'
    BY <1>1 DEF IInv, CurrentOk
  <1>7. PlaceOk'
    <2>1. action' <= Len(Script') + 1 /\ (pc' = "period" => action' <= Len(Script'))
      BY <1>1, <1>2
    <2>2. Valid(workflow) /\ returned = Running
      BY <1>1 DEF IInv, PlaceOk
    <2> QED
      BY <1>1, <1>2, <2>1, <2>2 DEF PlaceOk, Executing, Valid, Running
  <1>8. RoundOk' /\ RecordOk'
    <2>1. Base' = Base /\ Base \in Nat /\ Len(partial) = action - 1 /\ Base + action = n + 1
      BY <1>1, <1>2, <1>5 DEF IInv, RoundOk, Base
    <2>2. Len(partial') = action' - 1
      BY <1>1, <1>2, <2>1 DEF IInv, TypeOk
    <2>3. Base <= n
      BY <1>2, <2>1
    <2>4. \A i \in 1..Base' : done'[i].round < attempt'
      <3>1. \A i \in 1..Base : done[i].round < attempt /\ done'[i] = done[i]
        BY <1>1, <1>2, <1>5, <2>1, <2>3 DEF IInv, RoundOk
      <3> QED
        BY <1>1, <2>1, <3>1
    <2>5. \A k \in 1..(action' - 1) :
            /\ partial'[k] = Script'[k]
            /\ done'[Base' + k] = [round |-> attempt', step |-> k, action |-> Script'[k]]
      <3> SUFFICES ASSUME NEW k \in 1..action
                   PROVE  /\ partial'[k] = Script[k]
                          /\ done'[Base + k] = [round |-> attempt, step |-> k,
                                                action |-> Script[k]]
        BY <1>1, <1>2, <2>1
      <3>1. CASE k = action
        BY <1>1, <1>2, <1>5, <2>1, <3>1 DEF IInv, TypeOk
      <3>2. CASE k \in 1..(action - 1)
        <4>1. Base + k \in 1..n
          BY <1>2, <2>1, <3>2
        <4>2. partial[k] = Script[k] /\ partial'[k] = partial[k]
          <5>1. partial[k] = Script[k]
            BY <1>2, <3>2 DEF IInv, RoundOk
          <5>2. partial \in Seq(Actions) /\ k \in 1..Len(partial)
            BY <2>1, <3>2 DEF IInv, TypeOk
          <5> QED
            BY <1>1, <1>2, <5>1, <5>2
        <4>3. done[Base + k] = [round |-> attempt, step |-> k, action |-> Script[k]]
          BY <1>2, <3>2 DEF IInv, RoundOk
        <4> QED
          BY <1>5, <4>1, <4>2, <4>3
      <3> QED
        BY <1>2, <3>1, <3>2
    <2>6. Len(completed) = Base /\ \A i \in DOMAIN completed : completed[i] = done[i].action
      BY <1>1 DEF IInv, RecordOk
    <2>7. \A i \in DOMAIN completed : completed[i] = done'[i].action
      <3>1. DOMAIN completed = 1..Base
        BY <2>6 DEF IInv, TypeOk
      <3> QED
        BY <1>2, <1>5, <2>1, <2>3, <2>6, <3>1
    <2>8. pc' # "debug" /\ pc' # "done"
      BY <1>1
    <2> QED
      BY <1>1, <2>1, <2>2, <2>4, <2>5, <2>6, <2>7, <2>8 DEF RoundOk, RecordOk
  <1>9. ContinuationOnly'
    <2>1. \A i \in 1..n : done'[i] = done[i] /\ (i > 1 => done'[i - 1] = done[i - 1])
      BY <1>2, <1>5
    <2>2. /\ e.round = attempt /\ e.step = action /\ e.action = Script[action]
          /\ attempt = Len(repairs) /\ repairs' = repairs /\ workflow' = workflow
          /\ DOMAIN done' = 1..(n + 1) /\ DOMAIN done = 1..n
      BY <1>1, <1>2, <1>5 DEF IInv, CurrentOk, TypeOk
    <2>3. n # 0 => /\ done'[n].round <= attempt
                   /\ action = 1 => done'[n].round < attempt
                   /\ action # 1 => done'[n].round = attempt
                                    /\ done'[n].step + 1 = action
      <3>1. n # 0 => done'[n] = done[n]
        BY <1>2, <2>1
      <3>2. n # 0 => /\ done[n].round <= attempt
                     /\ action = 1 => done[n].round < attempt
                     /\ action # 1 => done[n].round = attempt /\ done[n].step + 1 = action
        BY PerformOrder, <1>2
      <3> HIDE DEF n, e
      <3> QED
        BY <3>1, <3>2
    <2>4. n # 0 => done'[n].round \in Nat
      BY Entries, <1>2, <2>1
    <2>5. attempt > 0 => Follows(e, repairs[attempt])
      BY <1>1, <1>2, <2>2, LaterRound DEF Follows
    <2>6. \E s \in DOMAIN Normalize(workflow).states \cup {1} : \A i \in 1..(n + 1) :
            done'[i].round = 0 => Follows(done'[i], Normalize(workflow).states[s].actions)
      <3>1. CASE attempt = 0
        <4>1. passed \in DOMAIN Normalize(workflow).states
              /\ Script = Normalize(workflow).states[passed].actions
          BY <1>2, <3>1, FirstRound DEF Script
        <4>2. \A i \in 1..(n + 1) : done'[i] = [round |-> 0, step |-> i, action |-> Script[i]]
                                    /\ i <= Len(Script)
          BY <1>1, <1>2, <1>5, <3>1, FirstRound
        <4>3. \A i \in 1..(n + 1) :
                Follows(done'[i], Normalize(workflow).states[passed].actions)
          <5> TAKE i \in 1..(n + 1)
          <5>1. done'[i].step = i /\ done'[i].action = Script[i] /\ i <= Len(Script)
            <6>1. done'[i] = [round |-> 0, step |-> i, action |-> Script[i]]
              BY <4>2
            <6> QED
              BY <4>2, <6>1
          <5> QED
            BY <4>1, <5>1 DEF Follows
        <4> QED
          BY <4>1, <4>3
      <3>2. CASE attempt # 0
        <4>1. PICK s \in DOMAIN Normalize(workflow).states \cup {1} : \A i \in 1..n :
                done[i].round = 0 => Follows(done[i], Normalize(workflow).states[s].actions)
          BY <2>2 DEF IInv, ContinuationOnly
        <4>2. done'[n + 1].round # 0
          BY <1>5, <2>2, <3>2
        <4>3. \A i \in 1..(n + 1) :
                done'[i].round = 0 => Follows(done'[i], Normalize(workflow).states[s].actions)
          BY <1>2, <2>1, <4>1, <4>2
        <4> QED
          BY <4>3
      <3> QED
        BY <3>1, <3>2
    <2>7. \A i \in 1..n :
            /\ done[i].round <= Len(repairs)
            /\ done[i].round > 0 => Follows(done[i], repairs[done[i].round])
            /\ IF i > 1 /\ done[i - 1].round = done[i].round
               THEN done[i].step = done[i - 1].step + 1
               ELSE done[i].step = 1
            /\ i > 1 => done[i - 1].round <= done[i].round
      BY <2>2 DEF IInv, ContinuationOnly
    <2>8. \A i \in 1..(n + 1) :
            /\ done'[i].round <= Len(repairs)
            /\ done'[i].round > 0 => Follows(done'[i], repairs[done'[i].round])
            /\ IF i > 1 /\ done'[i - 1].round = done'[i].round
               THEN done'[i].step = done'[i - 1].step + 1
               ELSE done'[i].step = 1
            /\ i > 1 => done'[i - 1].round <= done'[i].round
      <3> TAKE i \in 1..(n + 1)
      <3>1. CASE i \in 1..n
        BY <2>1, <2>7, <3>1
      <3>2. CASE i = n + 1
        <4>1. done'[i] = e /\ (i > 1 => n # 0 /\ i - 1 = n)
          BY <1>2, <1>5, <3>2
        <4>2. done'[i].round <= Len(repairs)
              /\ (done'[i].round > 0 => Follows(done'[i], repairs[done'[i].round]))
          BY <1>2, <2>2, <2>5, <4>1
        <4>3. n = 0 => action = 1
          BY <1>2 DEF IInv, RoundOk, Base, Executing
        <4> QED
          BY <1>2, <2>2, <2>3, <2>4, <3>2, <4>1, <4>2, <4>3
      <3> QED
        BY <1>2, <3>1, <3>2
    <2> QED
      <3>1. repairs' = repairs /\ Normalize(workflow)' = Normalize(workflow)
        BY <2>2 DEF Normalize
      <3> QED
        BY <2>2, <2>6, <2>8, <3>1 DEF ContinuationOnly
  <1>10. RepairBudget'
    BY <1>1 DEF IInv, RepairBudget, PlaceOk
  <1> QED
    BY <1>1, <1>4, <1>6, <1>7, <1>8, <1>9, <1>10, NoReport DEF IInv, PlaceOk

\* The pause after an action is over.
LEMMA PeriodOverStep ==
  ASSUME IInv, PeriodOver
  PROVE  IInv'
  <1> USE DEF cursor, records, agent
  <1>1. /\ pc = "period" /\ pc' = "run"
        /\ UNCHANGED <<workflow, current, attempt, cursor, records, agent, returned>>
    BY DEF PeriodOver
  <1>2. TypeOk'
    BY <1>1 DEF IInv, TypeOk
  <1>3. CurrentOk'
    BY <1>1 DEF IInv, CurrentOk
  <1>4. PlaceOk'
    BY <1>1 DEF IInv, PlaceOk, Executing, Script, CurrentStates, Valid, Running
  <1>5. RoundOk' /\ RecordOk'
    BY <1>1 DEF IInv, RoundOk, RecordOk, Executing, Base, Script, CurrentStates
  <1>6. ContinuationOnly'
    BY <1>1 DEF IInv, ContinuationOnly
  <1>7. RepairBudget'
    BY <1>1 DEF IInv, RepairBudget
  <1> QED
    BY <1>1, <1>2, <1>3, <1>4, <1>5, <1>6, <1>7, NoReport DEF IInv, PlaceOk
-----------------------------------------------------------------------------
\* Adding the steps the running round completed to completed_actions accounts for
\* every executed action.
LEMMA Recorded ==
  ASSUME IInv, pc = "run", NEW k \in Seq(Actions), Len(k) = action - 1,
         \A i \in 1..(action - 1) : k[i] = Script[i]
  PROVE  /\ completed \o k \in Seq(Actions)
         /\ Len(completed \o k) = Len(done)
         /\ \A i \in DOMAIN (completed \o k) : (completed \o k)[i] = done[i].action
  <1> DEFINE all == completed \o k
  <1>1. /\ Len(completed) = Base /\ Base \in Nat /\ action \in Nat \ {0}
        /\ completed \in Seq(Actions) /\ Len(done) \in Nat
        /\ \A i \in 1..Base : completed[i] = done[i].action
    <2>1. Len(completed) = Base /\ \A i \in DOMAIN completed : completed[i] = done[i].action
      BY DEF IInv, RecordOk
    <2>2. completed \in Seq(Actions) /\ Len(done) \in Nat /\ action \in Nat \ {0}
      BY DEF IInv, TypeOk
    <2>3. Base \in Nat
      BY DEF IInv, RoundOk
    <2> QED
      BY <2>1, <2>2, <2>3
  <1>2. all \in Seq(Actions) /\ Len(all) = Len(done)
    BY <1>1 DEF Base
  <1>3. ASSUME NEW i \in 1..Len(all) PROVE all[i] = done[i].action
    <2>1. CASE i \in 1..Base
      BY <1>1, <2>1
    <2>2. CASE i \notin 1..Base
      <3> DEFINE j == i - Base
      <3>1. j \in 1..(action - 1) /\ i = Base + j /\ all[i] = k[j]
        <4>1. Len(all) = Base + (action - 1) /\ i \in Nat
          BY <1>1, <1>2 DEF Base
        <4>2. i > Base /\ i <= Base + (action - 1)
          BY <1>1, <2>2, <4>1
        <4>3. j \in 1..(action - 1) /\ i = Base + j
          BY <1>1, <4>1, <4>2
        <4>4. all[i] = k[i - Len(completed)]
          BY <1>1, <4>1, <4>2
        <4> QED
          BY <1>1, <4>3, <4>4
      <3>2. done[Base + j] = [round |-> attempt, step |-> j, action |-> Script[j]]
        BY <3>1 DEF IInv, RoundOk, Executing
      <3> QED
        BY <3>1, <3>2
    <2> QED
      BY <2>1, <2>2
  <1> QED
    BY <1>2, <1>3

\* Every action of the state returned.
LEMMA StateDoneStep ==
  ASSUME IInv, StateDone
  PROVE  IInv'
  <1> USE DEF cursor, records, agent
  <1>1. /\ pc = "run" /\ action > Len(Script)
        /\ result' = Append(result, partial) /\ completed' = completed \o Script
        /\ pc' = "done"
        /\ UNCHANGED <<workflow, current, attempt, cursor, agent>>
    BY DEF StateDone, Finish
  <1>2. /\ returned'.kind = "list" /\ returned'.results = result' /\ returned'.kept = <<>>
        /\ returned'.failed = <<>> /\ returned'.attempts = 0
        /\ returned'.saved = FinalWorkflow(workflow, completed')
    BY DEF StateDone, Finish, Running
  <1>3. Script \in Seq(Actions) /\ Len(Script) = action - 1
    <2>1. Executing
      BY <1>1 DEF Executing
    <2>2. Script \in Seq(Actions) /\ action <= Len(Script) + 1 /\ action \in Nat
      BY <2>1, Shapes DEF IInv, PlaceOk, TypeOk
    <2> QED
      BY <1>1, <2>2
  <1>4. /\ completed' \in Seq(Actions) /\ Len(completed') = Len(done)
        /\ \A i \in DOMAIN completed' : completed'[i] = done[i].action
    BY <1>1, <1>3, Recorded
  <1>5. TypeOk'
    BY <1>1, <1>2, <1>4 DEF IInv, TypeOk, Kinds
  <1>6. CurrentOk'
    BY <1>1 DEF IInv, CurrentOk
  <1>7. PlaceOk' /\ RoundOk' /\ RecordOk'
    BY <1>1, <1>2 DEF PlaceOk, RoundOk, RecordOk, Executing
  <1>8. ContinuationOnly'
    BY <1>1 DEF IInv, ContinuationOnly
  <1>9. RepairBudget' /\ FailureNamesTheNextAction'
    BY <1>1, <1>2 DEF IInv, RepairBudget, FailureNamesTheNextAction
  <1>10. LastRoundFinished'
    <2>1. Base = Len(done) - Len(Script) /\ Base \in Nat /\ Len(done) \in Nat
      BY <1>1, <1>3 DEF IInv, RoundOk, TypeOk, Base
    <2>2. \A i \in 1..Len(Script) :
            done[Base + i] = [round |-> attempt, step |-> i, action |-> Script[i]]
      BY <1>1, <1>3 DEF IInv, RoundOk, Executing
    <2>3. Len(done) >= Len(Script) /\ action = Len(Script) + 1
      BY <1>3, <2>1 DEF IInv, TypeOk
    <2>4. Script' = Script
      BY <1>1 DEF Script, CurrentStates
    <2>5. attempt # 0 => Script = repairs[attempt]
      BY <1>1, LaterRound DEF Executing
    <2> QED
      BY <1>1, <1>3, <2>1, <2>2, <2>3, <2>4, <2>5 DEF LastRoundFinished
  <1>11. SavedOk'
    <2>1. pc \notin {"route", "done"} /\ done' = done /\ workflow' = workflow
      BY <1>1
    <2>2. done' \in Seq(Entry)
      BY <2>1 DEF IInv, TypeOk
    <2> QED
      BY <1>2, <1>4, <2>1, <2>2, SavedAtReturn
  <1> QED
    BY <1>5, <1>6, <1>7, <1>8, <1>9, <1>10, <1>11 DEF IInv
-----------------------------------------------------------------------------
\* What the handler of a failed action leaves in completed_actions.
LEMMA Kept ==
  ASSUME IInv, pc = "run", action <= Len(Script), KeepCompleted
  PROVE  /\ Executing /\ Script \in Seq(Actions) /\ action \in 1..Len(Script)
         /\ result' \in Seq(Seq(Actions))
         /\ completed' \in Seq(Actions) /\ Len(completed') = Len(done)
         /\ \A i \in DOMAIN completed' : completed'[i] = done[i].action
  <1> DEFINE k == SubSeq(Script, 1, action - 1)
  <1>1. Executing /\ Script \in Seq(Actions) /\ action \in 1..Len(Script)
    BY Shapes DEF IInv, TypeOk, Executing
  <1>2. k \in Seq(Actions) /\ Len(k) = action - 1
        /\ \A i \in 1..(action - 1) : k[i] = Script[i]
    BY <1>1
  <1>3. completed' = completed \o k
    BY DEF KeepCompleted
  <1>4. result' \in Seq(Seq(Actions))
    BY DEF KeepCompleted, IInv, TypeOk
  <1> QED
    BY <1>1, <1>2, <1>3, <1>4, Recorded

\* The action raised and an attempt is left.
LEMMA StartRepairStep ==
  ASSUME IInv, StartRepair
  PROVE  IInv'
  <1> USE DEF cursor, records, agent
  <1>1. /\ pc = "run" /\ action <= Len(Script) /\ ~LastAttempt /\ KeepCompleted
        /\ pc' = "debug" /\ recovered' = <<>> /\ planned' = 0
        /\ UNCHANGED <<workflow, current, attempt, cursor, repairs, returned>>
    BY DEF StartRepair
  <1>2. /\ Executing /\ result' \in Seq(Seq(Actions))
        /\ completed' \in Seq(Actions) /\ Len(completed') = Len(done)
        /\ \A i \in DOMAIN completed' : completed'[i] = done[i].action
    BY <1>1, Kept
  <1>3. attempt < MaxRepair
    BY <1>1, RepairAssumption DEF LastAttempt, IInv, TypeOk
  <1>4. Script' = Script /\ CurrentStates' = CurrentStates
    BY <1>1 DEF Script, CurrentStates
  <1>5. TypeOk'
    <2>1. recovered' \in Seq(Bindable)
      BY <1>1
    <2> QED
      BY <1>1, <1>2, <2>1 DEF IInv, TypeOk
  <1>6. CurrentOk'
    BY <1>1 DEF IInv, CurrentOk
  <1>7. PlaceOk'
    BY <1>1, <1>2, <1>3, <1>4 DEF IInv, PlaceOk, Executing, Valid, Running
  <1>8. RoundOk'
    BY <1>1, <1>2, <1>4 DEF IInv, RoundOk, Executing, Base
  <1>9. RecordOk'
    BY <1>1, <1>2 DEF RecordOk
  <1>10. ContinuationOnly'
    BY <1>1 DEF IInv, ContinuationOnly
  <1>11. RepairBudget'
    BY <1>1, <1>3 DEF IInv, RepairBudget, CurrentOk, PlaceOk, Running
  <1> QED
    BY <1>1, <1>5, <1>6, <1>7, <1>8, <1>9, <1>10, <1>11, NoReport DEF IInv, PlaceOk

\* The action raised and no attempt is left.
LEMMA GiveUpStep ==
  ASSUME IInv, GiveUp
  PROVE  IInv'
  <1> USE DEF cursor, records, agent
  <1>1. /\ pc = "run" /\ action <= Len(Script) /\ LastAttempt /\ KeepCompleted
        /\ pc' = "done"
        /\ UNCHANGED <<workflow, current, attempt, cursor, agent>>
    BY DEF GiveUp
  <1>2. /\ returned'.kind = "exhausted" /\ returned'.results = <<>>
        /\ returned'.kept = partial /\ returned'.failed = <<Script[action]>>
        /\ returned'.attempts = attempt
        /\ returned'.saved = FinalWorkflow(workflow, completed')
    BY DEF GiveUp, Running
  <1>3. /\ Executing /\ Script \in Seq(Actions) /\ action \in 1..Len(Script)
        /\ result' \in Seq(Seq(Actions))
        /\ completed' \in Seq(Actions) /\ Len(completed') = Len(done)
        /\ \A i \in DOMAIN completed' : completed'[i] = done[i].action
    BY <1>1, Kept
  <1>4. TypeOk'
    BY <1>1, <1>2, <1>3 DEF IInv, TypeOk, Kinds
  <1>5. CurrentOk'
    BY <1>1 DEF IInv, CurrentOk
  <1>6. PlaceOk' /\ RoundOk' /\ RecordOk'
    BY <1>1, <1>2 DEF PlaceOk, RoundOk, RecordOk, Executing
  <1>7. ContinuationOnly'
    BY <1>1 DEF IInv, ContinuationOnly
  <1>8. RepairBudget'
    BY <1>1, <1>2, RepairAssumption DEF IInv, RepairBudget, CurrentOk, LastAttempt, TypeOk
  <1>9. LastRoundFinished'
    BY <1>2 DEF LastRoundFinished
  <1>10. FailureNamesTheNextAction'
    <2> DEFINE n == Len(partial)
    <2>1. /\ n = action - 1 /\ n \in Nat /\ Base \in Nat /\ Len(done) \in Nat
          /\ Len(done) - n = Base /\ n <= Len(done) /\ n < Len(Script)
      <3>1. n = action - 1 /\ Base \in Nat
        BY <1>1 DEF IInv, RoundOk
      <3>2. n \in Nat /\ Len(done) \in Nat /\ action \in Nat
        BY DEF IInv, TypeOk
      <3> QED
        BY <1>3, <3>1, <3>2 DEF Base
    <2>2. \A i \in 1..n : /\ partial[i] = Script[i]
                          /\ done[Base + i] = [round |-> attempt, step |-> i,
                                               action |-> Script[i]]
      BY <1>3, <2>1 DEF IInv, RoundOk
    <2>3. Normalize(current').states[passed'].actions = Script
      BY <1>1 DEF Script, CurrentStates
    <2>4. returned'.failed = <<Script[n + 1]>>
      BY <1>2, <1>3, <2>1
    <2>5. \A i \in 1..n : done'[Len(done') - n + i] =
            [round |-> attempt', step |-> i, action |-> returned'.kept[i]]
      BY <1>1, <1>2, <2>1, <2>2
    <2> QED
      BY <1>1, <1>2, <2>1, <2>3, <2>4, <2>5 DEF FailureNamesTheNextAction
  <1>11. SavedOk'
    <2>1. pc \notin {"route", "done"} /\ done' = done /\ workflow' = workflow
      BY <1>1
    <2>2. done' \in Seq(Entry)
      BY <2>1 DEF IInv, TypeOk
    <2> QED
      BY <1>2, <1>3, <2>1, <2>2, SavedAtReturn
  <1> QED
    BY <1>4, <1>5, <1>6, <1>7, <1>8, <1>9, <1>10, <1>11 DEF IInv
-----------------------------------------------------------------------------
\* The agent plans one more action.
LEMMA AgentPlansStep ==
  ASSUME IInv, AgentPlans
  PROVE  IInv'
  <1> USE DEF cursor, records, agent
  <1>1. /\ pc = "debug" /\ planned' = planned + 1
        /\ UNCHANGED <<workflow, current, attempt, pc, cursor, records, repairs, returned>>
    BY DEF AgentPlans
  <1>2. recovered' \in Seq(Bindable)
    <2>1. PICK a \in AgentActions :
            recovered' = IF a \in DOMAIN Convert THEN Append(recovered, Convert[a])
                         ELSE recovered
      BY DEF AgentPlans
    <2>2. a \in DOMAIN Convert => Convert[a] \in Bindable
      BY RepairAssumption
    <2> QED
      BY <2>1, <2>2 DEF IInv, TypeOk
  <1>3. TypeOk'
    BY <1>1, <1>2 DEF IInv, TypeOk
  <1>4. CurrentOk'
    BY <1>1 DEF IInv, CurrentOk
  <1>5. PlaceOk'
    BY <1>1 DEF IInv, PlaceOk, Executing, Script, CurrentStates, Valid, Running
  <1>6. RoundOk' /\ RecordOk'
    BY <1>1 DEF IInv, RoundOk, RecordOk, Executing, Base, Script, CurrentStates
  <1>7. ContinuationOnly'
    BY <1>1 DEF IInv, ContinuationOnly
  <1>8. RepairBudget'
    BY <1>1 DEF IInv, RepairBudget
  <1> QED
    BY <1>1, <1>3, <1>4, <1>5, <1>6, <1>7, <1>8, NoReport DEF IInv, PlaceOk

\* The agent raises.
LEMMA AgentRaisesStep ==
  ASSUME IInv, AgentRaises
  PROVE  IInv'
  BY AbortStep DEF AgentRaises

\* The patched workflow takes the place of the one that failed.
LEMMA AgentDoneStep ==
  ASSUME IInv, AgentDone
  PROVE  IInv'
  <1> USE DEF cursor, records, agent
  <1>1. /\ pc = "debug" /\ current' = gen_workflow(recovered)
        /\ repairs' = Append(repairs, recovered) /\ attempt' = attempt + 1
        /\ pc' = "check" /\ action' = 1 /\ partial' = <<>>
        /\ UNCHANGED <<workflow, passed, done, records, recovered, planned, returned>>
    BY DEF AgentDone
  <1>2. /\ recovered \in Seq(Bindable) /\ repairs \in Seq(Seq(Bindable))
        /\ attempt \in Nat /\ attempt = Len(repairs) /\ attempt < MaxRepair
    BY <1>1 DEF IInv, TypeOk, CurrentOk, PlaceOk
  <1>3. /\ repairs' \in Seq(Seq(Bindable)) /\ Len(repairs') = attempt + 1
        /\ repairs'[attempt + 1] = recovered
        /\ \A r \in 1..attempt : repairs'[r] = repairs[r]
    BY <1>1, <1>2
  <1>4. Normalize(current') \in Workflow
    <2>1. recovered \in Seq(Actions)
      BY <1>2, RepairAssumption
    <2>2. [checks |-> "always", actions |-> recovered] \in State
      BY <2>1 DEF State
    <2>3. <<[checks |-> "always", actions |-> recovered]>> \in Seq(State)
      BY <2>2
    <2> QED
      BY <1>1, <2>3 DEF Normalize, gen_workflow, Workflow
  <1>5. TypeOk'
    BY <1>1, <1>2, <1>3, <1>4 DEF IInv, TypeOk
  <1>6. CurrentOk'
    BY <1>1, <1>2, <1>3, RepairAssumption DEF CurrentOk
  <1>7. PlaceOk'
    BY <1>1 DEF IInv, PlaceOk, Executing, Valid, Running
  <1>8. \A i \in DOMAIN done : done[i].round <= attempt
    BY <1>2 DEF IInv, ContinuationOnly
  <1>9. RoundOk'
    <2>1. Base' = Len(done) /\ Len(done) \in Nat
      BY <1>1 DEF Base, IInv, TypeOk
    <2>2. \A i \in 1..Len(done) : done[i].round < attempt + 1
      <3> TAKE i \in 1..Len(done)
      <3>1. done[i].round \in Nat
        BY Entries
      <3>2. i \in DOMAIN done
        BY DEF IInv, TypeOk
      <3> QED
        BY <1>2, <1>8, <3>1, <3>2
    <2> QED
      BY <1>1, <2>1, <2>2 DEF RoundOk, Executing
  <1>10. RecordOk'
    BY <1>1 DEF IInv, RecordOk, Base, TypeOk
  <1>11. ContinuationOnly'
    <2>1. Normalize(workflow)' = Normalize(workflow) /\ done' = done
      BY <1>1 DEF Normalize
    <2>2. ASSUME NEW i \in DOMAIN done
          PROVE  /\ done[i].round <= Len(repairs')
                 /\ done[i].round > 0 => Follows(done[i], repairs'[done[i].round])
      <3>1. done[i].round \in Nat
        BY Entries DEF IInv, TypeOk
      <3>2. done[i].round > 0 => Follows(done[i], repairs[done[i].round])
        BY DEF IInv, ContinuationOnly
      <3>3. done[i].round > 0 => done[i].round \in 1..attempt
        BY <1>2, <1>8, <3>1
      <3> QED
        BY <1>2, <1>3, <1>8, <3>1, <3>2, <3>3
    <2> QED
      BY <2>1, <2>2 DEF IInv, ContinuationOnly
  <1>12. RepairBudget'
    BY <1>1, <1>2, <1>3, RepairAssumption DEF IInv, RepairBudget, PlaceOk, Running
  <1> QED
    BY <1>1, <1>5, <1>6, <1>7, <1>9, <1>10, <1>11, <1>12, NoReport DEF IInv, PlaceOk

\* A step that changes nothing.
LEMMA StutterStep ==
  ASSUME IInv, UNCHANGED vars
  PROVE  IInv'
  <1> USE DEF vars
  <1>1. TypeOk' /\ CurrentOk' /\ PlaceOk'
    BY DEF IInv, TypeOk, CurrentOk, PlaceOk, Executing, Script, CurrentStates, Valid, Running
  <1>2. RoundOk' /\ RecordOk'
    BY DEF IInv, RoundOk, RecordOk, Executing, Base, Script, CurrentStates
  <1>3. ContinuationOnly' /\ RepairBudget' /\ FailureNamesTheNextAction'
    BY DEF IInv, ContinuationOnly, RepairBudget, FailureNamesTheNextAction
  <1>4. LastRoundFinished' /\ SavedOk'
    BY DEF IInv, LastRoundFinished, SavedOk, FirstStateHoldsWhatRan, Script, Named,
       CurrentStates
  <1> QED
    BY <1>1, <1>2, <1>3, <1>4 DEF IInv

\* Every step preserves the invariant.
THEOREM StepIInv == IInv /\ [Next]_vars => IInv'
  BY RouteStep, CheckRaisesStep, CheckStep, PerformStep, PeriodOverStep, StateDoneStep,
     StartRepairStep, GiveUpStep, AgentPlansStep, AgentRaisesStep, AgentDoneStep, StutterStep
     DEF Next

\* The invariant holds in every reachable state.
THEOREM SpecIInv == Spec => []IInv
  BY InitIInv, StepIInv, PTL DEF Spec
-----------------------------------------------------------------------------
\* Every variable keeps its type, for every set of documents.
THEOREM TypeCorrect == Spec => []TypeOk
  <1>1. IInv => TypeOk
    BY DEF IInv
  <1> QED
    BY <1>1, SpecIInv, PTL

\* A repair continues and never starts over.
THEOREM Continues == Spec => []ContinuationOnly
  <1>1. IInv => ContinuationOnly
    BY DEF IInv
  <1> QED
    BY <1>1, SpecIInv, PTL

\* The agent is called at most MaxRepair times, and a final failure means that it
\* was called exactly that often.
THEOREM BoundedRepair == Spec => []RepairBudget
  <1>1. IInv => RepairBudget
    BY DEF IInv
  <1> QED
    BY <1>1, SpecIInv, PTL

\* A final failure names the action after the last one completed.
THEOREM FailureReport == Spec => []FailureNamesTheNextAction
  <1>1. IInv => FailureNamesTheNextAction
    BY DEF IInv
  <1> QED
    BY <1>1, SpecIInv, PTL

\* The rounds before the running one stopped short.
StoppedOk ==
  /\ \A r \in 1..(attempt - 1) : StopsShort(r, repairs[r])
  /\ attempt > 0 => \E s \in DOMAIN Normalize(workflow).states :
                      StopsShort(0, Normalize(workflow).states[s].actions)

\* The agent is called by a round that stopped short of its script.
LEMMA RoundStopsShort ==
  ASSUME IInv, pc = "debug"
  PROVE  StopsShort(attempt, Script)
  <1>1. /\ action \in Nat \ {0} /\ action <= Len(Script) /\ Script \in Seq(Actions)
        /\ attempt \in Nat /\ Len(done) \in Nat /\ DOMAIN done = 1..Len(done)
    BY Shapes DEF IInv, TypeOk, PlaceOk, Executing
  <1>2. action \in DOMAIN Script
    BY <1>1
  <1>3. /\ Base \in Nat /\ Len(done) = Base + (action - 1)
        /\ \A i \in 1..Base : done[i].round < attempt
        /\ \A k \in 1..(action - 1) :
             done[Base + k] = [round |-> attempt, step |-> k, action |-> Script[k]]
    BY <1>1 DEF IInv, RoundOk, Executing, Base
  <1>4. ASSUME NEW i \in DOMAIN done, done[i].round = attempt
        PROVE  done[i].step < action
    <2>1. i \notin 1..Base
      <3>1. i \in 1..Base => done[i].round < attempt
        BY <1>3
      <3> QED
        BY <1>1, <1>4, <3>1
    <2>2. PICK k \in 1..(action - 1) : i = Base + k
      <3>1. i - Base \in 1..(action - 1) /\ i = Base + (i - Base)
        BY <1>1, <1>3, <2>1
      <3> QED
        BY <3>1
    <2>3. done[i] = [round |-> attempt, step |-> k, action |-> Script[k]]
      BY <1>3, <2>2
    <2>4. done[i].step = k
      BY <2>3
    <2> QED
      BY <1>1, <2>2, <2>4
  <1> QED
    BY <1>2, <1>4 DEF StopsShort

\* What is executed now does not make an earlier round longer, and a round that
\* the agent takes over from is one that stopped short.
LEMMA StoppedStep ==
  ASSUME IInv, StoppedOk, [Next]_vars
  PROVE  StoppedOk'
  <1>1. CASE UNCHANGED <<workflow, attempt, repairs, done>>
    BY <1>1 DEF StoppedOk, StopsShort, Normalize
  <1>2. CASE Perform
    <2>1. PICK e : /\ e = [round |-> attempt, step |-> action, action |-> Script[action]]
                   /\ done' = Append(done, e)
      BY <1>2 DEF Perform
    <2>2. /\ UNCHANGED <<workflow, attempt, repairs>> /\ attempt \in Nat
          /\ done \in Seq(Entry) /\ e.round = attempt
      BY <1>2, <2>1 DEF Perform, agent, IInv, TypeOk
    <2>3. \A i \in DOMAIN done' : (i \in DOMAIN done /\ done'[i] = done[i]) \/ done'[i] = e
      BY <2>1, <2>2
    <2>4. ASSUME NEW r, NEW script, r # attempt, StopsShort(r, script)
          PROVE  StopsShort(r, script)'
      BY <2>2, <2>3, <2>4 DEF StopsShort
    <2>5. \A r \in 1..(attempt - 1) : StopsShort(r, repairs[r])'
      <3> TAKE r \in 1..(attempt - 1)
      <3>1. r # attempt /\ StopsShort(r, repairs[r])
        BY <2>2 DEF StoppedOk
      <3>2. repairs' = repairs
        BY <2>2
      <3> QED
        BY <3>1, <3>2, <2>2, <2>3 DEF StopsShort
    <2>6. Normalize(workflow)' = Normalize(workflow)
      BY <2>2 DEF Normalize
    <2>7. attempt > 0 => \E s \in DOMAIN Normalize(workflow).states :
                           StopsShort(0, Normalize(workflow).states[s].actions)'
      <3> HAVE attempt > 0
      <3>1. PICK s \in DOMAIN Normalize(workflow).states :
              StopsShort(0, Normalize(workflow).states[s].actions)
        BY DEF StoppedOk
      <3>2. 0 # attempt
        BY <2>2
      <3> QED
        BY <2>2, <2>3, <2>6, <3>1, <3>2 DEF StopsShort
    <2> QED
      BY <2>2, <2>5, <2>6, <2>7 DEF StoppedOk
  <1>3. CASE AgentDone
    <2>1. /\ pc = "debug" /\ repairs' = Append(repairs, recovered)
          /\ attempt' = attempt + 1 /\ UNCHANGED <<workflow, done>>
          /\ repairs \in Seq(Seq(Bindable)) /\ attempt = Len(repairs) /\ attempt \in Nat
          /\ recovered \in Seq(Bindable)
      BY <1>3 DEF AgentDone, IInv, TypeOk, CurrentOk
    <2>2. \A r \in 1..attempt : repairs'[r] = repairs[r]
      BY <2>1
    <2>3. \A r, script : StopsShort(r, script)' = StopsShort(r, script)
      BY <2>1 DEF StopsShort
    <2>4. StopsShort(attempt, Script)
      BY <2>1, RoundStopsShort
    <2>5. \A r \in 1..attempt : StopsShort(r, repairs[r])
      <3> TAKE r \in 1..attempt
      <3>1. CASE r = attempt
        <4>1. Script = repairs[attempt]
          BY <2>1, <3>1, LaterRound DEF Executing
        <4> QED
          BY <2>4, <3>1, <4>1
      <3>2. CASE r # attempt
        <4>1. r \in 1..(attempt - 1)
          BY <2>1, <3>2
        <4> QED
          BY <4>1 DEF StoppedOk
      <3> QED
        BY <3>1, <3>2
    <2>6. \E s \in DOMAIN Normalize(workflow).states :
            StopsShort(0, Normalize(workflow).states[s].actions)
      <3>1. CASE attempt = 0
        <4>1. CurrentStates = Normalize(workflow).states /\ passed \in DOMAIN CurrentStates
          BY <2>1, <3>1, FirstRound DEF IInv, PlaceOk, Executing
        <4> QED
          BY <2>4, <3>1, <4>1 DEF Script
      <3>2. CASE attempt # 0
        BY <2>1, <3>2 DEF StoppedOk
      <3> QED
        BY <3>1, <3>2
    <2>7. Normalize(workflow)' = Normalize(workflow) /\ attempt' - 1 = attempt
      BY <2>1 DEF Normalize
    <2>8. \A r \in 1..(attempt' - 1) : StopsShort(r, repairs[r])'
      <3> TAKE r \in 1..(attempt' - 1)
      <3>1. r \in 1..attempt
        BY <2>7
      <3>2. StopsShort(r, repairs[r]) /\ repairs'[r] = repairs[r]
        BY <2>2, <2>5, <3>1
      <3> QED
        BY <2>1, <3>2 DEF StopsShort
    <2>9. \E s \in DOMAIN Normalize(workflow)'.states :
            StopsShort(0, Normalize(workflow).states[s].actions)'
      BY <2>1, <2>6, <2>7 DEF StopsShort
    <2> QED
      BY <2>8, <2>9 DEF StoppedOk
  <1>4. \/ UNCHANGED <<workflow, attempt, repairs, done>> \/ Perform \/ AgentDone
    BY DEF Next, vars, Route, Abort, CheckRaises, Check, PeriodOver, StateDone, StartRepair,
       GiveUp, AgentPlans, AgentRaises, cursor, agent, records
  <1> QED
    BY <1>1, <1>2, <1>3, <1>4

\* A returned list means that the last round came to the end of the right script, and
\* that the agent took over from no round that had nothing left.
THEOREM SuccessReport == Spec => []ListMeansFinished
  <1>1. Init => StoppedOk
    BY DEF Init, StoppedOk
  <1>2. IInv /\ StoppedOk /\ [Next]_vars => StoppedOk'
    BY StoppedStep
  <1>3. IInv /\ StoppedOk => ListMeansFinished
    <2> SUFFICES ASSUME IInv, StoppedOk, returned.kind = "list"
                 PROVE  ListMeansFinished
      BY DEF ListMeansFinished
    <2>1. attempt = Len(repairs) /\ attempt \in Nat
      BY DEF IInv, TypeOk, CurrentOk
    <2>2. CASE done = <<>> /\ Named("always") = {} /\ attempt = 0
      BY <2>1, <2>2 DEF ListMeansFinished
    <2>3. CASE /\ attempt # 0 => Script = repairs[attempt]
               /\ action = Len(Script) + 1 /\ Len(done) >= Len(Script)
               /\ \A i \in DOMAIN Script : done[Len(done) - Len(Script) + i] =
                    [round |-> attempt, step |-> i, action |-> Script[i]]
      <3>1. CASE attempt = 0
        BY <2>1, <2>3, <3>1 DEF ListMeansFinished
      <3>2. CASE attempt > 0
        <4>1. Script = repairs[attempt]
          BY <2>1, <2>3, <3>2
        <4> QED
          BY <2>1, <2>3, <3>2, <4>1 DEF StoppedOk, ListMeansFinished
      <3> QED
        BY <2>1, <3>1, <3>2
    <2> QED
      BY <2>2, <2>3 DEF IInv, LastRoundFinished
  <1> QED
    BY <1>1, <1>2, <1>3, InitIInv, SpecIInv, PTL DEF Spec

\* Unless a document comes in the legacy form, the first state of the returned
\* workflow holds exactly the actions that were executed.
THEOREM SavedWorkflow ==
  ASSUME \A doc \in Inputs : "states" \in DOMAIN doc
  PROVE  Spec => []FirstStateHoldsWhatRan
  <1>1. IInv => FirstStateHoldsWhatRan
    BY DEF IInv, SavedOk
  <1> QED
    BY <1>1, SpecIInv, PTL
-----------------------------------------------------------------------------
\* The results, one list per executed state, are the completed actions.
ResultsOk == FlattenSeq(result) = completed

\* One more list of results comes with the actions it stands for.
LEMMA ResultsGrow ==
  ASSUME IInv, ResultsOk, NEW some \in Seq(Actions),
         result' = Append(result, some) /\ completed' = completed \o some
  PROVE  ResultsOk'
  <1>1. result \in Seq(Seq(Actions))
    BY DEF IInv, TypeOk
  <1>2. FlattenSeq(Append(result, some)) = FlattenSeq(result) \o some
    BY <1>1, FlattenAppend
  <1> QED
    BY <1>2 DEF ResultsOk

\* The partial results of a round are those of the actions it has performed.
LEMMA PartialIs ==
  ASSUME IInv, pc = "run"
  PROVE  /\ Script \in Seq(Actions) /\ partial \in Seq(Actions)
         /\ action \in Nat \ {0} /\ action <= Len(Script) + 1
         /\ partial = SubSeq(Script, 1, action - 1)
  <1>1. /\ Script \in Seq(Actions) /\ partial \in Seq(Actions)
        /\ action \in Nat \ {0} /\ action <= Len(Script) + 1
    BY Shapes DEF IInv, TypeOk, PlaceOk, Executing
  <1>2. Len(partial) = action - 1 /\ \A k \in 1..(action - 1) : partial[k] = Script[k]
    BY DEF IInv, RoundOk, Executing
  <1>3. /\ SubSeq(Script, 1, action - 1) \in Seq(Actions)
        /\ Len(SubSeq(Script, 1, action - 1)) = action - 1
        /\ \A k \in 1..(action - 1) : SubSeq(Script, 1, action - 1)[k] = Script[k]
    BY <1>1
  <1> QED
    BY <1>1, <1>2, <1>3

\* A state that is done adds the results of its actions.
LEMMA ResultsWhenDone ==
  ASSUME IInv, ResultsOk, StateDone
  PROVE  ResultsOk'
  <1>1. pc = "run" /\ action > Len(Script)
    BY DEF StateDone
  <1>2. partial = Script /\ Script \in Seq(Actions)
    <2>1. action - 1 = Len(Script)
      BY <1>1, PartialIs
    <2>2. SubSeq(Script, 1, Len(Script)) = Script
      BY <1>1, PartialIs
    <2> QED
      BY <1>1, <2>1, <2>2, PartialIs
  <1> QED
    BY <1>2, ResultsGrow DEF StateDone

\* A failure adds the results of what ran before it.
LEMMA ResultsWhenFailed ==
  ASSUME IInv, ResultsOk, pc = "run", KeepCompleted
  PROVE  ResultsOk'
  <1>1. partial \in Seq(Actions) /\ completed' = completed \o partial
    BY PartialIs DEF KeepCompleted
  <1>2. CASE partial = <<>>
    <2>1. completed' = completed
      BY <1>1, <1>2 DEF IInv, TypeOk
    <2> QED
      BY <1>2, <2>1 DEF KeepCompleted, ResultsOk
  <1>3. CASE partial # <<>>
    BY <1>1, <1>3, ResultsGrow DEF KeepCompleted
  <1> QED
    BY <1>2, <1>3

\* Results and completed actions grow together, whatever fails.
LEMMA ResultsStep ==
  ASSUME IInv, ResultsOk, [Next]_vars
  PROVE  ResultsOk'
  <1>1. CASE UNCHANGED records
    BY <1>1 DEF records, ResultsOk
  <1>2. CASE StateDone
    BY <1>2, ResultsWhenDone
  <1>3. CASE StartRepair \/ GiveUp
    BY <1>3, ResultsWhenFailed DEF StartRepair, GiveUp
  <1>4. StateDone \/ StartRepair \/ GiveUp \/ UNCHANGED records
    BY DEF Next, vars, records, Route, CheckRaises, Check, Perform, PeriodOver, AgentPlans,
       AgentRaises, AgentDone
  <1> QED
    BY <1>1, <1>2, <1>3, <1>4

\* Before the end nothing is reported.
LEMMA NoList ==
  ASSUME returned'.kind # "list"
  PROVE  ResultsCoverTheRun'
  BY DEF ResultsCoverTheRun

\* A result list stands for every action executed.
LEMMA ListStep ==
  ASSUME ResultsOk', returned'.results = result', done' = done,
         completed' \in Seq(Actions), Len(completed') = Len(done),
         \A i \in DOMAIN completed' : completed'[i] = done[i].action
  PROVE  ResultsCoverTheRun'
  <1>1. FlattenSeq(returned'.results) = completed'
    BY DEF ResultsOk
  <1>2. /\ Len(FlattenSeq(returned'.results)) = Len(done')
        /\ \A i \in DOMAIN FlattenSeq(returned'.results) :
             FlattenSeq(returned'.results)[i] = done'[i].action
    BY <1>1
  <1> QED
    BY <1>2 DEF ResultsCoverTheRun

\* A list returned when a state is done holds the results of every round.
LEMMA ListWhenDone ==
  ASSUME IInv, ResultsOk, StateDone
  PROVE  ResultsCoverTheRun'
  <1>1. pc = "run" /\ action > Len(Script)
    BY DEF StateDone
  <1>2. /\ returned'.results = result' /\ done' = done
        /\ completed' = completed \o Script
    BY DEF StateDone, Finish, Running, cursor
  <1>3. Script \in Seq(Actions) /\ Len(Script) = action - 1
    BY <1>1, PartialIs
  <1>4. /\ completed' \in Seq(Actions) /\ Len(completed') = Len(done)
        /\ \A i \in DOMAIN completed' : completed'[i] = done[i].action
    BY <1>1, <1>2, <1>3, Recorded
  <1> QED
    BY <1>2, <1>4, ListStep, ResultsWhenDone

\* So does one returned because no state applies.
LEMMA ListWhenNothingMatches ==
  ASSUME IInv, ResultsOk, Check
  PROVE  ResultsCoverTheRun'
  <1>1. pc = "check" /\ action = 1 /\ returned = Running
    BY DEF Check, IInv, PlaceOk
  <1>2. CASE returned'.kind # "list"
    BY <1>2, NoList
  <1>3. CASE Finish(result, completed)
    <2>1. returned'.results = result /\ UNCHANGED <<result, completed, done>>
      BY <1>3 DEF Finish, Running, Check, records
    <2>2. ResultsOk'
      BY <2>1 DEF ResultsOk
    <2>3. /\ completed \in Seq(Actions) /\ Len(completed) = Len(done)
          /\ \A i \in DOMAIN completed : completed[i] = done[i].action
      BY <1>1 DEF IInv, TypeOk, RecordOk, Base
    <2> QED
      BY <2>1, <2>2, <2>3, ListStep
  <1>4. returned'.kind # "list" \/ Finish(result, completed)
    BY <1>1 DEF Check, Abort, Running
  <1> QED
    BY <1>2, <1>3, <1>4

\* A result list is returned with every action executed in it.
LEMMA ReturnedStep ==
  ASSUME IInv, ResultsOk, ResultsCoverTheRun, [Next]_vars
  PROVE  ResultsCoverTheRun'
  <1>1. CASE UNCHANGED vars
    BY <1>1 DEF vars, ResultsCoverTheRun
  <1>2. CASE StateDone
    BY <1>2, ListWhenDone
  <1>3. CASE Check
    BY <1>3, ListWhenNothingMatches
  <1>4. CASE Abort \/ GiveUp
    <2>1. returned'.kind # "list"
      BY <1>4 DEF Abort, GiveUp, Running
    <2> QED
      BY <2>1, NoList
  <1>5. CASE pc # "done" /\ UNCHANGED returned
    <2>1. returned'.kind # "list"
      BY <1>5 DEF IInv, PlaceOk, Running
    <2> QED
      BY <2>1, NoList
  <1> QED
    BY <1>1, <1>2, <1>3, <1>4, <1>5
       DEF Next, Route, CheckRaises, Perform, PeriodOver, StartRepair, AgentPlans,
           AgentRaises, AgentDone

\* The results returned on success are those of every action completed, one each,
\* over all the rounds, for every workflow and every repair.
THEOREM ResultsAreComplete == Spec => []ResultsCoverTheRun
  <1>1. Init => ResultsOk /\ ResultsCoverTheRun
    BY FlattenEmpty DEF Init, Running, ResultsOk, ResultsCoverTheRun
  <1>2. IInv /\ ResultsOk /\ ResultsCoverTheRun /\ [Next]_vars
          => ResultsOk' /\ ResultsCoverTheRun'
    BY ResultsStep, ReturnedStep
  <1> QED
    BY <1>1, <1>2, SpecIInv, PTL DEF Spec
=============================================================================
