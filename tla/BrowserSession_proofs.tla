------------------------ MODULE BrowserSession_proofs ------------------------
(***************************************************************************)
(* What is opened is closed, and what is reported is what happened, for any *)
(* number of generation rounds and with or without the stealth script.      *)
(***************************************************************************)
EXTENDS BrowserSession, TLAPS

\* What is open belongs to the flow that runs: its driver, and the browser, context
\* and page of its present round.
Owned ==
  live \subseteq {<<"playwright", flow, 1>>}
                   \cup {Here(kind) : kind \in {"browser", "context", "page"}}

\* Where each flow can be, and what is open, known or decided there.
PhaseOk ==
  /\ pc \in {"start", "create_har"} => step = 1
  /\ pc = "start" => live = {}
  /\ pc \in {"start", "create_har"} \/ flow # "run" => har = "none"
  /\ pc \in {"create_har", "read_har"} => flow = "run"
  /\ pc = "convert" => flow = "generate"
  /\ pc = "read_har" => live = {}

\* What is known of the work and of the error that is on its way.
WorkOk ==
  /\ flow = "run" => ~error
  /\ flow # "generate" => workflow
  /\ pc \in OpenStages \cup {"start", "create_har", "play"} /\ flow # "generate" => played = "none"
  /\ pc \in {"close_context", "close_browser", "read_har"} => played # "none"
  /\ pc = "stop" /\ ~error /\ flow # "generate" => played # "none"
  /\ pc = "stop" /\ ~error /\ flow = "generate" => workflow
  /\ flow = "facade" /\ played # "none" => ~error

IInv ==
  /\ TypeOk /\ Owned /\ PhaseOk /\ WorkOk
  /\ NothingIsLeftBehind /\ OutcomeIsOfTheRun /\ LeftoversHaveACause
-----------------------------------------------------------------------------
Outcomes == [kind : {"none", "raised", "result"}, success : BOOLEAN]

\* What a caller gets is of the type of outcomes.
LEMMA OutcomeType ==
  /\ NoOutcome \in Outcomes /\ Raised \in Outcomes
  /\ \A ok \in BOOLEAN : Result(ok) \in Outcomes
  BY DEF Outcomes, NoOutcome, Raised, Result

\* Nothing is open and nothing known when a run starts.
THEOREM InitIInv == Init => IInv
  <1> SUFFICES ASSUME Init PROVE IInv
    OBVIOUS
  <1>1. /\ entry \in Entries /\ flow \in Flows
        /\ flow = "run" => entry = "replay"
        /\ flow # "generate" <=> entry # "generate"
    <2>1. CASE entry = "facade"
      BY <2>1 DEF Init, FirstFlow, Flows
    <2>2. CASE entry = "generate"
      BY <2>2 DEF Init, FirstFlow, Flows
    <2>3. CASE entry = "replay"
      BY <2>3 DEF Init, FirstFlow, Flows
    <2> QED
      BY <2>1, <2>2, <2>3, SessionAssumption DEF Init
  <1>2. TypeOk
    <2>1. workflow \in BOOLEAN
      BY DEF Init
    <2>2. outcome \in [kind : {"none", "raised", "result"}, success : BOOLEAN]
      BY OutcomeType DEF Init, Outcomes
    <2>3. step \in 1..(IF Steps > 1 THEN Steps ELSE 1)
      BY SessionAssumption DEF Init
    <2>4. error \in BOOLEAN
      BY DEF Init
    <2> QED
      BY <1>1, <2>1, <2>2, <2>3, <2>4 DEF Init, TypeOk, Places
  <1>3. Owned /\ PhaseOk
    BY <1>1 DEF Init, Owned, PhaseOk
  <1>4. WorkOk
    BY <1>1 DEF Init, WorkOk
  <1> QED
    BY <1>2, <1>3, <1>4
    DEF Init, IInv, NothingIsLeftBehind, OutcomeIsOfTheRun, LeftoversHaveACause

\* A step that raises is remembered with the flow it belongs to.
LEMMA FaultKept ==
  ASSUME TypeOk, Fault
  PROVE  /\ faults' \subseteq Flows \X Places
         /\ <<flow, pc>> \in faults'
  BY DEF TypeOk, Fault

\* The driver is started.
LEMMA StartStep == ASSUME IInv, Start PROVE IInv'
  <1> USE DEF Start, fixed, Here
  <1>1. TypeOk'
    BY DEF IInv, TypeOk, Owned, PhaseOk, Flows, Kinds, Places, OpenStages
  <1>2. Owned'
    BY DEF IInv, TypeOk, Owned, PhaseOk, WorkOk
  <1>3. PhaseOk'
    BY DEF IInv, TypeOk, Owned, PhaseOk, WorkOk, OpenStages, Flows
  <1>4. WorkOk'
    BY DEF IInv, TypeOk, PhaseOk, WorkOk, OpenStages, Flows
  <1>5. NothingIsLeftBehind'
    BY DEF IInv, TypeOk, Owned, PhaseOk, WorkOk, OpenStages, Flows, NothingIsLeftBehind
  <1>6. OutcomeIsOfTheRun'
    BY DEF IInv, TypeOk, PhaseOk, WorkOk, OpenStages, Flows, OutcomeIsOfTheRun, MayMaskTheRun
  <1>7. LeftoversHaveACause'
    BY DEF IInv, TypeOk, Owned, PhaseOk, WorkOk, OpenStages, Flows, LeftoversHaveACause
  <1> QED
    BY <1>1, <1>2, <1>3, <1>4, <1>5, <1>6, <1>7 DEF IInv

\* The driver does not start.
LEMMA StartFailsStep == ASSUME IInv, StartFails PROVE IInv'
  <1> USE DEF StartFails, Here, fixed, Fault, Escape, Raised
  <1>1. TypeOk'
    BY DEF IInv, TypeOk, Owned, PhaseOk, Flows, Kinds, Places, OpenStages
  <1>2. Owned'
    BY DEF IInv, TypeOk, Owned, PhaseOk, WorkOk
  <1>3. PhaseOk'
    BY DEF IInv, TypeOk, Owned, PhaseOk, WorkOk, OpenStages, Flows
  <1>4. WorkOk'
    BY DEF IInv, TypeOk, PhaseOk, WorkOk, OpenStages, Flows
  <1>5. NothingIsLeftBehind'
    BY DEF IInv, TypeOk, Owned, PhaseOk, WorkOk, OpenStages, Flows, NothingIsLeftBehind
  <1>6. OutcomeIsOfTheRun'
    BY DEF IInv, TypeOk, PhaseOk, WorkOk, OpenStages, Flows, OutcomeIsOfTheRun, MayMaskTheRun
  <1>7. LeftoversHaveACause'
    BY DEF IInv, TypeOk, Owned, PhaseOk, WorkOk, OpenStages, Flows, LeftoversHaveACause
  <1> QED
    BY <1>1, <1>2, <1>3, <1>4, <1>5, <1>6, <1>7 DEF IInv

\* The HAR file is created.
LEMMA CreateHarStep == ASSUME IInv, CreateHar PROVE IInv'
  <1> USE DEF CreateHar, Here
  <1>1. TypeOk'
    BY DEF IInv, TypeOk, Owned, PhaseOk, Flows, Kinds, Places, OpenStages
  <1>2. Owned'
    BY DEF IInv, TypeOk, Owned, PhaseOk, WorkOk
  <1>3. PhaseOk'
    BY DEF IInv, TypeOk, Owned, PhaseOk, WorkOk, OpenStages, Flows
  <1>4. WorkOk'
    BY DEF IInv, TypeOk, PhaseOk, WorkOk, OpenStages, Flows
  <1>5. NothingIsLeftBehind'
    BY DEF IInv, TypeOk, Owned, PhaseOk, WorkOk, OpenStages, Flows, NothingIsLeftBehind
  <1>6. OutcomeIsOfTheRun'
    BY DEF IInv, TypeOk, PhaseOk, WorkOk, OpenStages, Flows, OutcomeIsOfTheRun, MayMaskTheRun
  <1>7. LeftoversHaveACause'
    BY DEF IInv, TypeOk, Owned, PhaseOk, WorkOk, OpenStages, Flows, LeftoversHaveACause
  <1> QED
    BY <1>1, <1>2, <1>3, <1>4, <1>5, <1>6, <1>7 DEF IInv

\* The HAR file cannot be created.
LEMMA CreateHarFailsStep == ASSUME IInv, CreateHarFails PROVE IInv'
  <1> USE DEF CreateHarFails, Here, fixed, Escape, Raised
  <1>0. faults' \subseteq Flows \X Places /\ <<flow, pc>> \in faults'
    BY FaultKept DEF IInv
  <1>1. TypeOk'
    BY <1>0 DEF IInv, TypeOk, Owned, PhaseOk, Flows, Kinds, Places, OpenStages
  <1>2. Owned'
    BY DEF IInv, TypeOk, Owned, PhaseOk, WorkOk
  <1>3. PhaseOk'
    BY DEF IInv, TypeOk, Owned, PhaseOk, WorkOk, OpenStages, Flows
  <1>4. WorkOk'
    BY DEF IInv, TypeOk, PhaseOk, WorkOk, OpenStages, Flows
  <1>5. NothingIsLeftBehind'
    BY DEF IInv, TypeOk, Owned, PhaseOk, WorkOk, OpenStages, Flows, NothingIsLeftBehind
  <1>6. OutcomeIsOfTheRun'
    BY DEF IInv, TypeOk, PhaseOk, WorkOk, OpenStages, Flows, OutcomeIsOfTheRun, MayMaskTheRun
  <1>7. LeftoversHaveACause'
    BY <1>0 DEF IInv, TypeOk, Owned, PhaseOk, WorkOk, OpenStages, Flows, LeftoversHaveACause
  <1> QED
    BY <1>1, <1>2, <1>3, <1>4, <1>5, <1>6, <1>7 DEF IInv

\* One more handle is opened.
LEMMA OpenSessionStep == ASSUME IInv, OpenSession PROVE IInv'
  <1> USE DEF OpenSession, fixed, Here
  <1>1. TypeOk'
    BY DEF IInv, TypeOk, Owned, PhaseOk, Flows, Kinds, Places, OpenStages
  <1>2. Owned'
    BY DEF IInv, TypeOk, Owned, PhaseOk, WorkOk
  <1>3. PhaseOk'
    BY DEF IInv, TypeOk, Owned, PhaseOk, WorkOk, OpenStages, Flows
  <1>4. WorkOk'
    BY DEF IInv, TypeOk, PhaseOk, WorkOk, OpenStages, Flows
  <1>5. NothingIsLeftBehind'
    BY DEF IInv, TypeOk, Owned, PhaseOk, WorkOk, OpenStages, Flows, NothingIsLeftBehind
  <1>6. OutcomeIsOfTheRun'
    BY DEF IInv, TypeOk, PhaseOk, WorkOk, OpenStages, Flows, OutcomeIsOfTheRun, MayMaskTheRun
  <1>7. LeftoversHaveACause'
    BY DEF IInv, TypeOk, Owned, PhaseOk, WorkOk, OpenStages, Flows, LeftoversHaveACause
  <1> QED
    BY <1>1, <1>2, <1>3, <1>4, <1>5, <1>6, <1>7 DEF IInv

\* Opening the session raises.
LEMMA OpenSessionFailsStep == ASSUME IInv, OpenSessionFails PROVE IInv'
  <1> USE DEF OpenSessionFails, Here, fixed, Escape, Raised
  <1>0. faults' \subseteq Flows \X Places /\ <<flow, pc>> \in faults'
    BY FaultKept DEF IInv
  <1>1. TypeOk'
    <2>1. outcome' \in [kind : {"none", "raised", "result"}, success : BOOLEAN]
      BY OutcomeType DEF IInv, TypeOk, Outcomes, Raised, Result
    <2>2. pc' \in Places /\ error' \in BOOLEAN
      BY DEF IInv, TypeOk, Places
    <2> QED
      BY <1>0, <2>1, <2>2 DEF IInv, TypeOk
  <1>2. Owned'
    BY DEF IInv, TypeOk, Owned, PhaseOk, WorkOk
  <1>3. PhaseOk'
    BY DEF IInv, TypeOk, Owned, PhaseOk, WorkOk, OpenStages, Flows
  <1>4. WorkOk'
    BY DEF IInv, TypeOk, PhaseOk, WorkOk, OpenStages, Flows
  <1>5. NothingIsLeftBehind'
    BY DEF IInv, TypeOk, Owned, PhaseOk, WorkOk, OpenStages, Flows, NothingIsLeftBehind
  <1>6. OutcomeIsOfTheRun'
    BY DEF IInv, TypeOk, PhaseOk, WorkOk, OpenStages, Flows, OutcomeIsOfTheRun, MayMaskTheRun
  <1>7. LeftoversHaveACause'
    BY <1>0 DEF IInv, TypeOk, Owned, PhaseOk, WorkOk, OpenStages, Flows, LeftoversHaveACause
  <1> QED
    BY <1>1, <1>2, <1>3, <1>4, <1>5, <1>6, <1>7 DEF IInv

\* The site takes a handle away.
LEMMA LoseStep == ASSUME IInv, Lose PROVE IInv'
  <1> USE DEF Lose, fixed, Here, Beneath
  <1>1. TypeOk'
    BY DEF IInv, TypeOk, Owned, PhaseOk, Flows, Kinds, Places, OpenStages
  <1>2. Owned'
    BY DEF IInv, TypeOk, Owned, PhaseOk, WorkOk
  <1>3. PhaseOk'
    BY DEF IInv, TypeOk, Owned, PhaseOk, WorkOk, OpenStages, Flows
  <1>4. WorkOk'
    BY DEF IInv, TypeOk, PhaseOk, WorkOk, OpenStages, Flows
  <1>5. NothingIsLeftBehind'
    BY DEF IInv, TypeOk, Owned, PhaseOk, WorkOk, OpenStages, Flows, NothingIsLeftBehind
  <1>6. OutcomeIsOfTheRun'
    BY DEF IInv, TypeOk, PhaseOk, WorkOk, OpenStages, Flows, OutcomeIsOfTheRun, MayMaskTheRun
  <1>7. LeftoversHaveACause'
    BY DEF IInv, TypeOk, Owned, PhaseOk, WorkOk, OpenStages, Flows, LeftoversHaveACause
  <1> QED
    BY <1>1, <1>2, <1>3, <1>4, <1>5, <1>6, <1>7 DEF IInv

\* The work on the page is over.
LEMMA PlayStep == ASSUME IInv, Play PROVE IInv'
  <1> USE DEF Play, Here, fixed
  <1>1. TypeOk'
    BY DEF IInv, TypeOk, Owned, PhaseOk, Flows, Kinds, Places, OpenStages
  <1>2. Owned'
    BY DEF IInv, TypeOk, Owned, PhaseOk, WorkOk
  <1>3. PhaseOk'
    BY DEF IInv, TypeOk, Owned, PhaseOk, WorkOk, OpenStages, Flows
  <1>4. WorkOk'
    BY DEF IInv, TypeOk, PhaseOk, WorkOk, OpenStages, Flows
  <1>5. NothingIsLeftBehind'
    BY DEF IInv, TypeOk, Owned, PhaseOk, WorkOk, OpenStages, Flows, NothingIsLeftBehind
  <1>6. OutcomeIsOfTheRun'
    BY DEF IInv, TypeOk, PhaseOk, WorkOk, OpenStages, Flows, OutcomeIsOfTheRun, MayMaskTheRun
  <1>7. LeftoversHaveACause'
    BY DEF IInv, TypeOk, Owned, PhaseOk, WorkOk, OpenStages, Flows, LeftoversHaveACause
  <1> QED
    BY <1>1, <1>2, <1>3, <1>4, <1>5, <1>6, <1>7 DEF IInv

\* The context is closed.
LEMMA CloseContextStep == ASSUME IInv, CloseContext PROVE IInv'
  <1> USE DEF CloseContext, fixed, Here, Beneath
  <1>1. TypeOk'
    BY DEF IInv, TypeOk, Owned, PhaseOk, Flows, Kinds, Places, OpenStages
  <1>2. Owned'
    BY DEF IInv, TypeOk, Owned, PhaseOk, WorkOk
  <1>3. PhaseOk'
    BY DEF IInv, TypeOk, Owned, PhaseOk, WorkOk, OpenStages, Flows
  <1>4. WorkOk'
    BY DEF IInv, TypeOk, PhaseOk, WorkOk, OpenStages, Flows
  <1>5. NothingIsLeftBehind'
    BY DEF IInv, TypeOk, Owned, PhaseOk, WorkOk, OpenStages, Flows, NothingIsLeftBehind
  <1>6. OutcomeIsOfTheRun'
    BY DEF IInv, TypeOk, PhaseOk, WorkOk, OpenStages, Flows, OutcomeIsOfTheRun, MayMaskTheRun
  <1>7. LeftoversHaveACause'
    BY DEF IInv, TypeOk, Owned, PhaseOk, WorkOk, OpenStages, Flows, LeftoversHaveACause
  <1> QED
    BY <1>1, <1>2, <1>3, <1>4, <1>5, <1>6, <1>7 DEF IInv

\* Closing raises.
LEMMA CloseFailsStep == ASSUME IInv, CloseFails PROVE IInv'
  <1> USE DEF CloseFails, Here, fixed, Escape, Raised
  <1>0. faults' \subseteq Flows \X Places /\ <<flow, pc>> \in faults'
    BY FaultKept DEF IInv
  <1>1. TypeOk'
    <2>1. outcome' \in [kind : {"none", "raised", "result"}, success : BOOLEAN]
      BY OutcomeType DEF IInv, TypeOk, Outcomes, Raised, Result
    <2>2. pc' \in Places /\ error' \in BOOLEAN
      BY DEF IInv, TypeOk, Places
    <2> QED
      BY <1>0, <2>1, <2>2 DEF IInv, TypeOk
  <1>2. Owned'
    BY DEF IInv, TypeOk, Owned, PhaseOk, WorkOk
  <1>3. PhaseOk'
    BY DEF IInv, TypeOk, Owned, PhaseOk, WorkOk, OpenStages, Flows
  <1>4. WorkOk'
    BY DEF IInv, TypeOk, PhaseOk, WorkOk, OpenStages, Flows
  <1>5. NothingIsLeftBehind'
    BY DEF IInv, TypeOk, Owned, PhaseOk, WorkOk, OpenStages, Flows, NothingIsLeftBehind
  <1>6. OutcomeIsOfTheRun'
    BY <1>0 DEF IInv, TypeOk, PhaseOk, WorkOk, OpenStages, Flows, OutcomeIsOfTheRun, MayMaskTheRun
  <1>7. LeftoversHaveACause'
    BY <1>0 DEF IInv, TypeOk, Owned, PhaseOk, WorkOk, OpenStages, Flows, LeftoversHaveACause
  <1> QED
    BY <1>1, <1>2, <1>3, <1>4, <1>5, <1>6, <1>7 DEF IInv

\* The browser is closed.
LEMMA CloseBrowserStep == ASSUME IInv, CloseBrowser PROVE IInv'
  <1> USE SessionAssumption DEF CloseBrowser, Here, Beneath, MoreRounds
  <1>1. TypeOk'
    BY DEF IInv, TypeOk, Owned, PhaseOk, Flows, Kinds, Places, OpenStages
  <1>2. Owned'
    BY DEF IInv, TypeOk, Owned, PhaseOk, WorkOk
  <1>3. PhaseOk'
    BY DEF IInv, TypeOk, Owned, PhaseOk, WorkOk, OpenStages, Flows
  <1>4. WorkOk'
    BY DEF IInv, TypeOk, PhaseOk, WorkOk, OpenStages, Flows
  <1>5. NothingIsLeftBehind'
    BY DEF IInv, TypeOk, Owned, PhaseOk, WorkOk, OpenStages, Flows, NothingIsLeftBehind
  <1>6. OutcomeIsOfTheRun'
    BY DEF IInv, TypeOk, PhaseOk, WorkOk, OpenStages, Flows, OutcomeIsOfTheRun, MayMaskTheRun
  <1>7. LeftoversHaveACause'
    BY DEF IInv, TypeOk, Owned, PhaseOk, WorkOk, OpenStages, Flows, LeftoversHaveACause
  <1> QED
    BY <1>1, <1>2, <1>3, <1>4, <1>5, <1>6, <1>7 DEF IInv

\* The histories become a workflow, or not.
LEMMA ConvertStep == ASSUME IInv, Convert PROVE IInv'
  <1> USE DEF Convert, Here
  <1>1. TypeOk'
    BY DEF IInv, TypeOk, Owned, PhaseOk, Flows, Kinds, Places, OpenStages
  <1>2. Owned'
    BY DEF IInv, TypeOk, Owned, PhaseOk, WorkOk
  <1>3. PhaseOk'
    BY DEF IInv, TypeOk, Owned, PhaseOk, WorkOk, OpenStages, Flows
  <1>4. WorkOk'
    <2>1. flow = "generate" /\ flow' = "generate" /\ pc' = "stop"
      BY DEF IInv, PhaseOk
    <2>2. ~error' => workflow'
      <3>1. PICK ok \in BOOLEAN : workflow' = ok /\ error' = ~ok
        BY Zenon DEF Convert
      <3> QED
        BY <3>1
    <2> QED
      BY <2>1, <2>2 DEF WorkOk, OpenStages
  <1>5. NothingIsLeftBehind'
    BY DEF IInv, TypeOk, Owned, PhaseOk, WorkOk, OpenStages, Flows, NothingIsLeftBehind
  <1>6. OutcomeIsOfTheRun'
    BY DEF IInv, TypeOk, PhaseOk, WorkOk, OpenStages, Flows, OutcomeIsOfTheRun, MayMaskTheRun
  <1>7. LeftoversHaveACause'
    BY DEF IInv, TypeOk, Owned, PhaseOk, WorkOk, OpenStages, Flows, LeftoversHaveACause
  <1> QED
    BY <1>1, <1>2, <1>3, <1>4, <1>5, <1>6, <1>7 DEF IInv

\* The driver is stopped.
LEMMA StopStep == ASSUME IInv, Stop PROVE IInv'
  <1> USE SessionAssumption DEF Stop, Here, Escape, Raised, Result, Beneath
  <1>1. TypeOk'
    <2>1. outcome' \in [kind : {"none", "raised", "result"}, success : BOOLEAN]
      BY OutcomeType DEF IInv, TypeOk, Outcomes, Raised, Result
    <2>2. pc' \in Places /\ flow' \in Flows /\ played' \in {"none", "success", "failure"}
      BY DEF IInv, TypeOk, Places, Flows
    <2>3. step' \in 1..(IF Steps > 1 THEN Steps ELSE 1)
      BY DEF IInv, TypeOk
    <2> QED
      BY <2>1, <2>2, <2>3 DEF IInv, TypeOk
  <1>2. Owned'
    BY DEF IInv, TypeOk, Owned, PhaseOk, WorkOk
  <1>3. PhaseOk'
    BY DEF IInv, TypeOk, Owned, PhaseOk, WorkOk, OpenStages, Flows
  <1>4. WorkOk'
    BY DEF IInv, TypeOk, PhaseOk, WorkOk, OpenStages, Flows
  <1>5. NothingIsLeftBehind'
    BY DEF IInv, TypeOk, Owned, PhaseOk, WorkOk, OpenStages, Flows, NothingIsLeftBehind
  <1>6. OutcomeIsOfTheRun'
    BY DEF IInv, TypeOk, PhaseOk, WorkOk, OpenStages, Flows, OutcomeIsOfTheRun, MayMaskTheRun
  <1>7. LeftoversHaveACause'
    BY DEF IInv, TypeOk, Owned, PhaseOk, WorkOk, OpenStages, Flows, LeftoversHaveACause
  <1> QED
    BY <1>1, <1>2, <1>3, <1>4, <1>5, <1>6, <1>7 DEF IInv

\* Stopping the driver raises.
LEMMA StopFailsStep == ASSUME IInv, StopFails PROVE IInv'
  <1> USE DEF StopFails, Here, Beneath, fixed, Escape, Raised
  <1>0. faults' \subseteq Flows \X Places /\ <<flow, pc>> \in faults'
    BY FaultKept DEF IInv
  <1>1. TypeOk'
    <2>1. outcome' \in [kind : {"none", "raised", "result"}, success : BOOLEAN]
      BY OutcomeType DEF IInv, TypeOk, Outcomes, Raised, Result
    <2>2. pc' \in Places /\ error' \in BOOLEAN
      BY DEF IInv, TypeOk, Places
    <2> QED
      BY <1>0, <2>1, <2>2 DEF IInv, TypeOk
  <1>2. Owned'
    BY DEF IInv, TypeOk, Owned, PhaseOk, WorkOk
  <1>3. PhaseOk'
    BY DEF IInv, TypeOk, Owned, PhaseOk, WorkOk, OpenStages, Flows
  <1>4. WorkOk'
    BY DEF IInv, TypeOk, PhaseOk, WorkOk, OpenStages, Flows
  <1>5. NothingIsLeftBehind'
    BY <1>0 DEF IInv, TypeOk, Owned, PhaseOk, WorkOk, OpenStages, Flows, NothingIsLeftBehind
  <1>6. OutcomeIsOfTheRun'
    BY <1>0 DEF IInv, TypeOk, PhaseOk, WorkOk, OpenStages, Flows, OutcomeIsOfTheRun, MayMaskTheRun
  <1>7. LeftoversHaveACause'
    BY <1>0 DEF IInv, TypeOk, Owned, PhaseOk, WorkOk, OpenStages, Flows, LeftoversHaveACause
  <1> QED
    BY <1>1, <1>2, <1>3, <1>4, <1>5, <1>6, <1>7 DEF IInv

\* The HAR file is read and removed.
LEMMA ReadHarStep == ASSUME IInv, ReadHar PROVE IInv'
  <1> USE DEF ReadHar, Here, Result
  <1>1. TypeOk'
    BY DEF IInv, TypeOk, Owned, PhaseOk, Flows, Kinds, Places, OpenStages
  <1>2. Owned'
    BY DEF IInv, TypeOk, Owned, PhaseOk, WorkOk
  <1>3. PhaseOk'
    BY DEF IInv, TypeOk, Owned, PhaseOk, WorkOk, OpenStages, Flows
  <1>4. WorkOk'
    BY DEF IInv, TypeOk, PhaseOk, WorkOk, OpenStages, Flows
  <1>5. NothingIsLeftBehind'
    BY DEF IInv, TypeOk, Owned, PhaseOk, WorkOk, OpenStages, Flows, NothingIsLeftBehind
  <1>6. OutcomeIsOfTheRun'
    BY DEF IInv, TypeOk, PhaseOk, WorkOk, OpenStages, Flows, OutcomeIsOfTheRun, MayMaskTheRun
  <1>7. LeftoversHaveACause'
    BY DEF IInv, TypeOk, Owned, PhaseOk, WorkOk, OpenStages, Flows, LeftoversHaveACause
  <1> QED
    BY <1>1, <1>2, <1>3, <1>4, <1>5, <1>6, <1>7 DEF IInv

\* A stuttering step changes nothing.
LEMMA StutterStep == ASSUME IInv, UNCHANGED vars PROVE IInv'
  BY DEF vars, IInv, TypeOk, Owned, PhaseOk, WorkOk, Here, NothingIsLeftBehind,
     OutcomeIsOfTheRun, MayMaskTheRun, LeftoversHaveACause

\* Every step preserves the invariant.
THEOREM StepIInv == IInv /\ [Next]_vars => IInv'
  BY StartStep, StartFailsStep, CreateHarStep, CreateHarFailsStep, OpenSessionStep,
     OpenSessionFailsStep, LoseStep, PlayStep, CloseContextStep, CloseFailsStep,
     CloseBrowserStep, ConvertStep, StopStep, StopFailsStep, ReadHarStep, StutterStep DEF Next

\* The invariant holds throughout.
THEOREM SpecIInv == Spec => []IInv
  BY InitIInv, StepIInv, PTL DEF Spec
-----------------------------------------------------------------------------
\* Every variable of the session keeps its type, for any number of rounds.
THEOREM TypeCorrect == Spec => []TypeOk
  <1>1. IInv => TypeOk
    BY DEF IInv
  <1> QED
    BY <1>1, SpecIInv, PTL

\* Whoever gets a result, replays through NetGent or fails while generating leaves
\* nothing open, unless stopping the driver itself raised.
THEOREM NothingLeft == Spec => []NothingIsLeftBehind
  <1>1. IInv => NothingIsLeftBehind
    BY DEF IInv
  <1> QED
    BY <1>1, SpecIInv, PTL

\* A result is that of the work done on the page, and a replay that was done is
\* reported as an exception only if a step behind the work raised: in NetGent's
\* flow stopping the driver, in run_workflow closing as well.
THEOREM HonestOutcome == Spec => []OutcomeIsOfTheRun
  <1>1. IInv => OutcomeIsOfTheRun
    BY DEF IInv
  <1> QED
    BY <1>1, SpecIInv, PTL

\* What is left behind has its cause in a step of the flow that ended the run.
THEOREM CausedLeftovers == Spec => []LeftoversHaveACause
  <1>1. IInv => LeftoversHaveACause
    BY DEF IInv
  <1> QED
    BY <1>1, SpecIInv, PTL

\* However many rounds a generation has, one driver and one browser are open at a
\* time, all of the flow that runs.
THEOREM OneAtATime == Spec => []OneBrowserAtATime
  <1>1. ASSUME IInv, NEW r \in live, NEW s \in live, r[1] = s[1] PROVE r = s
    BY <1>1 DEF IInv, Owned, Here
  <1>2. ASSUME IInv, NEW r \in live PROVE r[2] = flow
    BY <1>2 DEF IInv, Owned, Here
  <1>3. IInv => OneBrowserAtATime
    BY <1>1, <1>2 DEF OneBrowserAtATime
  <1> QED
    BY <1>3, SpecIInv, PTL
=============================================================================
