--------------------------- MODULE BrowserSession ---------------------------
(***************************************************************************)
(* Who opens and who closes Playwright, the browser, its context, its page  *)
(* and the HAR file, when any of these steps may raise. There are two       *)
(* entries: NetGent.arun_workflow of a browser workflow ("facade", main.py) *)
(* and the graph of the browser agent (agents/subagents/browser/agent.py),  *)
(* called by NetGent.generate without a workflow ("generate") or by others  *)
(* with one ("replay"). A run goes through up to two flows, each with a     *)
(* Playwright driver of its own: "facade", or "generate" and then "run".    *)
(*                                                                         *)
(* What happens on the page is one step here; WorkflowEngine and            *)
(* BrowserRepair model it.                                                 *)
(***************************************************************************)
EXTENDS Naturals, FiniteSets

CONSTANTS
  Entries,  \* how the run is started: a subset of {"facade", "generate", "replay"}
  Steps,    \* state["steps"]: rounds of execute_task, each with its own browser
  Stealth   \* _stealth_enabled()

ASSUME SessionAssumption ==
  /\ Entries \subseteq {"facade", "generate", "replay"}
  /\ Steps \in Nat
  /\ Stealth \in BOOLEAN

VARIABLES
  entry,     \* how this run was started
  flow,      \* whose code runs: "facade", "generate" or "run"
  pc,        \* where it stands
  step,      \* execute_task: the number of its round
  live,      \* what is open in the world: <<kind, flow, round>>
  har,       \* the HAR file: "none", "created", "removed" or "stuck"
  workflow,  \* the graph has a workflow to run
  played,    \* history: what came of the work done on the page
  error,     \* an exception is on its way through the finally blocks
  outcome,   \* what the caller gets
  faults     \* history: the steps that raised

vars == <<entry, flow, pc, step, live, har, workflow, played, error, outcome, faults>>
fixed == <<entry, flow, step, har, workflow>>
-----------------------------------------------------------------------------
NoOutcome == [kind |-> "none", success |-> FALSE]
Raised == [kind |-> "raised", success |-> FALSE]
Result(ok) == [kind |-> "result", success |-> ok]

\* route_run_workflow
FirstFlow(e) ==
  CASE e = "facade" -> "facade" [] e = "generate" -> "generate" [] e = "replay" -> "run"

Init ==
  /\ entry \in Entries
  /\ flow = FirstFlow(entry)
  /\ pc = "start"
  /\ step = 1
  /\ live = {} /\ har = "none"
  /\ workflow = (entry # "generate")
  /\ played = "none" /\ error = FALSE
  /\ outcome = NoOutcome /\ faults = {}

Here(kind) == <<kind, flow, step>>
Fault == faults' = faults \cup {<<flow, pc>>}

\* The exception leaves the outermost function.
Escape == pc' = "done" /\ outcome' = Raised

\* What a handle takes with it when it is closed or lost (Playwright, external).
Beneath(kind) ==
  CASE kind = "page"       -> {Here("page")}
    [] kind = "context"    -> {Here("page"), Here("context")}
    [] kind = "browser"    -> {Here("page"), Here("context"), Here("browser")}
    [] kind = "playwright" -> {r \in live : r[2] = flow}
-----------------------------------------------------------------------------
\* async_playwright().start()
Start ==
  /\ pc = "start"
  /\ live' = live \cup {Here("playwright")}
  /\ pc' = IF flow = "run" THEN "create_har" ELSE "launch"
  /\ UNCHANGED <<fixed, played, error, outcome, faults>>

StartFails ==
  /\ pc = "start"
  /\ Escape /\ Fault
  /\ UNCHANGED <<fixed, live, played, error>>

\* tempfile.NamedTemporaryFile(delete=False) in run_workflow
CreateHar ==
  /\ pc = "create_har"
  /\ har' = "created"
  /\ pc' = "launch"
  /\ UNCHANGED <<entry, flow, step, workflow, live, played, error, outcome, faults>>

CreateHarFails ==
  /\ pc = "create_har"
  /\ Escape /\ Fault
  /\ UNCHANGED <<fixed, live, played, error>>

OpenStages == {"launch", "new_context", "init_script", "new_page"}

\* One step of open_browser_session.
OpenSession ==
  /\ \/ /\ pc = "launch"
        /\ live' = live \cup {Here("browser")}
        /\ pc' = "new_context"
     \/ /\ pc = "new_context"
        /\ live' = live \cup {Here("context")}
        /\ pc' = IF Stealth THEN "init_script" ELSE "new_page"
     \/ /\ pc = "init_script"
        /\ pc' = "new_page"
        /\ UNCHANGED live
     \/ /\ pc = "new_page"
        /\ live' = live \cup {Here("page")}
        /\ pc' = "play"
  /\ UNCHANGED <<fixed, played, error, outcome, faults>>

\* Mutant: the try of _playwright_page begins after the session is open.
OpenSessionFailsOut ==
  /\ pc \in OpenStages
  /\ Fault
  /\ IF flow \in {"run", "facade"} THEN Escape /\ UNCHANGED error
     ELSE pc' = "stop" /\ error' = TRUE /\ UNCHANGED outcome
  /\ UNCHANGED <<fixed, live, played>>

\* One of them raises: nobody has the handles yet. run_workflow has no try around
\* it; the other two stop Playwright in a finally.
OpenSessionFails ==
  /\ pc \in OpenStages
  /\ Fault
  /\ IF flow = "run" THEN Escape /\ UNCHANGED error
     ELSE pc' = "stop" /\ error' = TRUE /\ UNCHANGED outcome
  /\ UNCHANGED <<fixed, live, played>>
-----------------------------------------------------------------------------
\* The remote site or the browser closes what the program is working on.
Lose ==
  /\ pc = "play"
  /\ \E kind \in {"page", "context", "browser"} :
       Here(kind) \in live /\ live' = live \ Beneath(kind)
  /\ UNCHANGED <<fixed, pc, played, error, outcome, faults>>

\* Mutant: run_workflow has no handler for what the execute graph raises.
PlayEscapes ==
  /\ pc = "play"
  /\ \E ok \in BOOLEAN :
       /\ played' = IF ok THEN "success" ELSE "failure"
       /\ error' = (flow = "generate" /\ ~ok)
       /\ IF flow = "run" /\ ~ok THEN Escape
          ELSE /\ pc' = IF flow = "generate" THEN "close_browser" ELSE "close_context"
               /\ UNCHANGED outcome
  /\ UNCHANGED <<fixed, live, faults>>

\* The work on the page is over: runner.run, the execute graph or Agent.run
\* returned or raised. The first two turn an exception into a failed result.
Play ==
  /\ pc = "play"
  /\ \E ok \in BOOLEAN :
       /\ played' = IF ok THEN "success" ELSE "failure"
       /\ error' = (flow = "generate" /\ ~ok)
       /\ faults' = IF flow = "generate" /\ ~ok
                    THEN faults \cup {<<flow, pc>>} ELSE faults
  /\ pc' = IF flow = "generate" THEN "close_browser" ELSE "close_context"
  /\ UNCHANGED <<fixed, live, outcome>>

CloseContext ==
  /\ pc = "close_context"
  /\ live' = live \ Beneath("context")
  /\ pc' = "close_browser"
  /\ UNCHANGED <<fixed, played, error, outcome, faults>>

\* Mutant: the facade does not swallow the errors of closing.
CloseFailsLoudly ==
  /\ pc \in {"close_context", "close_browser"}
  /\ Fault
  /\ IF flow = "run" THEN Escape /\ UNCHANGED error
     ELSE pc' = "stop" /\ error' = TRUE /\ UNCHANGED outcome
  /\ UNCHANGED <<fixed, live, played>>

\* Mutant: execute_task carries on with its next round.
CloseFailsQuietly ==
  /\ pc \in {"close_context", "close_browser"}
  /\ Fault
  /\ \/ /\ flow = "run" /\ Escape
        /\ UNCHANGED <<step, error>>
     \/ /\ flow = "generate"
        /\ IF step < Steps THEN pc' = "launch" /\ step' = step + 1
           ELSE pc' = "stop" /\ UNCHANGED step
        /\ UNCHANGED <<error, outcome>>
     \/ /\ flow = "facade"
        /\ pc' = IF pc = "close_context" THEN "close_browser" ELSE "stop"
        /\ UNCHANGED <<step, error, outcome>>
  /\ UNCHANGED <<entry, flow, har, workflow, live, played>>

\* context.close() or browser.close() raises with the handle still open.
\* _playwright_page swallows it; execute_task's finally hands it on to
\* generate_workflow's; the finally of run_workflow is left where it stands.
CloseFails ==
  /\ pc \in {"close_context", "close_browser"}
  /\ Fault
  /\ \/ /\ flow = "run" /\ Escape
        /\ UNCHANGED error
     \/ /\ flow = "generate"
        /\ pc' = "stop" /\ error' = TRUE
        /\ UNCHANGED outcome
     \/ /\ flow = "facade"
        /\ pc' = IF pc = "close_context" THEN "close_browser" ELSE "stop"
        /\ UNCHANGED <<error, outcome>>
  /\ UNCHANGED <<fixed, live, played>>

\* execute_task: range(max(1, steps))
MoreRounds == step < Steps

\* browser.close(); the finally of execute_task ends a round.
CloseBrowser ==
  /\ pc = "close_browser"
  /\ live' = live \ Beneath("browser")
  /\ \/ /\ flow = "generate" /\ ~error /\ MoreRounds
        /\ pc' = "launch" /\ step' = step + 1
     \/ /\ flow = "generate" /\ ~error /\ ~MoreRounds
        /\ pc' = "convert"
        /\ UNCHANGED step
     \/ /\ flow # "generate" \/ error
        /\ pc' = "stop"
        /\ UNCHANGED step
  /\ UNCHANGED <<entry, flow, har, workflow, played, error, outcome, faults>>

\* The generate_workflow node of the inner graph and the parameterization: one
\* workflow made of the histories, or an exception. (Steps always leave at
\* least one history, so the node always reports success.)
Convert ==
  /\ pc = "convert"
  /\ \E ok \in BOOLEAN :
       /\ workflow' = ok
       /\ error' = ~ok
       /\ faults' = IF ok THEN faults ELSE faults \cup {<<flow, pc>>}
  /\ pc' = "stop"
  /\ UNCHANGED <<entry, flow, step, har, live, played, outcome>>
-----------------------------------------------------------------------------
\* playwright.stop(): the driver and all it launched are gone (external). Then
\* the exception goes on, the result is returned, or route_run_generated_workflow
\* sends the generated workflow to run_workflow.
Stop ==
  /\ pc = "stop"
  /\ live' = live \ Beneath("playwright")
  /\ \/ /\ error /\ Escape
        /\ UNCHANGED <<flow, step, played>>
     \/ /\ ~error /\ flow = "facade"
        /\ pc' = "done" /\ outcome' = Result(played = "success")
        /\ UNCHANGED <<flow, step, played>>
     \/ /\ ~error /\ flow = "generate"
        /\ pc' = "start" /\ flow' = "run" /\ step' = 1 /\ played' = "none"
        /\ UNCHANGED outcome
     \/ /\ ~error /\ flow = "run"
        /\ pc' = "read_har"
        /\ UNCHANGED <<flow, step, played, outcome>>
  /\ UNCHANGED <<entry, har, workflow, error, faults>>

\* playwright.stop() raises, with the driver gone or still there. No flow has a
\* handler for it: the exception takes the place of the one on its way, or of the
\* result that was ready.
StopFails ==
  /\ pc = "stop"
  /\ live' \in {live, live \ Beneath("playwright")}
  /\ Escape /\ Fault
  /\ UNCHANGED <<fixed, played, error>>

\* run_workflow reads the HAR file, whatever it holds, removes it (an OSError of
\* os.unlink is ignored) and returns.
ReadHar ==
  /\ pc = "read_har"
  /\ har' \in {"removed", "stuck"}
  /\ faults' = IF har' = "stuck" THEN faults \cup {<<flow, pc>>} ELSE faults
  /\ pc' = "done"
  /\ outcome' = Result(played = "success")
  /\ UNCHANGED <<entry, flow, step, workflow, live, played, error>>
-----------------------------------------------------------------------------
Next ==
  \/ Start \/ StartFails \/ CreateHar \/ CreateHarFails
  \/ OpenSession \/ OpenSessionFails
  \/ Lose \/ Play \/ CloseContext \/ CloseFails \/ CloseBrowser
  \/ Convert \/ Stop \/ StopFails \/ ReadHar

Spec == Init /\ [][Next]_vars /\ WF_vars(Next)
-----------------------------------------------------------------------------
(* Properties *)

Flows == {"facade", "generate", "run"}
Kinds == {"playwright", "browser", "context", "page"}
Places == OpenStages \cup {"start", "create_har", "play", "close_context",
            "close_browser", "convert", "stop", "read_har", "done"}

\* Every variable keeps its type, and rounds are counted up to Steps.
TypeOk ==
  /\ entry \in Entries /\ flow \in Flows /\ pc \in Places
  /\ step \in 1..(IF Steps > 1 THEN Steps ELSE 1)
  /\ live \subseteq Kinds \X Flows \X Nat
  /\ har \in {"none", "created", "removed", "stuck"}
  /\ workflow \in BOOLEAN /\ error \in BOOLEAN
  /\ played \in {"none", "success", "failure"}
  /\ outcome \in [kind : {"none", "raised", "result"}, success : BOOLEAN]
  /\ faults \subseteq Flows \X Places

\* Whoever gets a result leaves nothing open; so do, whatever else raised and
\* wherever, a replay through NetGent and a failed generation, unless stopping
\* their own driver raised. A HAR file stays only if the file system refuses to
\* remove it.
NothingIsLeftBehind ==
  pc = "done" =>
    \/ live = {} /\ har # "created"
    \/ outcome.kind = "raised" /\ (flow = "run" \/ <<flow, "stop">> \in faults)

\* The steps behind the work that can turn a finished run into an exception.
\* _playwright_page swallows what closing raises ("Swallow teardown errors so a
\* successful workflow run isn't masked by a TargetClosedError"), but not what
\* playwright.stop() raises; the finally of run_workflow guards none of the three.
MayMaskTheRun == IF flow = "facade" THEN {"stop"}
                 ELSE {"close_context", "close_browser", "stop"}

\* Who gets a result is told what came of the work on the page of a given or
\* generated workflow. And a replay that was done on the page is reported as an
\* exception only because one of the steps MayMaskTheRun names raised after it: in
\* NetGent's flow closing the context or the browser never does that.
OutcomeIsOfTheRun ==
  pc = "done" =>
    /\ outcome.kind = "result" =>
         workflow /\ played # "none" /\ outcome.success = (played = "success")
    /\ outcome.kind = "raised" /\ flow # "generate" /\ played # "none" =>
         \E stage \in MayMaskTheRun : <<flow, stage>> \in faults

\* What is left behind is left because a step of the flow that ended the run raised:
\* creating the HAR file, opening or closing the session in run_workflow, stopping
\* the driver anywhere. An exception of the work itself is never the reason.
LeftoversHaveACause ==
  pc = "done" /\ (live # {} \/ har = "created") =>
    \E f \in faults :
      /\ f[1] = flow
      /\ \/ f[2] = "stop"
         \/ flow = "run" /\ f[2] \in OpenStages \cup {"create_har", "close_context",
                                                     "close_browser"}

\* However many rounds and flows a run has, there is one driver and one browser
\* at a time, and the workflow is replayed in a browser of its own, with nothing
\* of the generator still open.
OneBrowserAtATime ==
  /\ \A r, s \in live : r[1] = s[1] => r = s
  /\ flow = "run" => \A r \in live : r[2] = "run"

=============================================================================
