----------------------------- MODULE ShellAgent -----------------------------
(***************************************************************************)
(* The shell agent (agents/subagents/shell/agent.py and tool_nodes.py): a   *)
(* model decides on measurements, one node performs the first call of each  *)
(* message and answers it, until the model hands over; then every call of   *)
(* the conversation becomes an action of a workflow, which is run at once   *)
(* through the engine. A measurement is a service over an adapter that runs *)
(* a binary (services/, adapters/); its failures are classified there.      *)
(*                                                                         *)
(* A call is [name, host, option]: the option is the count of a ping, the   *)
(* port of an iperf test, the timeout of an ndt test. What WorkflowEngine   *)
(* models of a replay is one step per action here.                          *)
(***************************************************************************)
EXTENDS Naturals, Sequences, SequencesExt

CONSTANTS
  Texts,      \* the strings found as names and arguments of calls
  Decisions,  \* the sequences of tool calls a message of the model may hold
  Given,      \* workflows a caller may pass, as sequences of actions; <<>> is none
  Supplied,   \* the caller's parameters, name -> value
  Limit       \* recursion_limit of the graph, in nodes

None == "none"  \* an argument that is not given
Execution == {"RunIPerf3Tool", "RunNDT7Tool", "RunPingTool"}
\* WORKFLOW_ACTION_TYPES
ActionType(name) == CASE name = "RunIPerf3Tool" -> "iperf" [] name = "RunNDT7Tool" -> "ndt" [] name = "RunPingTool" -> "ping"

ToolCall == [name : Texts, host : Texts, option : Texts]
\* An argument of an action: a value, or the placeholder of a parameter.
Argument == ({"value"} \X Texts) \cup ({"hole"} \X DOMAIN Supplied)
Action == [type : {"iperf", "ndt", "ping", "wget"}, host : Argument, option : Argument]

ASSUME ShellAssumption ==
  /\ Limit \in Nat
  /\ {None, "None", "RunPingTool", "5201", "55s", "neither"} \subseteq Texts
  /\ \A n \in DOMAIN Supplied : Supplied[n] \in Texts \ {None, "neither"}
  /\ Decisions \subseteq Seq(ToolCall)
  /\ Given \subseteq Seq(Action)

VARIABLES
  pc,        \* the node that is next: "decide", "tool", "generate", "run", the runner
             \* in "replay", or "done", "raised"
  steps,     \* nodes the graph has run
  messages,  \* [kind, calls, ok]: "ai" messages of the model, "tool" answers and
             \* "unknown" answers that there is no such tool
  executed,  \* history: the calls whose command was started before the hand-over
  workflow,  \* the actions [type, host, option] of the one state
  replayed,  \* history: [type, command, outcome] of each action run by the engine
  result     \* "none", "success" or "failure"

vars == <<pc, steps, messages, executed, workflow, replayed, result>>
-----------------------------------------------------------------------------
\* What each service hands to its adapter: a port and a timeout are filled in,
\* the count of a ping is handed on as it is.
IperfRun(host, port) == <<host, IF port = None THEN "5201" ELSE port>>
NdtRun(timeout) == <<None, IF timeout = None THEN "55s" ELSE timeout>>
PingRun(host, count) == <<host, count>>
WgetRun(url, output) == <<url, output>>

Arguments(type, host, option) ==
  CASE type = "iperf" -> IperfRun(host, option)
    [] type = "ndt"   -> NdtRun(option)
    [] type = "ping"  -> PingRun(host, option)
    [] type = "wget"  -> WgetRun(host, option)

\* The command line that is started: the count of a ping is always formatted,
\* what else is not given is left out.
Command(type, host, option) ==
  LET arguments == Arguments(type, host, option) IN
  [tool |-> type, host |-> arguments[1],
   option |-> IF type = "ping" /\ arguments[2] = None THEN "None" ELSE arguments[2]]

CommandFor(call) == Command(ActionType(call.name), call.host, call.option)

\* How a command can end (the system, external). ping takes only a number of packets.
Outcomes(command) ==
  {"nonzero", "missing", "denied", "io"}
  \cup (IF command.tool = "ping" /\ command.option = "None" THEN {} ELSE {"ok"})

\* map_error of the adapters and the exit status check of the services
Classified(outcome) ==
  CASE outcome = "ok" -> "success" [] outcome = "io" -> "transient" [] OTHER -> "business"

\* Raised before a command is started: args["host"] is missing.
Incomplete(call) == call.name # "RunNDT7Tool" /\ call.host = None
\* An ndt test with neither download nor upload, written here as its option.
Refused(call) == call.name = "RunNDT7Tool" /\ call.option = "neither"
-----------------------------------------------------------------------------
Init ==
  /\ workflow \in Given
  /\ pc = IF workflow = <<>> THEN "decide" ELSE "run"
  /\ steps = 1 \* add_task_message
  /\ messages = <<>> /\ executed = <<>> /\ replayed = <<>>
  /\ result = "none"

\* A node runs; the graph raises instead when the limit is reached.
Node(name) == pc = name /\ steps < Limit /\ steps' = steps + 1

LimitReached ==
  /\ pc \in {"decide", "tool", "generate", "run"}
  /\ steps >= Limit
  /\ pc' = "raised"
  /\ UNCHANGED <<steps, messages, executed, workflow, replayed, result>>

Ai(calls) == [kind |-> "ai", calls |-> calls, ok |-> TRUE]
Answer(ok) == [kind |-> "tool", calls |-> <<>>, ok |-> ok]
NoSuchTool == [kind |-> "unknown", calls |-> <<>>, ok |-> FALSE]
Call == Last(messages).calls[1]

\* decide and route_decision
Decide ==
  /\ Node("decide")
  /\ \E calls \in Decisions :
       /\ messages' = Append(messages, Ai(calls))
       /\ pc' = IF calls = <<>> THEN "generate" ELSE "tool"
  /\ UNCHANGED <<executed, workflow, replayed, result>>

DecideRaises ==
  /\ Node("decide")
  /\ pc' = "raised"
  /\ UNCHANGED <<messages, executed, workflow, replayed, result>>

\* run_ping, run_iperf3 and run_ndt7: only the tool's own errors are answered.
RunTool ==
  /\ Node("tool") /\ Call.name \in Execution
  /\ ~Incomplete(Call) /\ ~Refused(Call)
  /\ \E outcome \in Outcomes(CommandFor(Call)) :
       IF Classified(outcome) = "transient"
       THEN pc' = "raised" /\ UNCHANGED messages
       ELSE pc' = "decide" /\ messages' = Append(messages, Answer(outcome = "ok"))
  /\ executed' = Append(executed, Call)
  /\ UNCHANGED <<workflow, replayed, result>>

ToolRaises ==
  /\ Node("tool") /\ Call.name \in Execution /\ Incomplete(Call)
  /\ pc' = "raised"
  /\ UNCHANGED <<messages, executed, workflow, replayed, result>>

RefuseNdt ==
  /\ Node("tool") /\ Refused(Call)
  /\ messages' = Append(messages, Answer(FALSE))
  /\ pc' = "decide"
  /\ UNCHANGED <<executed, workflow, replayed, result>>

SendMessage ==
  /\ Node("tool") /\ Call.name = "SendMessage"
  /\ messages' = Append(messages, Answer(TRUE))
  /\ pc' = "generate"
  /\ UNCHANGED <<executed, workflow, replayed, result>>

\* bad_tool_name takes the colons out of the name in the message itself, which
\* replaces the one in the conversation, and answers that there is no such tool.
BadToolName ==
  /\ Node("tool") /\ Call.name \notin Execution \cup {"SendMessage"}
  /\ LET name == IF Call.name = "RunPingTool:" THEN "RunPingTool" ELSE Call.name
         repaired == Ai([Last(messages).calls EXCEPT ![1].name = name])
     IN messages' = Append([messages EXCEPT ![Len(messages)] = repaired], NoSuchTool)
  /\ pc' = "decide"
  /\ UNCHANGED <<executed, workflow, replayed, result>>
-----------------------------------------------------------------------------
\* The calls of a message that EXECUTION_TOOL_ROUTES knows.
Measurements(calls) ==
  FlattenSeq([k \in DOMAIN calls |-> IF calls[k].name \in Execution THEN <<calls[k]>> ELSE <<>>])

\* Mutant: the calls of a message whose answer reports a failure are left out.
OnlyAnswered(ms) ==
  LET Answered(i) == i = Len(ms) \/ ms[i + 1].ok
  IN FlattenSeq([i \in DOMAIN ms |-> IF Answered(i) THEN Measurements(ms[i].calls) ELSE <<>>])

\* extract_tool_runs: every call of a measurement, whether it was run or not
extract_tool_runs(ms) == FlattenSeq([i \in DOMAIN ms |-> Measurements(ms[i].calls)])

\* An argument, number or text, that is the value of a parameter becomes its
\* placeholder.
Embedded(argument) ==
  IF \E n \in DOMAIN Supplied : Supplied[n] = argument
  THEN <<"hole", CHOOSE n \in DOMAIN Supplied : Supplied[n] = argument>>
  ELSE <<"value", argument>>

\* workflow_conversion, and the placeholders of generate_workflow
Converted(call) ==
  [type |-> ActionType(call.name), host |-> Embedded(call.host),
   option |-> Embedded(call.option)]

Generate ==
  /\ Node("generate")
  /\ LET runs == extract_tool_runs(messages) IN workflow' = [i \in DOMAIN runs |-> Converted(runs[i])]
  /\ pc' = "run"
  /\ UNCHANGED <<messages, executed, replayed, result>>
-----------------------------------------------------------------------------
\* _resolve_params
Filled(argument) == IF argument[1] = "hole" THEN Supplied[argument[2]] ELSE argument[2]

CommandOf(action) == Command(action.type, Filled(action.host), Filled(action.option))

\* WorkflowRunner.validate binds every action before the first one is performed.
Valid == \A i \in DOMAIN workflow : workflow[i].type # "ndt" => Filled(workflow[i].host) # None

\* The action returns or raises: whatever it raises becomes an ActionError.
ReplayOutcomes(action) ==
  IF action.type = "ndt" /\ Filled(action.option) = "neither" THEN {"error"}
  ELSE Outcomes(CommandOf(action))

Stopped == replayed # <<>> /\ Last(replayed).outcome # "ok"

\* run_workflow answers an exception of the runner with a failure.
RunRejects ==
  /\ Node("run") /\ ~Valid
  /\ result' = "failure" /\ pc' = "done"
  /\ UNCHANGED <<messages, executed, workflow, replayed>>

RunStarts ==
  /\ Node("run") /\ Valid
  /\ pc' = "replay"
  /\ UNCHANGED <<messages, executed, workflow, replayed, result>>

\* One action of the runner after the other, up to the first that raises.
Replay ==
  /\ pc = "replay" /\ Len(replayed) < Len(workflow) /\ ~Stopped
  /\ LET action == workflow[Len(replayed) + 1]
     IN \E outcome \in ReplayOutcomes(action) :
          replayed' = Append(replayed, [type |-> action.type, command |-> CommandOf(action),
                                        outcome |-> outcome])
  /\ UNCHANGED <<pc, steps, messages, executed, workflow, result>>

\* Mutant: a stopped replay is a success.
ReportSuccess ==
  /\ pc = "replay" /\ (Stopped \/ Len(replayed) = Len(workflow))
  /\ result' = "success" /\ pc' = "done"
  /\ UNCHANGED <<steps, messages, executed, workflow, replayed>>

Report ==
  /\ pc = "replay" /\ (Stopped \/ Len(replayed) = Len(workflow))
  /\ result' = IF Stopped THEN "failure" ELSE "success"
  /\ pc' = "done"
  /\ UNCHANGED <<steps, messages, executed, workflow, replayed>>

Next ==
  \/ LimitReached \/ Decide \/ DecideRaises
  \/ RunTool \/ ToolRaises \/ RefuseNdt \/ SendMessage \/ BadToolName
  \/ Generate \/ RunRejects \/ RunStarts \/ Replay \/ Report

Spec == Init /\ [][Next]_vars
-----------------------------------------------------------------------------
(* Properties *)

\* The action a is what became of the call c.
Same(a, c) ==
  a.type = ActionType(c.name) /\ Filled(a.host) = c.host /\ Filled(a.option) = c.option

\* Every message had one call at most, which its tool did not refuse, and no name
\* was repaired.
Plain(ms) ==
  \A i \in DOMAIN ms :
    /\ Len(ms[i].calls) <= 1 /\ \A c \in ToSet(ms[i].calls) : ~Refused(c)
    /\ ms[i].kind # "unknown"

\* The workflow made of a conversation holds every measurement that was run, in
\* the order it was run and with its arguments, failed ones included. It holds
\* nothing else unless a message had more than one call, a name was repaired
\* after the call, or an ndt test was refused: those calls become actions too.
WorkflowHoldsWhatRan ==
  (pc \in {"run", "replay", "done"} /\ messages # <<>>) =>
    /\ \E f \in [DOMAIN executed -> DOMAIN workflow] :
         /\ \A i, j \in DOMAIN executed : i < j => f[i] < f[j]
         /\ \A i \in DOMAIN executed : Same(workflow[f[i]], executed[i])
    /\ Plain(messages) => Len(workflow) = Len(executed)

\* A success is reported exactly when every action of the workflow was performed and
\* returned. If the workflow is that of a conversation, a success then says that each
\* measurement run in it was started again, in the same order and with the very
\* command line it had there, whatever was replaced by placeholders in between.
\* An action is tried once: no class of error is retried, although AdapterResult.unwrap
\* says that a TransientError is (adapters/base.py:37-40).
ReportIsOfTheReplay ==
  pc = "done" =>
    /\ result = "success" <=> /\ Len(replayed) = Len(workflow)
                              /\ \A i \in DOMAIN replayed : replayed[i].outcome = "ok"
    /\ (result = "success" /\ messages # <<>>) =>
         \E f \in [DOMAIN executed -> DOMAIN replayed] :
           /\ \A i, j \in DOMAIN executed : i < j => f[i] < f[j]
           /\ \A i \in DOMAIN executed : replayed[f[i]].command = CommandFor(executed[i])
=============================================================================
