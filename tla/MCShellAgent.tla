---------------------------- MODULE MCShellAgent ----------------------------
(***************************************************************************)
(* A small instance of ShellAgent: calls with and without host and option,   *)
(* several calls in a message, a name with a colon and an unknown one.      *)
(***************************************************************************)
EXTENDS ShellAgent

MCTexts == {None, "None", "host", "other", "3", "neither", "5201", "55s", "RunPingTool",
            "RunPingTool:", "RunIPerf3Tool", "RunNDT7Tool", "SendMessage", "Lookup"}

C(name, host, option) == [name |-> name, host |-> host, option |-> option]
Ping == C("RunPingTool", "host", "3")
Send == C("SendMessage", None, None)
MCDecisions ==
  {<<>>, <<Ping>>, <<C("RunPingTool", "other", None)>>, <<C("RunIPerf3Tool", None, None)>>,
   <<C("RunIPerf3Tool", "host", None), Ping>>, <<C("RunNDT7Tool", None, "neither")>>,
   <<Send>>, <<Send, C("RunNDT7Tool", None, None), C("RunPingTool", None, None)>>,
   <<C("RunPingTool:", "host", "3")>>, <<C("Lookup", None, None)>>}
Value(v) == <<"value", v>>
MCGiven ==
  {<<>>, <<[type |-> "ping", host |-> Value("other"), option |-> Value("3")],
           [type |-> "wget", host |-> <<"hole", "server">>, option |-> Value(None)]>>}
MCSupplied == [server |-> "host", count |-> "3"]
=============================================================================
