---------------------------- MODULE MCLLMService ----------------------------
(***************************************************************************)
(* Small instances of LLMService: two attempts with each model.             *)
(***************************************************************************)
EXTENDS LLMService

CONSTANTS d, e, o, tools, others

TwoDefaults == {d, e}
AllCallers == {d, e, o}
AllTools == {tools, others}
AllAccept == Models \X ToolSets
\* The last model rejects one list of tools.
SomeAccept == AllAccept \ {<<N - 1, others>>}
=============================================================================
