--------------------------- MODULE ReplayContract ---------------------------
(***************************************************************************)
(* What a replay promises, without triggers, pages, parameters or results:  *)
(* either it refuses and performs nothing, or it picks states of the script *)
(* in order and performs their actions one after the other, and reports     *)
(* success exactly when none of them is missing.                            *)
(***************************************************************************)
EXTENDS Naturals, Sequences

CONSTANT Scripts     \* per workflow: the action list of each of its states

VARIABLES multiple,  \* may more than one state be picked?
          script,    \* the script being replayed
          picked,    \* indices of the states to replay, <<>> until they are known
          performed, \* the actions performed so far, per picked state
          verdict    \* "open", "success" or "failure"

vars == <<multiple, script, picked, performed, verdict>>

Init ==
  /\ multiple \in BOOLEAN
  /\ script \in Scripts
  /\ picked = <<>> /\ performed = <<>>
  /\ verdict = "open"

Ascending(s) == \A i, j \in DOMAIN s : i < j => s[i] < s[j]

Picks == {p \in UNION {[1..n -> DOMAIN script] : n \in 1..Len(script)} :
            Ascending(p) /\ (Len(p) = 1 \/ multiple)}

Current == Len(performed)
Missing == Len(performed[Current]) < Len(script[picked[Current]])

Refuse ==
  /\ verdict = "open" /\ picked = <<>>
  /\ verdict' = "failure"
  /\ UNCHANGED <<multiple, script, picked, performed>>

NothingApplies ==
  /\ verdict = "open" /\ picked = <<>>
  /\ verdict' = "success"
  /\ UNCHANGED <<multiple, script, picked, performed>>

Pick ==
  /\ verdict = "open" /\ picked = <<>>
  /\ picked' \in Picks
  /\ performed' = <<<<>>>>
  /\ UNCHANGED <<multiple, script, verdict>>

PerformNext ==
  /\ verdict = "open" /\ picked # <<>> /\ Missing
  /\ LET next == script[picked[Current]][Len(performed[Current]) + 1]
     IN performed' = [performed EXCEPT ![Current] = Append(@, next)]
  /\ UNCHANGED <<multiple, script, picked, verdict>>

EnterState ==
  /\ verdict = "open" /\ picked # <<>> /\ ~Missing
  /\ Current < Len(picked)
  /\ performed' = Append(performed, <<>>)
  /\ UNCHANGED <<multiple, script, picked, verdict>>

Finish ==
  /\ verdict = "open" /\ picked # <<>> /\ ~Missing
  /\ Current = Len(picked)
  /\ verdict' = "success"
  /\ UNCHANGED <<multiple, script, picked, performed>>

GiveUp ==
  /\ verdict = "open" /\ picked # <<>> /\ Missing
  /\ verdict' = "failure"
  /\ UNCHANGED <<multiple, script, picked, performed>>

Next == \/ Refuse \/ NothingApplies \/ Pick
        \/ PerformNext \/ EnterState \/ Finish \/ GiveUp

Spec == Init /\ [][Next]_vars /\ WF_vars(Next)
=============================================================================
