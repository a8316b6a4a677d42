----------------------------- MODULE LLMService -----------------------------
(***************************************************************************)
(* The LLM service (services/llm/service.py): concurrent calls with retries *)
(* and circular fallback over the registered models.                        *)
(*                                                                         *)
(* All callers share one service object. Its coroutines run on one event    *)
(* loop, so a step here is what a coroutine does between two awaits: the    *)
(* shared fields are read and written between the failure of one request    *)
(* and the start of the next one, and other calls run while it is pending.  *)
(* Models are the positions 0..N-1 of LLMRegistry.LLMS.                     *)
(***************************************************************************)
EXTENDS Naturals, Sequences, FiniteSets

CONSTANTS
  N,         \* number of registered models
  Callers,   \* concurrent users of the service
  Defaults,  \* those that call it without model_name, format or model_kwargs
  ToolSets,  \* lists of tools bind_tools may be given
  NoTools,   \* the empty list
  Accepts,   \* pairs <<model, tools>> for which the model's bind_tools returns
  MaxTries,  \* MAX_LLM_CALL_RETRIES, the attempts made with one model
  MaxCalls   \* bound: calls one caller makes, one after the other

Models == 0..(N - 1)

ASSUME ServiceAssumption ==
  /\ N \in Nat \ {0} /\ MaxTries \in Nat \ {0} /\ MaxCalls \in Nat
  /\ Defaults \subseteq Callers
  /\ NoTools \notin ToolSets
  /\ Accepts \subseteq Models \X ToolSets

VARIABLES
  index,    \* _current_model_index
  llm,      \* _llm: a model with the tools bound to it
  bound,    \* _bound_tools
  pc,       \* per caller: "idle", "request", "backoff" or "done"
  target,   \* the Runnable the call is using
  tried,    \* models_tried
  tries,    \* attempts made with the target
  outcome,  \* how the last call ended
  made,     \* number of calls started
  asked     \* history: the models the call turned to, in order

shared == <<index, llm, bound>>
vars == <<index, llm, bound, pc, target, tried, tries, outcome, made, asked>>

Handle == [model : Models, tools : ToolSets \cup {NoTools}]
Plain(m) == [model |-> m, tools |-> NoTools]

\* LLMService.__init__: the default model, or the first one if it is unknown.
Init ==
  /\ index \in Models
  /\ llm = Plain(index)
  /\ bound = NoTools
  /\ pc = [c \in Callers |-> "idle"]
  /\ target = [c \in Callers |-> Plain(0)]
  /\ tried = [c \in Callers |-> 0]
  /\ tries = [c \in Callers |-> 0]
  /\ outcome = [c \in Callers |-> "none"]
  /\ made = [c \in Callers |-> 0]
  /\ asked = [c \in Callers |-> <<>>]
-----------------------------------------------------------------------------
\* Mutant: the index does not wrap around.
Beyond(m) == m + 1

\* (m + 1) % N
Succ(m) == IF m + 1 = N THEN 0 ELSE m + 1

\* bind_tools; a model that does not take the tools raises after _bound_tools
\* was assigned.
BindTools ==
  /\ \E t \in ToolSets :
       /\ bound' = t
       /\ llm' = IF <<llm.model, t>> \in Accepts THEN [llm EXCEPT !.tools = t] ELSE llm
  /\ UNCHANGED <<index, pc, target, tried, tries, outcome, made, asked>>

CanSwitch == bound = NoTools \/ <<Succ(index), bound>> \in Accepts

\* Mutant: the tools are not bound to the next model.
SwitchForgets ==
  /\ index' = Succ(index)
  /\ llm' = Plain(Succ(index))
  /\ UNCHANGED bound

\* _switch_to_next_model: the next model replaces the default one before the
\* tools are bound to it, so it stays in place when that raises.
Switch ==
  /\ index' = Succ(index)
  /\ llm' = IF CanSwitch THEN [model |-> Succ(index), tools |-> bound]
            ELSE Plain(Succ(index))
  /\ UNCHANGED bound

\* A first attempt with the Runnable h, as the n-th model of the call.
Ask(c, h, n, before) ==
  /\ pc' = [pc EXCEPT ![c] = "request"]
  /\ target' = [target EXCEPT ![c] = h]
  /\ tried' = [tried EXCEPT ![c] = n]
  /\ tries' = [tries EXCEPT ![c] = 1]
  /\ asked' = [asked EXCEPT ![c] = Append(before, h.model)]

End(c, how) ==
  /\ pc' = [pc EXCEPT ![c] = "done"]
  /\ outcome' = [outcome EXCEPT ![c] = how]
  /\ UNCHANGED <<target, tried, tries, made, asked>>

Ready(c) == pc[c] \in {"idle", "done"} /\ made[c] < MaxCalls

Begun(c) ==
  /\ outcome' = [outcome EXCEPT ![c] = "none"]
  /\ made' = [made EXCEPT ![c] = @ + 1]
  /\ UNCHANGED shared

\* call on the default path: the target is self._llm.
CallDefault(c) ==
  /\ Ready(c) /\ c \in Defaults
  /\ Ask(c, llm, 1, <<>>)
  /\ Begun(c)

\* call with overrides: a Runnable of its own, of the named model or else of the
\* current one.
CallOverride(c) ==
  /\ Ready(c) /\ c \notin Defaults
  /\ \E m \in Models : Ask(c, Plain(m), 1, <<>>)
  /\ Begun(c)

\* call with a model_name that is not registered.
CallUnknown(c) ==
  /\ Ready(c) /\ c \notin Defaults
  /\ pc' = [pc EXCEPT ![c] = "done"]
  /\ outcome' = [outcome EXCEPT ![c] = "raised"]
  /\ made' = [made EXCEPT ![c] = @ + 1]
  /\ asked' = [asked EXCEPT ![c] = <<>>]
  /\ UNCHANGED <<index, llm, bound, target, tried, tries>>
-----------------------------------------------------------------------------
\* What becomes of a request.

Answered(c) ==
  /\ pc[c] = "request"
  /\ End(c, "answer")
  /\ UNCHANGED shared

\* An exception that is not retryable.
Raised(c) ==
  /\ pc[c] = "request"
  /\ End(c, "raised")
  /\ UNCHANGED shared

\* A transient error with attempts left: tenacity sleeps.
BackOff(c) ==
  /\ pc[c] = "request" /\ tries[c] < MaxTries
  /\ pc' = [pc EXCEPT ![c] = "backoff"]
  /\ UNCHANGED <<shared, target, tried, tries, outcome, made, asked>>

\* Mutant: the attempts are not counted.
RetryUncounted(c) ==
  /\ pc[c] = "backoff"
  /\ pc' = [pc EXCEPT ![c] = "request"]
  /\ UNCHANGED <<shared, target, tried, tries, outcome, made, asked>>

Retry(c) ==
  /\ pc[c] = "backoff"
  /\ pc' = [pc EXCEPT ![c] = "request"]
  /\ tries' = [tries EXCEPT ![c] = @ + 1]
  /\ UNCHANGED <<shared, target, tried, outcome, made, asked>>

\* The last attempt with this model failed.
ModelFailed(c) == pc[c] = "request" /\ tries[c] = MaxTries

\* Mutant: the loop runs over one model less.
ExhaustedEarly(c) ==
  /\ ModelFailed(c) /\ tried[c] + 1 >= N
  /\ End(c, "exhausted")
  /\ UNCHANGED shared

Exhausted(c) ==
  /\ ModelFailed(c) /\ tried[c] >= N
  /\ End(c, "exhausted")
  /\ UNCHANGED shared

\* Mutant: an override moves the shared model on.
OverrideSwitches(c) ==
  /\ ModelFailed(c) /\ tried[c] < N /\ c \notin Defaults
  /\ Switch
  /\ Ask(c, Plain(index'), tried[c] + 1, asked[c])
  /\ UNCHANGED <<outcome, made>>

\* _override_advance
OverrideAdvances(c) ==
  /\ ModelFailed(c) /\ tried[c] < N /\ c \notin Defaults
  /\ Ask(c, Plain(Succ(target[c].model)), tried[c] + 1, asked[c])
  /\ UNCHANGED <<shared, outcome, made>>

\* _default_advance, over the fields shared with every other default call.
DefaultAdvances(c) ==
  /\ ModelFailed(c) /\ tried[c] < N /\ c \in Defaults
  /\ CanSwitch
  /\ Switch
  /\ Ask(c, llm', tried[c] + 1, asked[c])
  /\ UNCHANGED <<outcome, made>>

\* The switch raised: the loop ends before every model was tried.
SwitchFails(c) ==
  /\ ModelFailed(c) /\ tried[c] < N /\ c \in Defaults
  /\ ~CanSwitch
  /\ Switch
  /\ End(c, "unswitched")

\* asyncio.wait_for cancels the call.
TimesOut(c) ==
  /\ pc[c] \in {"request", "backoff"}
  /\ End(c, "timeout")
  /\ UNCHANGED shared
-----------------------------------------------------------------------------
Begin(c) == CallDefault(c) \/ CallOverride(c) \/ CallUnknown(c)

Continue(c) ==
  \/ Answered(c) \/ Raised(c) \/ BackOff(c) \/ Retry(c) \/ Exhausted(c)
  \/ OverrideAdvances(c) \/ DefaultAdvances(c) \/ SwitchFails(c) \/ TimesOut(c)

Next == BindTools \/ \E c \in Callers : Begin(c) \/ Continue(c)

Spec == Init /\ [][Next]_vars /\ \A c \in Callers : WF_vars(Continue(c))
-----------------------------------------------------------------------------
(* Properties *)

Outcomes == {"none", "answer", "raised", "exhausted", "unswitched", "timeout"}

\* Every variable keeps the shape the Python objects have.
TypeOk ==
  /\ index \in Models
  /\ llm \in Handle
  /\ bound \in ToolSets \cup {NoTools}
  /\ pc \in [Callers -> {"idle", "request", "backoff", "done"}]
  /\ target \in [Callers -> Handle]
  /\ tried \in [Callers -> 0..N]
  /\ tries \in [Callers -> 0..MaxTries]
  /\ outcome \in [Callers -> Outcomes]
  /\ made \in [Callers -> 0..MaxCalls]
  /\ asked \in [Callers -> Seq(Models)]

\* The default model is the one its index names and, if that model takes them, has
\* the tools bound last, however many switches and calls are under way ("tool
\* bindings survive switching models on retry", LLMService).
ToolsSurvive ==
  (bound = NoTools \/ <<index, bound>> \in Accepts)
    => llm = [model |-> index, tools |-> bound]

\* A call never moves the default model unless it is a default call ("without
\* touching self._llm, so concurrent default-path calls are never affected").
OverridesLeaveTheDefaultAlone ==
  [][\A c \in Callers \ Defaults : asked'[c] # asked[c] => UNCHANGED shared]_vars

\* The position k - 1 places behind the first one.
Place(first, k) == IF first + k - 1 < N THEN first + k - 1 ELSE first + k - 1 - N

Elements(s) == {s[k] : k \in DOMAIN s}

\* A sequence of models in circular order.
Circular(s) == \A k \in DOMAIN s : s[k] = Place(s[1], k)

\* A call with overrides goes round the models in circular order from the one it
\* began with, whatever the others do, and gives up only after every one of them.
OverrideGoesRound ==
  \A c \in Callers \ Defaults :
    /\ Circular(asked[c])
    /\ outcome[c] = "exhausted" => Elements(asked[c]) = Models

\* A default call that reports that all models failed has asked every one of them
\* ("Raises RuntimeError: when all models fail after retries", call).
FailureMeansAllFailed ==
  \A c \in Defaults :
    outcome[c] = "exhausted" => Elements(asked[c]) = Models

\* Every call ends: the retries and the models are finite in number.
EveryCallEnds ==
  \A c \in Callers : pc[c] \in {"request", "backoff"} ~> pc[c] = "done"
=============================================================================
