-------------------------- MODULE LLMService_proofs --------------------------
(***************************************************************************)
(* Safety of LLMService for every number of models, callers and attempts.   *)
(***************************************************************************)
EXTENDS LLMService, TLAPS

Active(c) == pc[c] \in {"request", "backoff"}

\* The models a call turned to are counted by tried, the last is its target, and a
\* call that sleeps has attempts left.
CountOk ==
  \A c \in Callers :
    /\ Active(c) => /\ tried[c] = Len(asked[c]) /\ tried[c] # 0
                    /\ target[c].model = asked[c][Len(asked[c])]
    /\ pc[c] = "backoff" => tries[c] < MaxTries
    /\ outcome[c] = "exhausted" => Len(asked[c]) = N

\* At most one caller uses the default path.
OneDefaultCaller == \A a, b \in Defaults : a = b

\* A lone default call finds the shared index where it left it.
AloneOk ==
  OneDefaultCaller =>
    \A c \in Defaults : Circular(asked[c]) /\ (Active(c) => target[c].model = index)

IInv ==
  /\ TypeOk
  /\ llm.model = index
  /\ CountOk
  /\ \A c \in Callers \ Defaults : Circular(asked[c])
  /\ AloneOk
  /\ ToolsSurvive
-----------------------------------------------------------------------------
\* The next model is a model.
LEMMA SuccType ==
  ASSUME NEW m \in Models
  PROVE  Succ(m) \in Models
  BY ServiceAssumption DEF Models, Succ

\* Going on to the next model keeps the order circular.
LEMMA SuccCircular ==
  ASSUME NEW s \in Seq(Models), Len(s) # 0, Len(s) < N, Circular(s)
  PROVE  /\ Append(s, Succ(s[Len(s)])) \in Seq(Models)
         /\ Circular(Append(s, Succ(s[Len(s)])))
  <1> DEFINE n == Len(s)
             t == Append(s, Succ(s[n]))
  <1>1. n \in Nat \ {0} /\ N \in Nat \ {0} /\ DOMAIN s = 1..n
    BY ServiceAssumption
  <1>2. s[1] \in 0..(N - 1) /\ s[n] \in Models /\ s[n] = Place(s[1], n)
    BY <1>1 DEF Models, Circular
  <1>3. Succ(s[n]) \in Models
    BY <1>2, SuccType
  <1>4. t \in Seq(Models) /\ Len(t) = n + 1 /\ t[n + 1] = Succ(s[n])
        /\ \A k \in 1..n : t[k] = s[k]
    BY <1>1, <1>3
  <1>5. Succ(s[n]) = Place(s[1], n + 1)
    BY <1>1, <1>2 DEF Succ, Place, Models
  <1>6. t[1] = s[1]
    BY <1>1, <1>4
  <1>7. ASSUME NEW k \in 1..(n + 1) PROVE t[k] = Place(t[1], k)
    <2>1. CASE k = n + 1
      BY <1>4, <1>5, <1>6, <2>1
    <2>2. CASE k \in 1..n
      BY <1>1, <1>4, <1>6, <2>2 DEF Circular
    <2> QED
      BY <1>1, <2>1, <2>2
  <1> QED
    BY <1>1, <1>4, <1>7 DEF Circular

\* N models in circular order are all the models.
LEMMA CircularCovers ==
  ASSUME NEW s \in Seq(Models), Len(s) = N, Circular(s)
  PROVE  Elements(s) = Models
  <1>1. N \in Nat \ {0} /\ DOMAIN s = 1..N
    BY ServiceAssumption
  <1>2. s[1] \in 0..(N - 1) /\ \A k \in DOMAIN s : s[k] \in Models
    BY <1>1 DEF Models
  <1>3. ASSUME NEW m \in Models PROVE \E k \in DOMAIN s : s[k] = m
    <2> DEFINE j == IF m >= s[1] THEN m - s[1] + 1 ELSE m - s[1] + 1 + N
    <2>1. j \in 1..N
      BY <1>1, <1>2 DEF Models
    <2>2. Place(s[1], j) = m
      BY <1>1, <1>2 DEF Models, Place
    <2>3. s[j] = Place(s[1], j)
      BY <1>1, <2>1 DEF Circular
    <2> QED
      BY <1>1, <2>1, <2>2, <2>3
  <1> QED
    BY <1>2, <1>3 DEF Elements

\* The initial state satisfies the invariant.
THEOREM InitIInv == Init => IInv
  <1> SUFFICES ASSUME Init PROVE IInv
    OBVIOUS
  <1>1. 0 \in Models
    BY ServiceAssumption DEF Models
  <1>2. TypeOk /\ llm.model = index /\ ToolsSurvive
    BY <1>1, ServiceAssumption DEF Init, TypeOk, Handle, Plain, Outcomes, ToolsSurvive
  <1>3. CountOk
    BY DEF Init, CountOk, Active
  <1>4. \A c \in Callers : Circular(asked[c]) /\ ~Active(c)
    BY DEF Init, Circular, Active
  <1>5. AloneOk
    BY <1>4, ServiceAssumption DEF AloneOk
  <1> QED
    BY <1>2, <1>3, <1>4, <1>5 DEF IInv
-----------------------------------------------------------------------------
\* The ranges of what is known of one caller.
LEMMA CallerType ==
  ASSUME IInv, NEW c \in Callers
  PROVE  /\ target[c] \in Handle /\ target[c].model \in Models
         /\ tried[c] \in 0..N /\ tries[c] \in 0..MaxTries /\ made[c] \in 0..MaxCalls
         /\ asked[c] \in Seq(Models) /\ Len(asked[c]) \in Nat
  <1>1. target[c] \in Handle /\ asked[c] \in Seq(Models)
    BY DEF IInv, TypeOk
  <1>2. tried[c] \in 0..N /\ tries[c] \in 0..MaxTries /\ made[c] \in 0..MaxCalls
    BY DEF IInv, TypeOk
  <1> QED
    BY <1>1, <1>2 DEF Handle

\* The end of a call leaves what it asked as it is.
LEMMA EndStep ==
  ASSUME IInv, NEW c \in Callers, NEW how \in Outcomes, End(c, how),
         how = "exhausted" => Len(asked[c]) = N
  PROVE  /\ pc' \in [Callers -> {"idle", "request", "backoff", "done"}]
         /\ outcome' \in [Callers -> Outcomes]
         /\ ~Active(c)' /\ \A b \in Callers \ {c} : Active(b)' = Active(b)
         /\ CountOk'
  <1>1. /\ pc' = [pc EXCEPT ![c] = "done"] /\ outcome' = [outcome EXCEPT ![c] = how]
        /\ UNCHANGED <<target, tried, tries, made, asked>>
    BY DEF End
  <1>2. pc' \in [Callers -> {"idle", "request", "backoff", "done"}]
        /\ outcome' \in [Callers -> Outcomes]
    BY <1>1 DEF IInv, TypeOk
  <1>3. /\ pc'[c] = "done" /\ outcome'[c] = how
        /\ \A b \in Callers \ {c} : pc'[b] = pc[b] /\ outcome'[b] = outcome[b]
    BY <1>1 DEF IInv, TypeOk
  <1>4. ~Active(c)' /\ \A b \in Callers \ {c} : Active(b)' = Active(b)
    BY <1>3 DEF Active
  <1>5. CountOk'
    BY <1>1, <1>3, <1>4 DEF IInv, CountOk
  <1> QED
    BY <1>2, <1>4, <1>5

\* A call ends and leaves the service alone.
LEMMA QuietEnd ==
  ASSUME IInv, NEW c \in Callers, NEW how \in Outcomes, End(c, how), UNCHANGED shared,
         how = "exhausted" => Len(asked[c]) = N
  PROVE  IInv'
  <1> USE DEF shared
  <1>1. UNCHANGED <<index, llm, bound, target, tried, tries, made, asked>>
    BY DEF End
  <1>2. TypeOk' /\ CountOk'
    BY <1>1, EndStep DEF IInv, TypeOk
  <1>3. AloneOk'
    <2>1. \A b \in Callers : Active(b)' => Active(b)
      BY EndStep
    <2> QED
      BY <1>1, <2>1, ServiceAssumption DEF IInv, AloneOk
  <1> QED
    BY <1>1, <1>2, <1>3 DEF IInv, ToolsSurvive

\* A request that starts is the last one the call made.
LEMMA AskStep ==
  ASSUME IInv, NEW c \in Callers, NEW h \in Handle, NEW n \in 1..N,
         NEW before \in Seq(Models), Len(before) = n - 1, Ask(c, h, n, before),
         outcome' \in [Callers -> Outcomes], outcome'[c] # "exhausted",
         \A b \in Callers \ {c} : outcome'[b] = outcome[b]
  PROVE  /\ pc' \in [Callers -> {"idle", "request", "backoff", "done"}]
         /\ target' \in [Callers -> Handle] /\ tried' \in [Callers -> 0..N]
         /\ tries' \in [Callers -> 0..MaxTries]
         /\ asked' \in [Callers -> Seq(Models)]
         /\ asked'[c] = Append(before, h.model) /\ target'[c] = h
         /\ \A b \in Callers \ {c} :
              asked'[b] = asked[b] /\ Active(b)' = Active(b) /\ target'[b] = target[b]
         /\ CountOk'
  <1>1. h.model \in Models /\ Append(before, h.model) \in Seq(Models)
        /\ Len(Append(before, h.model)) = n /\ Append(before, h.model)[n] = h.model
        /\ n \in 0..N /\ 1 \in 0..MaxTries /\ n # 0
    BY ServiceAssumption DEF Handle
  <1>2. /\ pc' = [pc EXCEPT ![c] = "request"] /\ target' = [target EXCEPT ![c] = h]
        /\ tried' = [tried EXCEPT ![c] = n] /\ tries' = [tries EXCEPT ![c] = 1]
        /\ asked' = [asked EXCEPT ![c] = Append(before, h.model)]
    BY DEF Ask
  <1>3. /\ pc' \in [Callers -> {"idle", "request", "backoff", "done"}]
        /\ target' \in [Callers -> Handle] /\ tried' \in [Callers -> 0..N]
        /\ tries' \in [Callers -> 0..MaxTries] /\ asked' \in [Callers -> Seq(Models)]
    BY <1>1, <1>2 DEF IInv, TypeOk
  <1>4. /\ asked'[c] = Append(before, h.model) /\ target'[c] = h /\ tried'[c] = n
        /\ \A b \in Callers \ {c} :
             /\ asked'[b] = asked[b] /\ pc'[b] = pc[b] /\ target'[b] = target[b]
             /\ tried'[b] = tried[b] /\ tries'[b] = tries[b]
        /\ pc'[c] = "request"
    BY <1>2 DEF IInv, TypeOk
  <1>5. \A b \in Callers \ {c} : Active(b)' = Active(b)
    BY <1>4 DEF Active
  <1>6. CountOk'
    BY <1>1, <1>4, <1>5 DEF IInv, CountOk
  <1> QED
    BY <1>3, <1>4, <1>5, <1>6
-----------------------------------------------------------------------------
\* A single model is in circular order.
LEMMA FirstInOrder ==
  ASSUME NEW m \in Models
  PROVE  Circular(<<m>>)
  <1>1. m + 1 - 1 = m /\ m < N
    BY ServiceAssumption DEF Models
  <1> QED
    BY <1>1 DEF Circular, Place

\* bind_tools
LEMMA BindToolsStep ==
  ASSUME IInv, BindTools
  PROVE  IInv'
  <1>1. PICK t \in ToolSets :
          /\ bound' = t
          /\ llm' = IF <<llm.model, t>> \in Accepts THEN [llm EXCEPT !.tools = t] ELSE llm
    BY DEF BindTools
  <1>2. UNCHANGED <<index, pc, target, tried, tries, outcome, made, asked>>
    BY DEF BindTools
  <1>3. llm \in Handle /\ index \in Models /\ llm.model = index
    BY DEF IInv, TypeOk
  <1>4. llm' \in Handle /\ llm'.model = index'
    BY <1>1, <1>2, <1>3 DEF Handle
  <1>5. TypeOk'
    BY <1>1, <1>2, <1>4 DEF IInv, TypeOk
  <1>6. CountOk' /\ AloneOk'
    BY <1>2 DEF IInv, CountOk, AloneOk, Active
  <1>7. ToolsSurvive'
    BY <1>1, <1>2, <1>3, ServiceAssumption DEF ToolsSurvive, Handle
  <1> QED
    BY <1>2, <1>4, <1>5, <1>6, <1>7 DEF IInv

\* A call begins with one request.
LEMMA BeginStep ==
  ASSUME IInv, NEW c \in Callers, NEW h \in Handle, Ready(c), Begun(c),
         Ask(c, h, 1, <<>>), c \in Defaults => h.model = index
  PROVE  IInv'
  <1> USE DEF shared
  <1>1. /\ outcome' = [outcome EXCEPT ![c] = "none"] /\ made' = [made EXCEPT ![c] = @ + 1]
        /\ UNCHANGED <<index, llm, bound>>
    BY DEF Begun
  <1>2. outcome' \in [Callers -> Outcomes] /\ outcome'[c] = "none"
        /\ \A b \in Callers \ {c} : outcome'[b] = outcome[b]
    BY <1>1 DEF IInv, TypeOk, Outcomes
  <1>3. made' \in [Callers -> 0..MaxCalls]
    BY <1>1, CallerType, ServiceAssumption DEF IInv, TypeOk, Ready
  <1>4. 1 \in 1..N /\ <<>> \in Seq(Models) /\ h.model \in Models
    BY ServiceAssumption DEF Handle
  <1>5. /\ pc' \in [Callers -> {"idle", "request", "backoff", "done"}]
        /\ target' \in [Callers -> Handle] /\ tried' \in [Callers -> 0..N]
        /\ tries' \in [Callers -> 0..MaxTries] /\ asked' \in [Callers -> Seq(Models)]
        /\ asked'[c] = <<h.model>> /\ target'[c] = h
        /\ \A b \in Callers \ {c} :
             asked'[b] = asked[b] /\ Active(b)' = Active(b) /\ target'[b] = target[b]
        /\ CountOk'
    <2>1. Len(<<>>) = 1 - 1 /\ outcome'[c] # "exhausted"
      BY <1>2
    <2>2. Append(<<>>, h.model) = <<h.model>>
      OBVIOUS
    <2> QED
      BY <1>2, <1>4, <2>1, <2>2, AskStep
  <1>6. TypeOk'
    BY <1>1, <1>2, <1>3, <1>5 DEF IInv, TypeOk
  <1>7. Circular(asked'[c])
    BY <1>4, <1>5, FirstInOrder
  <1>8. AloneOk'
    BY <1>1, <1>5, <1>7, ServiceAssumption DEF IInv, AloneOk, OneDefaultCaller
  <1>9. \A b \in Callers \ Defaults : Circular(asked'[b])
    BY <1>5, <1>7 DEF IInv
  <1> QED
    BY <1>1, <1>5, <1>6, <1>8, <1>9 DEF IInv, ToolsSurvive

\* The three ways to begin a call.
LEMMA BeginSteps ==
  ASSUME IInv, NEW c \in Callers, Begin(c)
  PROVE  IInv'
  <1>1. CASE CallDefault(c)
    BY <1>1, BeginStep DEF CallDefault, IInv, TypeOk
  <1>2. CASE CallOverride(c)
    <2>1. PICK m \in Models : Ask(c, Plain(m), 1, <<>>)
      BY <1>2 DEF CallOverride
    <2>2. Plain(m) \in Handle
      BY DEF Plain, Handle
    <2> QED
      BY <1>2, <2>1, <2>2, BeginStep DEF CallOverride
  <1>3. CASE CallUnknown(c)
    <2>1. /\ pc' = [pc EXCEPT ![c] = "done"] /\ outcome' = [outcome EXCEPT ![c] = "raised"]
          /\ made' = [made EXCEPT ![c] = @ + 1] /\ asked' = [asked EXCEPT ![c] = <<>>]
          /\ UNCHANGED <<index, llm, bound, target, tried, tries>>
          /\ c \notin Defaults /\ made[c] < MaxCalls
      BY <1>3 DEF CallUnknown, Ready
    <2>2. made' \in [Callers -> 0..MaxCalls]
      BY <2>1, CallerType, ServiceAssumption DEF IInv, TypeOk
    <2>3. TypeOk'
      BY <2>1, <2>2 DEF IInv, TypeOk, Outcomes
    <2>4. /\ pc'[c] = "done" /\ outcome'[c] = "raised" /\ asked'[c] = <<>>
          /\ \A b \in Callers \ {c} :
               asked'[b] = asked[b] /\ pc'[b] = pc[b] /\ outcome'[b] = outcome[b]
      BY <2>1 DEF IInv, TypeOk
    <2>5. CountOk'
      BY <2>1, <2>4 DEF IInv, CountOk, Active
    <2>6. Circular(asked'[c])
      BY <2>4 DEF Circular
    <2>7. AloneOk'
      BY <2>1, <2>4, ServiceAssumption DEF IInv, AloneOk, Active
    <2>8. \A b \in Callers \ Defaults : Circular(asked'[b])
      BY <2>4, <2>6 DEF IInv
    <2> QED
      BY <2>1, <2>3, <2>5, <2>7, <2>8 DEF IInv, ToolsSurvive
  <1> QED
    BY <1>1, <1>2, <1>3 DEF Begin
-----------------------------------------------------------------------------
\* Switching keeps the default model in step with its index.
LEMMA SwitchStep ==
  ASSUME IInv, Switch
  PROVE  /\ index' = Succ(index) /\ index' \in Models
         /\ llm' \in Handle /\ llm'.model = index' /\ bound' = bound
         /\ CanSwitch => llm' = [model |-> index', tools |-> bound]
         /\ ~CanSwitch => bound # NoTools /\ <<index', bound>> \notin Accepts
  <1>1. index \in Models /\ bound \in ToolSets \cup {NoTools} /\ Succ(index) \in Models
    BY SuccType DEF IInv, TypeOk
  <1>2. index' = Succ(index) /\ bound' = bound
    BY DEF Switch
  <1>3. CanSwitch => llm' = [model |-> index', tools |-> bound]
    BY <1>2 DEF Switch
  <1>4. ~CanSwitch => llm' = Plain(index')
    BY <1>2 DEF Switch
  <1>5. llm' \in Handle /\ llm'.model = index'
    BY <1>1, <1>2, <1>3, <1>4 DEF Handle, Plain
  <1>6. ~CanSwitch => bound # NoTools /\ <<index', bound>> \notin Accepts
    BY <1>2 DEF CanSwitch
  <1> QED
    BY <1>1, <1>2, <1>3, <1>5, <1>6

\* What holds of a call whose model failed while others are left.
LEMMA Failing ==
  ASSUME IInv, NEW c \in Callers, ModelFailed(c), tried[c] < N
  PROVE  /\ Active(c) /\ tried[c] + 1 \in 1..N /\ asked[c] \in Seq(Models)
         /\ Len(asked[c]) = (tried[c] + 1) - 1
         /\ Len(asked[c]) # 0 /\ Len(asked[c]) < N
         /\ target[c].model = asked[c][Len(asked[c])] /\ target[c].model \in Models
         /\ outcome[c] # "exhausted"
  <1>1. Active(c)
    BY DEF ModelFailed, Active
  <1>2. /\ tried[c] = Len(asked[c]) /\ tried[c] # 0
        /\ target[c].model = asked[c][Len(asked[c])]
        /\ outcome[c] = "exhausted" => Len(asked[c]) = N
    BY <1>1 DEF IInv, CountOk
  <1>3. tried[c] \in 0..N /\ asked[c] \in Seq(Models) /\ target[c].model \in Models
    BY CallerType
  <1> QED
    BY <1>1, <1>2, <1>3, ServiceAssumption

\* An override goes on to the next model.
LEMMA OverrideAdvancesStep ==
  ASSUME IInv, NEW c \in Callers, OverrideAdvances(c)
  PROVE  IInv'
  <1> USE DEF shared
  <1> DEFINE h == Plain(Succ(target[c].model))
  <1>1. /\ ModelFailed(c) /\ tried[c] < N /\ c \notin Defaults
        /\ Ask(c, h, tried[c] + 1, asked[c])
        /\ UNCHANGED <<index, llm, bound, outcome, made>>
    BY DEF OverrideAdvances
  <1>2. Succ(target[c].model) \in Models
    BY <1>1, Failing, SuccType
  <1>3. h \in Handle /\ h.model = Succ(target[c].model)
    BY <1>2 DEF Plain, Handle
  <1>4. outcome' \in [Callers -> Outcomes] /\ outcome'[c] # "exhausted"
        /\ \A b \in Callers \ {c} : outcome'[b] = outcome[b]
    BY <1>1, Failing DEF IInv, TypeOk
  <1>5. /\ pc' \in [Callers -> {"idle", "request", "backoff", "done"}]
        /\ target' \in [Callers -> Handle] /\ tried' \in [Callers -> 0..N]
        /\ tries' \in [Callers -> 0..MaxTries] /\ asked' \in [Callers -> Seq(Models)]
        /\ asked'[c] = Append(asked[c], h.model) /\ target'[c] = h
        /\ \A b \in Callers \ {c} :
             asked'[b] = asked[b] /\ Active(b)' = Active(b) /\ target'[b] = target[b]
        /\ CountOk'
    BY <1>1, <1>3, <1>4, Failing, AskStep
  <1>6. TypeOk'
    BY <1>1, <1>5 DEF IInv, TypeOk
  <1>7. Circular(asked'[c])
    <2>1. Circular(asked[c])
      BY <1>1 DEF IInv
    <2> QED
      BY <1>1, <1>3, <1>5, <2>1, Failing, SuccCircular
  <1>8. AloneOk'
    BY <1>1, <1>5, ServiceAssumption DEF IInv, AloneOk
  <1>9. \A b \in Callers \ Defaults : Circular(asked'[b])
    BY <1>5, <1>7 DEF IInv
  <1> QED
    BY <1>1, <1>5, <1>6, <1>8, <1>9 DEF IInv, ToolsSurvive

\* A default call goes on to the next model.
LEMMA DefaultAdvancesStep ==
  ASSUME IInv, NEW c \in Callers, DefaultAdvances(c)
  PROVE  IInv'
  <1>1. /\ ModelFailed(c) /\ tried[c] < N /\ c \in Defaults /\ CanSwitch /\ Switch
        /\ Ask(c, llm', tried[c] + 1, asked[c])
        /\ UNCHANGED <<outcome, made>>
    BY DEF DefaultAdvances
  <1>2. /\ index' = Succ(index) /\ index' \in Models
        /\ llm' \in Handle /\ llm'.model = index' /\ bound' = bound
        /\ llm' = [model |-> index', tools |-> bound]
    BY <1>1, SwitchStep
  <1>3. outcome' \in [Callers -> Outcomes] /\ outcome'[c] # "exhausted"
        /\ \A b \in Callers \ {c} : outcome'[b] = outcome[b]
    BY <1>1, Failing DEF IInv, TypeOk
  <1>4. /\ pc' \in [Callers -> {"idle", "request", "backoff", "done"}]
        /\ target' \in [Callers -> Handle] /\ tried' \in [Callers -> 0..N]
        /\ tries' \in [Callers -> 0..MaxTries] /\ asked' \in [Callers -> Seq(Models)]
        /\ asked'[c] = Append(asked[c], llm'.model) /\ target'[c] = llm'
        /\ \A b \in Callers \ {c} :
             asked'[b] = asked[b] /\ Active(b)' = Active(b) /\ target'[b] = target[b]
        /\ CountOk'
    BY <1>1, <1>2, <1>3, Failing, AskStep
  <1>5. TypeOk'
    BY <1>1, <1>2, <1>4 DEF IInv, TypeOk
  <1>6. AloneOk'
    <2> SUFFICES ASSUME OneDefaultCaller
                 PROVE  Circular(asked'[c]) /\ target'[c].model = index'
      BY <1>1, <1>4 DEF AloneOk, OneDefaultCaller
    <2>1. Circular(asked[c]) /\ target[c].model = index
      BY <1>1, Failing DEF IInv, AloneOk
    <2>2. asked'[c] = Append(asked[c], Succ(asked[c][Len(asked[c])]))
      BY <1>1, <1>2, <1>4, <2>1, Failing
    <2>3. Circular(asked'[c])
      BY <1>1, <2>1, <2>2, Failing, SuccCircular
    <2> QED
      BY <1>2, <1>4, <2>3
  <1>7. \A b \in Callers \ Defaults : Circular(asked'[b])
    BY <1>1, <1>4 DEF IInv
  <1> QED
    BY <1>2, <1>4, <1>5, <1>6, <1>7 DEF IInv, ToolsSurvive

\* The switch raises and the call ends.
LEMMA SwitchFailsStep ==
  ASSUME IInv, NEW c \in Callers, SwitchFails(c)
  PROVE  IInv'
  <1>1. c \in Defaults /\ ~CanSwitch /\ Switch /\ End(c, "unswitched")
    BY DEF SwitchFails
  <1>2. /\ index' \in Models /\ llm' \in Handle /\ llm'.model = index' /\ bound' = bound
        /\ bound # NoTools /\ <<index', bound>> \notin Accepts
    BY <1>1, SwitchStep
  <1>3. /\ pc' \in [Callers -> {"idle", "request", "backoff", "done"}]
        /\ outcome' \in [Callers -> Outcomes]
        /\ ~Active(c)' /\ \A b \in Callers \ {c} : Active(b)' = Active(b)
        /\ CountOk'
    BY <1>1, EndStep DEF Outcomes
  <1>4. UNCHANGED <<target, tried, tries, made, asked>>
    BY <1>1 DEF End
  <1>5. TypeOk'
    BY <1>2, <1>3, <1>4 DEF IInv, TypeOk
  <1>6. AloneOk'
    BY <1>1, <1>3, <1>4 DEF IInv, AloneOk, OneDefaultCaller
  <1> QED
    BY <1>2, <1>3, <1>4, <1>5, <1>6 DEF IInv, ToolsSurvive
-----------------------------------------------------------------------------
\* A request that failed is tried again after a while.
LEMMA AttemptSteps ==
  ASSUME IInv, NEW c \in Callers, BackOff(c) \/ Retry(c)
  PROVE  IInv'
  <1> USE DEF shared
  <1>1. UNCHANGED <<index, llm, bound, target, tried, outcome, made, asked>>
    BY DEF BackOff, Retry
  <1>2. /\ Active(c) /\ pc' \in [Callers -> {"idle", "request", "backoff", "done"}]
        /\ \A b \in Callers \ {c} : pc'[b] = pc[b] /\ tries'[b] = tries[b]
    BY DEF BackOff, Retry, Active, IInv, TypeOk
  <1>3. tries[c] \in 0..MaxTries /\ MaxTries \in Nat
    BY CallerType, ServiceAssumption
  <1>4. CASE BackOff(c)
    <2>1. pc'[c] = "backoff" /\ tries' = tries /\ tries[c] < MaxTries
      BY <1>4 DEF BackOff, IInv, TypeOk
    <2>2. Active(c)'
      BY <2>1 DEF Active
    <2>3. TypeOk'
      BY <1>1, <1>2, <2>1 DEF IInv, TypeOk
    <2>4. CountOk'
      BY <1>1, <1>2, <2>1, <2>2 DEF IInv, CountOk, Active
    <2>5. AloneOk'
      BY <1>1, <1>2, ServiceAssumption DEF IInv, AloneOk, Active
    <2> QED
      BY <1>1, <2>3, <2>4, <2>5 DEF IInv, ToolsSurvive
  <1>5. CASE Retry(c)
    <2>1. pc[c] = "backoff" /\ pc'[c] = "request" /\ tries' = [tries EXCEPT ![c] = @ + 1]
      BY <1>5 DEF Retry, IInv, TypeOk
    <2>2. tries[c] < MaxTries
      BY <2>1 DEF IInv, CountOk
    <2>3. tries[c] + 1 \in 0..MaxTries
      BY <1>3, <2>2
    <2>4. tries' \in [Callers -> 0..MaxTries]
      BY <2>1, <2>3 DEF IInv, TypeOk
    <2>5. Active(c)'
      BY <2>1 DEF Active
    <2>6. TypeOk'
      BY <1>1, <1>2, <2>4 DEF IInv, TypeOk
    <2>7. CountOk'
      BY <1>1, <1>2, <2>1, <2>5 DEF IInv, CountOk, Active
    <2>8. AloneOk'
      BY <1>1, <1>2, ServiceAssumption DEF IInv, AloneOk, Active
    <2> QED
      BY <1>1, <2>6, <2>7, <2>8 DEF IInv, ToolsSurvive
  <1> QED
    BY <1>4, <1>5

\* A call gives up after as many models as there are.
LEMMA ExhaustedStep ==
  ASSUME IInv, NEW c \in Callers, Exhausted(c)
  PROVE  IInv'
  <1>1. Active(c) /\ tried[c] >= N /\ End(c, "exhausted") /\ UNCHANGED shared
    BY DEF Exhausted, ModelFailed, Active
  <1>2. tried[c] = Len(asked[c]) /\ tried[c] \in 0..N
    BY <1>1, CallerType DEF IInv, CountOk
  <1>3. Len(asked[c]) = N
    BY <1>1, <1>2, ServiceAssumption
  <1> QED
    BY <1>1, <1>3, QuietEnd DEF Outcomes

\* Every way a call goes on or ends.
LEMMA ContinueStep ==
  ASSUME IInv, NEW c \in Callers, Continue(c)
  PROVE  IInv'
  <1>1. CASE Answered(c)
    BY <1>1, QuietEnd DEF Answered, Outcomes
  <1>2. CASE Raised(c)
    BY <1>2, QuietEnd DEF Raised, Outcomes
  <1>3. CASE TimesOut(c)
    BY <1>3, QuietEnd DEF TimesOut, Outcomes
  <1> QED
    BY <1>1, <1>2, <1>3, AttemptSteps, ExhaustedStep, OverrideAdvancesStep,
       DefaultAdvancesStep, SwitchFailsStep DEF Continue

\* A stuttering step changes nothing the invariant speaks of.
LEMMA StutterStep == ASSUME IInv, UNCHANGED vars PROVE IInv'
  BY DEF vars, IInv, TypeOk, CountOk, AloneOk, Active, ToolsSurvive

\* Every step preserves the invariant.
THEOREM StepIInv == IInv /\ [Next]_vars => IInv'
  <1> SUFFICES ASSUME IInv, [Next]_vars PROVE IInv'
    OBVIOUS
  <1>1. CASE BindTools
    BY <1>1, BindToolsStep
  <1>2. CASE \E c \in Callers : Begin(c) \/ Continue(c)
    BY <1>2, BeginSteps, ContinueStep
  <1>3. CASE UNCHANGED vars
    BY <1>3, StutterStep
  <1> QED
    BY <1>1, <1>2, <1>3 DEF Next

\* The invariant holds throughout.
THEOREM SpecIInv == Spec => []IInv
  BY InitIInv, StepIInv, PTL DEF Spec
-----------------------------------------------------------------------------
\* The fields of the service and of its calls keep their types.
THEOREM TypeCorrect == Spec => []TypeOk
  <1>1. IInv => TypeOk
    BY DEF IInv
  <1> QED
    BY <1>1, SpecIInv, PTL

\* A default model that takes the tools bound last has them, whatever calls switch
\* models at the same time.
THEOREM ToolsKept == Spec => []ToolsSurvive
  <1>1. IInv => ToolsSurvive
    BY DEF IInv
  <1> QED
    BY <1>1, SpecIInv, PTL

\* A call with overrides goes round the models, and gives up after all of them.
THEOREM OverridesRound == Spec => []OverrideGoesRound
  <1>1. ASSUME IInv, NEW c \in Callers \ Defaults
        PROVE  /\ Circular(asked[c])
               /\ outcome[c] = "exhausted" => Elements(asked[c]) = Models
    <2>1. Circular(asked[c]) /\ asked[c] \in Seq(Models)
      BY <1>1, CallerType DEF IInv
    <2>2. outcome[c] = "exhausted" => Len(asked[c]) = N
      BY <1>1 DEF IInv, CountOk
    <2> QED
      BY <2>1, <2>2, CircularCovers
  <1>2. IInv => OverrideGoesRound
    BY <1>1 DEF OverrideGoesRound
  <1> QED
    BY <1>2, SpecIInv, PTL

\* When only one caller uses the default path, a call that reports that every model
\* failed has asked every model.
THEOREM LoneFailure == ASSUME OneDefaultCaller PROVE Spec => []FailureMeansAllFailed
  <1>1. ASSUME IInv, NEW c \in Defaults, outcome[c] = "exhausted"
        PROVE  Elements(asked[c]) = Models
    <2>1. Circular(asked[c]) /\ asked[c] \in Seq(Models)
      BY <1>1, CallerType, ServiceAssumption DEF IInv, AloneOk
    <2>2. Len(asked[c]) = N
      BY <1>1, ServiceAssumption DEF IInv, CountOk
    <2> QED
      BY <2>1, <2>2, CircularCovers
  <1>2. IInv => FailureMeansAllFailed
    BY <1>1 DEF FailureMeansAllFailed
  <1> QED
    BY <1>2, SpecIInv, PTL

\* Only a default call moves the shared model; a call with overrides never does.
THEOREM OverridesIsolated == Spec => OverridesLeaveTheDefaultAlone
  <1>1. ASSUME IInv, [Next]_vars, NEW c \in Callers \ Defaults, asked'[c] # asked[c]
        PROVE  UNCHANGED shared
    <2> USE DEF shared
    <2>1. CASE BindTools
      BY <1>1, <2>1 DEF BindTools
    <2>2. CASE UNCHANGED vars
      BY <1>1, <2>2 DEF vars
    <2>3. ASSUME NEW b \in Callers, Begin(b) PROVE UNCHANGED shared
      BY <2>3 DEF Begin, CallDefault, CallOverride, CallUnknown, Begun
    <2>4. ASSUME NEW b \in Callers, Continue(b) PROVE UNCHANGED shared
      <3>1. CASE DefaultAdvances(b)
        <4>1. b # c /\ asked' = [asked EXCEPT ![b] = Append(asked[b], llm'.model)]
          BY <1>1, <3>1 DEF DefaultAdvances, Ask
        <4>2. asked'[c] = asked[c]
          BY <1>1, <4>1 DEF IInv, TypeOk
        <4> QED
          BY <1>1, <4>2
      <3>2. CASE SwitchFails(b)
        BY <1>1, <3>2 DEF SwitchFails, End
      <3> QED
        BY <2>4, <3>1, <3>2 DEF Continue, Answered, Raised, BackOff, Retry, Exhausted,
           OverrideAdvances, TimesOut
    <2> QED
      BY <1>1, <2>1, <2>2, <2>3, <2>4 DEF Next
  <1>2. IInv /\ [Next]_vars
          => [\A c \in Callers \ Defaults : asked'[c] # asked[c] => UNCHANGED shared]_vars
    BY <1>1
  <1> QED
    BY <1>2, SpecIInv, PTL DEF Spec, OverridesLeaveTheDefaultAlone
=============================================================================
