-------------------------- MODULE ShellAgent_proofs --------------------------
(***************************************************************************)
(* Safety of ShellAgent for every set of decisions the model may make and   *)
(* every workflow it may be given.                                          *)
(***************************************************************************)
EXTENDS ShellAgent, SequenceLemmas, TLAPS

Message == [kind : {"ai", "tool", "unknown"}, calls : Seq(ToolCall), ok : BOOLEAN]
Places == {"decide", "tool", "generate", "run", "replay", "done", "raised"}
CommandLine == [tool : {"iperf", "ndt", "ping", "wget"}, host : Texts, option : Texts]
Entry == [type : {"iperf", "ndt", "ping", "wget"}, command : CommandLine,
          outcome : {"nonzero", "missing", "denied", "io", "ok", "error"}]

\* Every variable keeps the shape the Python objects have.
TypeOk ==
  /\ pc \in Places /\ steps \in Nat
  /\ messages \in Seq(Message)
  /\ executed \in Seq(ToolCall)
  /\ workflow \in Seq(Action)
  /\ replayed \in Seq(Entry)
  /\ result \in {"none", "success", "failure"}

\* The engine has performed the first actions of the workflow, and none after one
\* that failed.
ReplayOk ==
  /\ pc \notin {"replay", "done"} => replayed = <<>>
  /\ Len(replayed) <= Len(workflow)
  /\ \A i \in DOMAIN replayed : replayed[i].command = CommandOf(workflow[i])
  /\ \A i \in DOMAIN replayed : i < Len(replayed) => replayed[i].outcome = "ok"

\* What is reported.
Reported ==
  pc = "done" => (result = "success" <=> /\ Len(replayed) = Len(workflow)
                                         /\ \A i \in DOMAIN replayed : replayed[i].outcome = "ok")
-----------------------------------------------------------------------------
\* The calls s are found in t in their order.
Embeds(s, t) ==
  \E f \in [DOMAIN s -> DOMAIN t] :
    /\ \A i, j \in DOMAIN s : i < j => f[i] < f[j]
    /\ \A i \in DOMAIN s : t[f[i]] = s[i]

\* What was executed, as, is found in the conversation ms, which has nothing else
\* when it is a plain one.
Accounted(ms, as) ==
  /\ Embeds(as, extract_tool_runs(ms))
  /\ Plain(ms) => Len(extract_tool_runs(ms)) = Len(as)

\* The last message is the one whose first call is performed next.
Asked == \E ms \in Seq(Message), calls \in Seq(ToolCall) :
           calls # <<>> /\ messages = Append(ms, Ai(calls)) /\ Accounted(ms, executed)

ConversationOk ==
  /\ pc \in {"decide", "tool", "generate"} => workflow = <<>>
  /\ pc \in {"decide", "generate"} => Accounted(messages, executed)
  /\ pc = "tool" => Asked

IInv ==
  /\ TypeOk
  /\ ReplayOk
  /\ Reported
  /\ ConversationOk
  /\ WorkflowHoldsWhatRan
-----------------------------------------------------------------------------
\* Each call by itself: a measurement, or nothing.
Each(calls) == [k \in DOMAIN calls |-> IF calls[k].name \in Execution THEN <<calls[k]>> ELSE <<>>]

\* The measurements among some calls, as none or one for each.
LEMMA EachType ==
  ASSUME NEW calls \in Seq(ToolCall)
  PROVE  /\ Each(calls) \in Seq(Seq(ToolCall)) /\ Len(Each(calls)) = Len(calls)
         /\ Measurements(calls) = FlattenSeq(Each(calls))
  <1>1. \A k \in 1..Len(calls) : calls[k] \in ToolCall
    OBVIOUS
  <1>2. \A k \in 1..Len(calls) :
          (IF calls[k].name \in Execution THEN <<calls[k]>> ELSE <<>>) \in Seq(ToolCall)
    BY <1>1
  <1>3. Each(calls) \in Seq(Seq(ToolCall)) /\ Len(Each(calls)) = Len(calls)
    <2>1. PICK n \in Nat : n = Len(calls) /\ DOMAIN calls = 1..n
      OBVIOUS
    <2>2. PICK each : each = Each(calls)
      OBVIOUS
    <2>3. /\ each = [k \in 1..n |-> each[k]]
          /\ \A k \in 1..n : each[k] \in Seq(ToolCall)
      BY <1>2, <2>1, <2>2 DEF Each
    <2>4. each \in Seq(Seq(ToolCall)) /\ Len(each) = n
      BY <2>3
    <2> QED
      BY <2>1, <2>2, <2>4
  <1> QED
    BY <1>3 DEF Each, Measurements

\* The measurements of a message are calls of it.
LEMMA MeasurementsType ==
  ASSUME NEW calls \in Seq(ToolCall)
  PROVE  Measurements(calls) \in Seq(ToolCall)
  BY EachType, FlattenType

\* A first call that is a measurement is the first measurement.
LEMMA MeasurementsFirst ==
  ASSUME NEW calls \in Seq(ToolCall), calls # <<>>, calls[1].name \in Execution
  PROVE  Measurements(calls) # <<>> /\ Measurements(calls)[1] = calls[1]
  <1>1. PICK each \in Seq(Seq(ToolCall)) :
          each = Each(calls) /\ Measurements(calls) = FlattenSeq(each) /\ Len(each) = Len(calls)
    BY EachType
  <1>2. PICK n \in Nat : n + 1 = Len(calls)
    <2>1. Len(calls) \in Nat \ {0}
      OBVIOUS
    <2>2. Len(calls) - 1 \in Nat /\ (Len(calls) - 1) + 1 = Len(calls)
      BY <2>1
    <2> QED
      BY <2>2
  <1>3. PICK rest : rest = [k \in 1..n |-> each[k + 1]]
    OBVIOUS
  <1>4. rest \in Seq(Seq(ToolCall)) /\ Len(rest) = n
    <2>1. \A k \in 1..n : each[k + 1] \in Seq(ToolCall)
      BY <1>1, <1>2
    <2> QED
      BY <1>3, <2>1
  <1>5. each[1] = <<calls[1]>> /\ calls[1] \in ToolCall
    BY <1>1, <1>2 DEF Each
  <1>6. each = <<each[1]>> \o rest
    BY <1>1, <1>2, <1>3, <1>4
  <1>7. FlattenSeq(<<each[1]>> \o rest) = each[1] \o FlattenSeq(rest)
    <2>1. each[1] \in Seq(ToolCall)
      BY <1>5
    <2> QED
      BY <1>4, <2>1, FlattenCons
  <1>8. FlattenSeq(rest) \in Seq(ToolCall)
    BY <1>4, FlattenType
  <1>9. /\ <<calls[1]>> \o FlattenSeq(rest) # <<>>
        /\ (<<calls[1]>> \o FlattenSeq(rest))[1] = calls[1]
    BY <1>5, <1>8
  <1> QED
    BY <1>1, <1>5, <1>6, <1>7, <1>9

\* What is known of a single call.
LEMMA MeasurementsOne ==
  ASSUME NEW calls \in Seq(ToolCall), Len(calls) = 1
  PROVE  Measurements(calls) = IF calls[1].name \in Execution THEN calls ELSE <<>>
  <1>1. PICK each \in Seq(Seq(ToolCall)) :
          each = Each(calls) /\ Measurements(calls) = FlattenSeq(each) /\ Len(each) = Len(calls)
    BY EachType
  <1>2. /\ calls = <<calls[1]>> /\ each[1] \in Seq(ToolCall)
        /\ each[1] = IF calls[1].name \in Execution THEN <<calls[1]>> ELSE <<>>
    BY <1>1 DEF Each
  <1>3. <<>> \in Seq(Seq(ToolCall)) /\ each = Append(<<>>, each[1])
    BY <1>1
  <1>4. FlattenSeq(Append(<<>>, each[1])) = FlattenSeq(<<>>) \o each[1]
    BY <1>2, <1>3, FlattenAppend
  <1>5. <<>> \o each[1] = each[1]
    BY <1>2
  <1> QED
    BY <1>1, <1>2, <1>3, <1>4, <1>5, FlattenEmpty

\* No calls, no measurements.
LEMMA MeasurementsNone == Measurements(<<>>) = <<>>
  <1>1. [k \in DOMAIN <<>> |-> IF <<>>[k].name \in Execution THEN <<<<>>[k]>> ELSE <<>>] = <<>>
    OBVIOUS
  <1> QED
    BY <1>1, FlattenEmpty DEF Measurements

\* The calls of one more message come last.
LEMMA ExtractAppend ==
  ASSUME NEW ms \in Seq(Message), NEW m \in Message
  PROVE  /\ extract_tool_runs(ms) \in Seq(ToolCall)
         /\ Measurements(m.calls) \in Seq(ToolCall)
         /\ extract_tool_runs(Append(ms, m)) = extract_tool_runs(ms) \o Measurements(m.calls)
  <1> DEFINE each(xs) == [i \in DOMAIN xs |-> Measurements(xs[i].calls)]
  <1>1. Measurements(m.calls) \in Seq(ToolCall)
    BY MeasurementsType DEF Message
  <1>2. each(ms) \in Seq(Seq(ToolCall))
    <2>1. \A i \in 1..Len(ms) : Measurements(ms[i].calls) \in Seq(ToolCall)
      <3> TAKE i \in 1..Len(ms)
      <3>1. ms[i] \in Message
        OBVIOUS
      <3>2. ms[i].calls \in Seq(ToolCall)
        BY <3>1 DEF Message
      <3> QED
        BY <3>2, MeasurementsType
    <2> QED
      BY <2>1
  <1>3. each(Append(ms, m)) = Append(each(ms), Measurements(m.calls))
    OBVIOUS
  <1>4. extract_tool_runs(ms) = FlattenSeq(each(ms))
        /\ extract_tool_runs(Append(ms, m)) = FlattenSeq(each(Append(ms, m)))
    BY DEF extract_tool_runs
  <1> HIDE DEF each
  <1> QED
    BY <1>1, <1>2, <1>3, <1>4, FlattenAppend, FlattenType

\* An empty conversation has no measurement.
LEMMA ExtractNone == extract_tool_runs(<<>>) = <<>>
  <1>1. [i \in DOMAIN <<>> |-> Measurements(<<>>[i].calls)] = <<>>
    OBVIOUS
  <1> QED
    BY <1>1, FlattenEmpty DEF extract_tool_runs
-----------------------------------------------------------------------------
\* What is embedded stays so when more follows.
LEMMA EmbedsMore ==
  ASSUME NEW V, NEW s \in Seq(V), NEW t \in Seq(V), NEW u \in Seq(V), Embeds(s, t)
  PROVE  Embeds(s, t \o u)
  <1>1. PICK f \in [DOMAIN s -> DOMAIN t] :
          /\ \A i, j \in DOMAIN s : i < j => f[i] < f[j]
          /\ \A i \in DOMAIN s : t[f[i]] = s[i]
    BY DEF Embeds
  <1>2. DOMAIN t \subseteq DOMAIN (t \o u) /\ \A k \in DOMAIN t : (t \o u)[k] = t[k]
    OBVIOUS
  <1>3. f \in [DOMAIN s -> DOMAIN (t \o u)]
    BY <1>2
  <1> QED
    BY <1>1, <1>2, <1>3 DEF Embeds

\* A call executed after the others comes after them.
LEMMA EmbedsNext ==
  ASSUME NEW V, NEW s \in Seq(V), NEW t \in Seq(V), NEW u \in Seq(V), Embeds(s, t),
         u # <<>>
  PROVE  Embeds(Append(s, u[1]), t \o u)
  <1>1. PICK f \in [DOMAIN s -> DOMAIN t] :
          /\ \A i, j \in DOMAIN s : i < j => f[i] < f[j]
          /\ \A i \in DOMAIN s : t[f[i]] = s[i]
    BY DEF Embeds
  <1>2. PICK n \in Nat, m \in Nat : n = Len(s) /\ m = Len(t)
    OBVIOUS
  <1>3. PICK a, b : a = Append(s, u[1]) /\ b = t \o u
    OBVIOUS
  <1>4. /\ DOMAIN s = 1..n /\ DOMAIN t = 1..m
        /\ DOMAIN a = 1..(n + 1) /\ a[n + 1] = u[1] /\ \A i \in 1..n : a[i] = s[i]
        /\ 1..(m + 1) \subseteq DOMAIN b /\ b[m + 1] = u[1] /\ \A i \in 1..m : b[i] = t[i]
    BY <1>2, <1>3
  <1>5. PICK g : g = [i \in 1..(n + 1) |-> IF i = n + 1 THEN m + 1 ELSE f[i]]
    OBVIOUS
  <1>6. \A i \in 1..n : g[i] = f[i] /\ g[i] \in 1..m
    BY <1>1, <1>4, <1>5
  <1>7. g[n + 1] = m + 1
    BY <1>5
  <1>8. g \in [DOMAIN a -> DOMAIN b]
    BY <1>4, <1>5, <1>6
  <1>9. ASSUME NEW i \in DOMAIN a, NEW j \in DOMAIN a, i < j
        PROVE  g[i] < g[j]
    <2>1. i \in 1..n
      BY <1>4, <1>9
    <2>2. CASE j = n + 1
      BY <1>6, <1>7, <2>1, <2>2
    <2>3. CASE j # n + 1
      <3>1. j \in 1..n
        BY <1>4, <2>3
      <3> QED
        BY <1>1, <1>4, <1>6, <1>9, <2>1, <3>1
    <2> QED
      BY <2>2, <2>3
  <1>10. \A i \in DOMAIN a : b[g[i]] = a[i]
    <2> TAKE i \in DOMAIN a
    <2>1. CASE i = n + 1
      BY <1>4, <1>7, <2>1
    <2>2. CASE i # n + 1
      <3>1. i \in 1..n
        BY <1>4, <2>2
      <3> QED
        BY <1>1, <1>4, <1>6, <3>1
    <2> QED
      BY <2>1, <2>2
  <1>11. Embeds(a, b)
    BY <1>8, <1>9, <1>10 DEF Embeds
  <1> QED
    BY <1>3, <1>11
-----------------------------------------------------------------------------
\* One more message, which is an answer or a decision.
LEMMA MessageShapes ==
  /\ \A calls \in Seq(ToolCall) : Ai(calls) \in Message
  /\ Answer(TRUE) \in Message /\ Answer(FALSE) \in Message /\ NoSuchTool \in Message
  BY DEF Ai, Answer, NoSuchTool, Message

\* What holds of the conversation before the last message.
LEMMA PlainBefore ==
  ASSUME NEW ms \in Seq(Message), NEW m \in Message, Plain(Append(ms, m))
  PROVE  /\ Plain(ms)
         /\ Len(m.calls) <= 1 /\ \A c \in ToSet(m.calls) : ~Refused(c)
         /\ m.kind # "unknown"
  <1>1. PICK n, all : n \in Nat /\ n = Len(ms) /\ all = Append(ms, m)
    <2>1. Len(ms) \in Nat
      OBVIOUS
    <2> QED
      BY <2>1, Zenon
  <1>2. /\ DOMAIN ms = 1..n /\ DOMAIN all = 1..(n + 1) /\ all[n + 1] = m
        /\ \A i \in 1..n : all[i] = ms[i]
    BY <1>1
  <1>3. \A i \in 1..(n + 1) : /\ Len(all[i].calls) <= 1
                              /\ \A c \in ToSet(all[i].calls) : ~Refused(c)
                              /\ all[i].kind # "unknown"
    BY <1>1, <1>2 DEF Plain
  <1>4. n + 1 \in 1..(n + 1) /\ \A i \in 1..n : i \in 1..(n + 1)
    BY <1>1
  <1> QED
    BY <1>2, <1>3, <1>4 DEF Plain

\* A message without measurements changes nothing.
LEMMA AccountedMore ==
  ASSUME NEW ms \in Seq(Message), NEW m \in Message, NEW as \in Seq(ToolCall),
         Accounted(ms, as), Plain(Append(ms, m)) => Measurements(m.calls) = <<>>
  PROVE  Accounted(Append(ms, m), as)
  <1>1. /\ extract_tool_runs(ms) \in Seq(ToolCall)
        /\ Measurements(m.calls) \in Seq(ToolCall)
        /\ extract_tool_runs(Append(ms, m)) = extract_tool_runs(ms) \o Measurements(m.calls)
    BY ExtractAppend
  <1>2. Embeds(as, extract_tool_runs(Append(ms, m)))
    BY <1>1, EmbedsMore DEF Accounted
  <1>3. ASSUME Plain(Append(ms, m))
        PROVE  Len(extract_tool_runs(Append(ms, m))) = Len(as)
    <2>1. extract_tool_runs(Append(ms, m)) = extract_tool_runs(ms) \o <<>>
      BY <1>1, <1>3
    <2>2. extract_tool_runs(Append(ms, m)) = extract_tool_runs(ms)
      BY <1>1, <2>1
    <2>3. Plain(ms)
      BY <1>3, PlainBefore
    <2> QED
      BY <2>2, <2>3 DEF Accounted
  <1> QED
    BY <1>2, <1>3 DEF Accounted

\* A message whose first call is executed accounts for it.
LEMMA AccountedNext ==
  ASSUME NEW ms \in Seq(Message), NEW calls \in Seq(ToolCall), NEW as \in Seq(ToolCall),
         Accounted(ms, as), calls # <<>>, calls[1].name \in Execution
  PROVE  Accounted(Append(ms, Ai(calls)), Append(as, calls[1]))
  <1>1. Ai(calls) \in Message /\ Ai(calls).calls = calls
    BY MessageShapes DEF Ai
  <1>2. PICK runs, more, all :
          /\ runs \in Seq(ToolCall) /\ more \in Seq(ToolCall)
          /\ runs = extract_tool_runs(ms) /\ more = Measurements(calls)
          /\ all = extract_tool_runs(Append(ms, Ai(calls))) /\ all = runs \o more
    BY <1>1, ExtractAppend
  <1>3. more # <<>> /\ more[1] = calls[1]
    BY <1>2, MeasurementsFirst
  <1>4. Embeds(Append(as, calls[1]), all)
    <2>1. Embeds(as, runs)
      BY <1>2 DEF Accounted
    <2>2. Embeds(Append(as, more[1]), runs \o more)
      BY <1>2, <1>3, <2>1, EmbedsNext
    <2> QED
      BY <1>2, <1>3, <2>2
  <1>5. ASSUME Plain(Append(ms, Ai(calls)))
        PROVE  Len(all) = Len(Append(as, calls[1]))
    <2>1. Plain(ms) /\ Len(calls) <= 1
      BY <1>1, <1>5, PlainBefore
    <2>2. Len(calls) = 1
      <3>1. PICK n \in Nat : n = Len(calls) /\ n # 0
        <4>1. Len(calls) \in Nat /\ Len(calls) # 0
          OBVIOUS
        <4> QED
          BY <4>1, Zenon
      <3>2. n <= 1
        BY <2>1, <3>1, Zenon
      <3> QED
        BY <3>1, <3>2
    <2>3. more = calls
      BY <1>2, <2>2, MeasurementsOne
    <2>4. Len(runs) = Len(as)
      BY <1>2, <2>1 DEF Accounted
    <2>5. calls[1] \in ToolCall
      BY <2>2
    <2>6. Len(runs \o more) = Len(runs) + Len(more)
      OBVIOUS
    <2>7. Len(Append(as, calls[1])) = Len(as) + 1
      BY <2>5
    <2> QED
      BY <1>2, <2>2, <2>3, <2>4, <2>6, <2>7
  <1> QED
    BY <1>2, <1>4, <1>5 DEF Accounted
-----------------------------------------------------------------------------
\* The initial state satisfies the invariant.
THEOREM InitIInv == Init => IInv
  <1> SUFFICES ASSUME Init PROVE IInv
    OBVIOUS
  <1>1. /\ workflow \in Seq(Action) /\ pc \in {"decide", "run"} /\ steps \in Nat
        /\ pc = "decide" => workflow = <<>>
        /\ messages = <<>> /\ executed = <<>> /\ replayed = <<>> /\ result = "none"
    BY ShellAssumption DEF Init
  <1>2. TypeOk /\ ReplayOk /\ Reported /\ WorkflowHoldsWhatRan
    BY <1>1 DEF TypeOk, Places, ReplayOk, Reported, WorkflowHoldsWhatRan
  <1>3. Accounted(messages, executed)
    <2>1. Embeds(<<>>, <<>>)
      <3>1. [i \in {} |-> i] \in [DOMAIN <<>> -> DOMAIN <<>>]
        OBVIOUS
      <3> QED
        BY <3>1 DEF Embeds
    <2> QED
      BY <1>1, <2>1, ExtractNone DEF Accounted
  <1>4. ConversationOk
    BY <1>1, <1>3 DEF ConversationOk
  <1> QED
    BY <1>2, <1>4 DEF IInv
-----------------------------------------------------------------------------
Talking == {"decide", "tool", "generate"}

\* While the model and its tools talk, there is no workflow to be wrong about.
LEMMA TalkStep ==
  ASSUME IInv, pc \in Talking, pc' \in Talking \cup {"raised"},
         UNCHANGED <<workflow, replayed, result>>, steps' = steps + 1,
         messages' \in Seq(Message), executed' \in Seq(ToolCall),
         pc' \in {"decide", "generate"} => Accounted(messages', executed'),
         pc' = "tool" => Asked'
  PROVE  IInv'
  <1>1. workflow = <<>> /\ replayed = <<>>
    BY DEF IInv, ConversationOk, ReplayOk, Talking
  <1>2. TypeOk'
    BY DEF IInv, TypeOk, Talking, Places
  <1>3. ReplayOk' /\ Reported'
    BY <1>1 DEF ReplayOk, Reported, Talking
  <1>4. WorkflowHoldsWhatRan'
    BY DEF WorkflowHoldsWhatRan, Talking
  <1>5. ConversationOk'
    BY <1>1 DEF ConversationOk, Talking
  <1> QED
    BY <1>2, <1>3, <1>4, <1>5 DEF IInv

\* An exception ends the graph.
LEMMA RaiseStep ==
  ASSUME IInv, pc \in Talking \cup {"run"}, pc' = "raised", steps' \in Nat,
         executed' \in Seq(ToolCall), pc = "run" => executed' = executed,
         UNCHANGED <<messages, workflow, replayed, result>>
  PROVE  IInv'
  <1>1. TypeOk'
    BY DEF IInv, TypeOk, Places
  <1>2. ReplayOk' /\ Reported'
    BY DEF IInv, ReplayOk, Reported, Talking
  <1>3. ConversationOk'
    BY DEF ConversationOk
  <1>4. CASE pc = "run"
    <2>1. WorkflowHoldsWhatRan'
      BY <1>4 DEF WorkflowHoldsWhatRan
    <2> QED
      BY <1>1, <1>2, <1>3, <2>1 DEF IInv
  <1>5. CASE pc \in Talking
    <2>1. WorkflowHoldsWhatRan'
      BY DEF WorkflowHoldsWhatRan
    <2> QED
      BY <1>1, <1>2, <1>3, <2>1 DEF IInv
  <1> QED
    BY <1>4, <1>5

\* The recursion limit ends the conversation without a report.
LEMMA LimitReachedStep ==
  ASSUME IInv, LimitReached
  PROVE  IInv'
  BY RaiseStep DEF LimitReached, Talking, IInv, TypeOk

\* decide
LEMMA DecideStep ==
  ASSUME IInv, Decide
  PROVE  IInv'
  <1>1. PICK calls \in Decisions :
          /\ messages' = Append(messages, Ai(calls))
          /\ pc' = IF calls = <<>> THEN "generate" ELSE "tool"
    BY DEF Decide
  <1>2. calls \in Seq(ToolCall) /\ Ai(calls) \in Message /\ Ai(calls).calls = calls
    BY ShellAssumption, MessageShapes DEF Ai
  <1>3. /\ pc = "decide" /\ steps' = steps + 1
        /\ UNCHANGED <<executed, workflow, replayed, result>>
    BY DEF Decide, Node
  <1>4. messages \in Seq(Message) /\ executed \in Seq(ToolCall) /\ Accounted(messages, executed)
    BY <1>3 DEF IInv, TypeOk, ConversationOk
  <1>5. messages' \in Seq(Message)
    BY <1>1, <1>2, <1>4
  <1>6. CASE calls = <<>>
    <2>1. Measurements(Ai(calls).calls) = <<>>
      BY <1>2, <1>6, MeasurementsNone
    <2>2. Accounted(messages', executed')
      BY <1>1, <1>2, <1>3, <1>4, <2>1, AccountedMore
    <2> QED
      BY <1>1, <1>3, <1>4, <1>5, <1>6, <2>2, TalkStep DEF Talking
  <1>7. CASE calls # <<>>
    <2>1. Asked'
      BY <1>1, <1>2, <1>3, <1>4, <1>7 DEF Asked
    <2> QED
      BY <1>1, <1>3, <1>4, <1>5, <1>7, <2>1, TalkStep DEF Talking
  <1> QED
    BY <1>6, <1>7

\* So does an exception of the model,
LEMMA DecideRaisesStep ==
  ASSUME IInv, DecideRaises
  PROVE  IInv'
  BY RaiseStep DEF DecideRaises, Node, Talking, IInv, TypeOk

\* The call that is performed next is the first of the last message.
LEMMA AskedCall ==
  ASSUME IInv, Node("tool")
  PROVE  \E ms \in Seq(Message), calls \in Seq(ToolCall) :
           /\ calls # <<>> /\ messages = Append(ms, Ai(calls)) /\ Accounted(ms, executed)
           /\ calls[1] = Call /\ calls[1] \in ToolCall
  <1>1. PICK ms \in Seq(Message), calls \in Seq(ToolCall) :
          calls # <<>> /\ messages = Append(ms, Ai(calls)) /\ Accounted(ms, executed)
    BY DEF IInv, ConversationOk, Asked, Node
  <1>2. Ai(calls) \in Message /\ Ai(calls).calls = calls
    BY MessageShapes DEF Ai
  <1>3. Last(messages) = Ai(calls)
    BY <1>1, <1>2 DEF Last
  <1>4. calls[1] \in ToolCall
    <2>1. calls \in Seq(ToolCall) /\ calls # <<>>
      BY <1>1
    <2> QED
      BY <2>1
  <1> QED
    BY <1>1, <1>2, <1>3, <1>4 DEF Call

\* An answer holds no call.
LEMMA AnswerAdds ==
  ASSUME NEW ms \in Seq(Message), NEW as \in Seq(ToolCall), NEW m \in Message,
         m.calls = <<>>, Accounted(ms, as)
  PROVE  Append(ms, m) \in Seq(Message) /\ Accounted(Append(ms, m), as)
  <1>1. Measurements(m.calls) = <<>>
    BY MeasurementsNone
  <1>2. Append(ms, m) \in Seq(Message)
    OBVIOUS
  <1>3. Accounted(Append(ms, m), as)
    BY <1>1, AccountedMore
  <1> QED
    BY <1>2, <1>3

\* run_ping, run_iperf3 and run_ndt7
LEMMA RunToolStep ==
  ASSUME IInv, RunTool
  PROVE  IInv'
  <1>1. /\ Node("tool") /\ Call.name \in Execution
        /\ executed' = Append(executed, Call)
        /\ UNCHANGED <<workflow, replayed, result>>
    BY DEF RunTool
  <1>2. PICK ms \in Seq(Message), calls \in Seq(ToolCall) :
          /\ calls # <<>> /\ messages = Append(ms, Ai(calls)) /\ Accounted(ms, executed)
          /\ calls[1] = Call /\ calls[1] \in ToolCall
    BY <1>1, AskedCall
  <1>3. /\ executed \in Seq(ToolCall) /\ messages \in Seq(Message)
        /\ executed' \in Seq(ToolCall)
    BY <1>1, <1>2 DEF IInv, TypeOk
  <1>4. Accounted(messages, executed')
    BY <1>1, <1>2, <1>3, AccountedNext
  <1>5. CASE pc' = "raised" /\ UNCHANGED messages
    <2>1. pc = "tool" /\ steps' \in Nat
      BY <1>1 DEF Node, IInv, TypeOk
    <2> QED
      BY <1>1, <1>3, <1>5, <2>1, RaiseStep DEF Talking
  <1>6. ASSUME NEW ok \in BOOLEAN, pc' = "decide", messages' = Append(messages, Answer(ok))
        PROVE  IInv'
    <2>1. Answer(ok) \in Message /\ Answer(ok).calls = <<>>
      BY MessageShapes DEF Answer
    <2>2. messages' \in Seq(Message) /\ Accounted(messages', executed')
      BY <1>3, <1>4, <1>6, <2>1, AnswerAdds
    <2> QED
      BY <1>1, <1>3, <1>6, <2>2, TalkStep DEF Talking, Node
  <1>7. \/ pc' = "raised" /\ UNCHANGED messages
        \/ \E ok \in BOOLEAN : pc' = "decide" /\ messages' = Append(messages, Answer(ok))
    BY DEF RunTool
  <1> QED
    BY <1>5, <1>6, <1>7

\* and one of a tool.
LEMMA ToolRaisesStep ==
  ASSUME IInv, ToolRaises
  PROVE  IInv'
  BY RaiseStep DEF ToolRaises, Node, Talking, IInv, TypeOk

\* An answer to a call that was not executed, which is none of a measurement
\* or makes the conversation one that is not plain.
LEMMA UnexecutedStep ==
  ASSUME IInv, Node("tool"), NEW m \in Message, m.calls = <<>>,
         messages' = Append(messages, m), pc' \in {"decide", "generate"},
         UNCHANGED <<executed, workflow, replayed, result>>,
         Refused(Call) \/ Call.name \notin Execution
  PROVE  IInv'
  <1>1. PICK ms \in Seq(Message), calls \in Seq(ToolCall) :
          /\ calls # <<>> /\ messages = Append(ms, Ai(calls)) /\ Accounted(ms, executed)
          /\ calls[1] = Call /\ calls[1] \in ToolCall
    BY AskedCall
  <1>2. executed \in Seq(ToolCall) /\ Ai(calls) \in Message /\ Ai(calls).calls = calls
    BY MessageShapes DEF IInv, TypeOk, Ai
  <1>3. ASSUME Plain(Append(ms, Ai(calls)))
        PROVE  Measurements(calls) = <<>>
    <2>1. Len(calls) <= 1 /\ \A c \in ToSet(calls) : ~Refused(c)
      BY <1>2, <1>3, PlainBefore
    <2>2. Len(calls) = 1 /\ Call \in ToSet(calls)
      <3>1. PICK n \in Nat : n = Len(calls) /\ n # 0 /\ DOMAIN calls = 1..n
        <4>1. Len(calls) \in Nat /\ Len(calls) # 0 /\ DOMAIN calls = 1..Len(calls)
          BY <1>1
        <4> QED
          BY <4>1, Zenon
      <3>2. n <= 1
        BY <2>1, <3>1, Zenon
      <3>3. Len(calls) = 1 /\ 1 \in DOMAIN calls
        BY <3>1, <3>2
      <3> QED
        BY <1>1, <3>3 DEF ToSet
    <2>3. calls[1].name \notin Execution
      BY <1>1, <2>1, <2>2
    <2> QED
      BY <2>2, <2>3, MeasurementsOne
  <1>4. Accounted(messages, executed)
    BY <1>1, <1>2, <1>3, AccountedMore
  <1>5. messages' \in Seq(Message) /\ Accounted(messages', executed)
    <2>1. messages \in Seq(Message)
      BY DEF IInv, TypeOk
    <2> QED
      BY <1>2, <1>4, <2>1, AnswerAdds
  <1> QED
    BY <1>2, <1>5, TalkStep DEF Talking, Node

\* A refused measurement is not executed.
LEMMA RefuseNdtStep ==
  ASSUME IInv, RefuseNdt
  PROVE  IInv'
  BY MessageShapes, UnexecutedStep DEF RefuseNdt, Answer

\* A call of send_message is no measurement.
LEMMA SendMessageStep ==
  ASSUME IInv, SendMessage
  PROVE  IInv'
  BY MessageShapes, UnexecutedStep DEF SendMessage, Answer, Execution

\* bad_tool_name
LEMMA BadToolNameStep ==
  ASSUME IInv, BadToolName
  PROVE  IInv'
  <1>1. /\ pc' = "decide" /\ Node("tool")
        /\ UNCHANGED <<executed, workflow, replayed, result>>
    BY DEF BadToolName
  <1>2. PICK ms \in Seq(Message), calls \in Seq(ToolCall) :
          /\ calls # <<>> /\ messages = Append(ms, Ai(calls)) /\ Accounted(ms, executed)
          /\ calls[1] = Call /\ calls[1] \in ToolCall
    BY <1>1, AskedCall
  <1>3. PICK n \in Nat : n = Len(ms)
    <2>1. Len(ms) \in Nat
      OBVIOUS
    <2> QED
      BY <2>1, Zenon
  <1>4. /\ Len(messages) = n + 1 /\ DOMAIN messages = 1..(n + 1)
        /\ messages[n + 1] = Ai(calls) /\ \A i \in 1..n : messages[i] = ms[i]
        /\ Last(messages).calls = calls
    BY <1>2, <1>3, MessageShapes DEF Last, Ai
  <1>5. PICK renamed \in Seq(ToolCall) :
          messages' = Append([messages EXCEPT ![n + 1] = Ai(renamed)], NoSuchTool)
    <2>1. PICK name : name = IF Call.name = "RunPingTool:" THEN "RunPingTool" ELSE Call.name
      OBVIOUS
    <2>2. name \in Texts
      <3>1. "RunPingTool" \in Texts
        BY ShellAssumption
      <3>2. Call.name \in Texts
        BY <1>2 DEF ToolCall
      <3> QED
        BY <2>1, <3>1, <3>2
    <2>3. [calls[1] EXCEPT !.name = name] \in ToolCall
      BY <1>2, <2>2 DEF ToolCall
    <2>4. [calls EXCEPT ![1].name = name] \in Seq(ToolCall)
      BY <1>2, <2>3
    <2>5. messages' = Append([messages EXCEPT ![n + 1] =
                                Ai([calls EXCEPT ![1].name = name])], NoSuchTool)
      BY <1>4, <2>1 DEF BadToolName
    <2> QED
      BY <2>4, <2>5
  <1>6. Ai(renamed) \in Message /\ NoSuchTool \in Message /\ executed \in Seq(ToolCall)
    BY MessageShapes DEF IInv, TypeOk
  <1>7. PICK all \in Seq(Message) : all = Append(ms, Ai(renamed))
    <2>1. Append(ms, Ai(renamed)) \in Seq(Message)
      BY <1>6
    <2> QED
      BY <2>1, Zenon
  <1>8. /\ Embeds(executed, extract_tool_runs(all)) /\ extract_tool_runs(all) \in Seq(ToolCall)
    <2>1. /\ extract_tool_runs(ms) \in Seq(ToolCall)
          /\ Measurements(Ai(renamed).calls) \in Seq(ToolCall)
          /\ extract_tool_runs(all) = extract_tool_runs(ms) \o Measurements(Ai(renamed).calls)
      BY <1>6, <1>7, ExtractAppend
    <2> QED
      BY <1>2, <1>6, <2>1, EmbedsMore DEF Accounted
  <1>9. ~Plain(Append(all, NoSuchTool))
    BY <1>6, PlainBefore DEF NoSuchTool
  <1>10. Accounted(Append(all, NoSuchTool), executed)
    <2>1. /\ Measurements(NoSuchTool.calls) \in Seq(ToolCall)
          /\ extract_tool_runs(Append(all, NoSuchTool))
               = extract_tool_runs(all) \o Measurements(NoSuchTool.calls)
      BY <1>6, ExtractAppend
    <2>2. Embeds(executed, extract_tool_runs(Append(all, NoSuchTool)))
      BY <1>6, <1>8, <2>1, EmbedsMore
    <2> QED
      BY <1>9, <2>2 DEF Accounted
  <1>11. messages' = Append(all, NoSuchTool) /\ messages' \in Seq(Message)
    <2>1. [messages EXCEPT ![n + 1] = Ai(renamed)] = all
      <3>1. PICK a : a = [messages EXCEPT ![n + 1] = Ai(renamed)]
        OBVIOUS
      <3>2. messages \in Seq(Message)
        BY DEF IInv, TypeOk
      <3>3. a \in Seq(Message)
        BY <1>4, <1>6, <3>1, <3>2
      <3>4. Len(a) = n + 1 /\ a[n + 1] = Ai(renamed)
        BY <1>4, <3>1, <3>2
      <3>5. \A i \in 1..n : a[i] = ms[i]
        BY <1>4, <3>1
      <3>6. Len(all) = n + 1 /\ all[n + 1] = Ai(renamed) /\ \A i \in 1..n : all[i] = ms[i]
        BY <1>3, <1>6, <1>7
      <3>7. \A i \in 1..(n + 1) : a[i] = all[i]
        <4> TAKE i \in 1..(n + 1)
        <4>1. i = n + 1 \/ i \in 1..n
          OBVIOUS
        <4> QED
          BY <3>4, <3>5, <3>6, <4>1
      <3>8. a = all
        BY <3>3, <3>4, <3>6, <3>7
      <3> QED
        BY <3>1, <3>8
    <2>2. messages' = Append(all, NoSuchTool)
      BY <1>5, <2>1
    <2>3. Append(all, NoSuchTool) \in Seq(Message)
      BY <1>6
    <2> QED
      BY <2>2, <2>3
  <1> QED
    BY <1>1, <1>6, <1>10, <1>11, TalkStep DEF Talking, Node
-----------------------------------------------------------------------------
\* Only measurements become actions.
LEMMA OnlyMeasurements ==
  ASSUME NEW ms \in Seq(Message)
  PROVE  extract_tool_runs(ms) \in Seq({c \in ToolCall : c.name \in Execution})
  <1> DEFINE V == {c \in ToolCall : c.name \in Execution}
  <1>1. ASSUME NEW calls \in Seq(ToolCall)
        PROVE  Measurements(calls) \in Seq(V)
    <2>1. \A k \in 1..Len(calls) : calls[k] \in ToolCall
      OBVIOUS
    <2>2. \A k \in 1..Len(calls) :
            (IF calls[k].name \in Execution THEN <<calls[k]>> ELSE <<>>) \in Seq(V)
      <3> TAKE k \in 1..Len(calls)
      <3>1. <<>> \in Seq(V)
        OBVIOUS
      <3>2. CASE calls[k].name \in Execution
        <4>1. calls[k] \in V
          BY <2>1, <3>2
        <4>2. <<calls[k]>> \in Seq(V)
          BY <4>1
        <4> QED
          BY <3>2, <4>2
      <3> QED
        BY <3>1, <3>2
    <2> HIDE DEF V
    <2>3. PICK n \in Nat : n = Len(calls) /\ DOMAIN calls = 1..n
      OBVIOUS
    <2>4. PICK each : each = Each(calls)
      OBVIOUS
    <2>5. /\ each = [k \in 1..n |-> each[k]]
          /\ \A k \in 1..n : each[k] \in Seq(V)
      BY <2>2, <2>3, <2>4 DEF Each
    <2>6. each \in Seq(Seq(V))
      BY <2>5
    <2> QED
      BY <2>4, <2>6, EachType, FlattenType
  <1> HIDE DEF V
  <1>2. \A k \in 1..Len(ms) : Measurements(ms[k].calls) \in Seq(V)
    <2> TAKE k \in 1..Len(ms)
    <2>1. ms[k] \in Message
      OBVIOUS
    <2>2. ms[k].calls \in Seq(ToolCall)
      BY <2>1 DEF Message
    <2> QED
      BY <1>1, <2>2
  <1>3. [k \in DOMAIN ms |-> Measurements(ms[k].calls)] \in Seq(Seq(V))
    BY <1>2
  <1>4. extract_tool_runs(ms) \in Seq(V)
    BY <1>3, FlattenType DEF extract_tool_runs
  <1> QED
    BY <1>4 DEF V

\* A placeholder stands for the argument it replaced.
LEMMA EmbeddedIs ==
  ASSUME NEW argument \in Texts
  PROVE  Embedded(argument) \in Argument /\ Filled(Embedded(argument)) = argument
  <1>1. CASE \E n \in DOMAIN Supplied : Supplied[n] = argument
    <2>1. PICK name : name = CHOOSE n \in DOMAIN Supplied : Supplied[n] = argument
      OBVIOUS
    <2>2. name \in DOMAIN Supplied /\ Supplied[name] = argument
      BY <1>1, <2>1
    <2>3. Embedded(argument) = <<"hole", name>>
      BY <1>1, <2>1 DEF Embedded
    <2> QED
      BY <2>2, <2>3 DEF Argument, Filled
  <1>2. CASE ~\E n \in DOMAIN Supplied : Supplied[n] = argument
    <2>1. Embedded(argument) = <<"value", argument>>
      BY <1>2 DEF Embedded
    <2> QED
      BY <2>1 DEF Argument, Filled
  <1> QED
    BY <1>1, <1>2

\* What becomes of a call is the same measurement with the same arguments.
LEMMA Conversion ==
  ASSUME NEW c \in ToolCall, c.name \in Execution
  PROVE  Converted(c) \in Action /\ Same(Converted(c), c)
  <1>1. c.host \in Texts /\ c.option \in Texts
    BY DEF ToolCall
  <1>2. ActionType(c.name) \in {"iperf", "ndt", "ping", "wget"}
    BY DEF Execution, ActionType
  <1> QED
    BY <1>1, <1>2, EmbeddedIs DEF Converted, Action, Same

\* generate_workflow
LEMMA GenerateStep ==
  ASSUME IInv, Generate
  PROVE  IInv'
  <1>1. PICK runs : /\ runs = extract_tool_runs(messages)
                    /\ workflow' = [i \in DOMAIN runs |-> Converted(runs[i])]
    BY DEF Generate
  <1>2. /\ pc = "generate" /\ pc' = "run" /\ steps' = steps + 1
        /\ UNCHANGED <<messages, executed, replayed, result>>
    BY DEF Generate, Node
  <1>3. /\ messages \in Seq(Message) /\ executed \in Seq(ToolCall)
        /\ replayed = <<>> /\ Accounted(messages, executed)
    BY <1>2 DEF IInv, TypeOk, ReplayOk, ConversationOk
  <1>4. runs \in Seq({c \in ToolCall : c.name \in Execution})
    BY <1>1, <1>3, OnlyMeasurements
  <1>5. \A i \in DOMAIN runs : /\ workflow'[i] \in Action /\ Same(workflow'[i], runs[i])
    <2> TAKE i \in DOMAIN runs
    <2>1. runs[i] \in ToolCall /\ runs[i].name \in Execution
      BY <1>4
    <2>2. workflow'[i] = Converted(runs[i])
      BY <1>1
    <2> QED
      BY <2>1, <2>2, Conversion
  <1>6. workflow' \in Seq(Action) /\ DOMAIN workflow' = DOMAIN runs /\ Len(workflow') = Len(runs)
    BY <1>1, <1>4, <1>5
  <1>7. TypeOk'
    BY <1>2, <1>6 DEF IInv, TypeOk, Places
  <1>8. ReplayOk' /\ Reported'
    BY <1>2, <1>3, <1>6 DEF ReplayOk, Reported
  <1>9. ConversationOk'
    BY <1>2 DEF ConversationOk
  <1>10. WorkflowHoldsWhatRan'
    <2>1. PICK f \in [DOMAIN executed -> DOMAIN runs] :
            /\ \A i, j \in DOMAIN executed : i < j => f[i] < f[j]
            /\ \A i \in DOMAIN executed : runs[f[i]] = executed[i]
      BY <1>1, <1>3 DEF Accounted, Embeds
    <2>2. \A i \in DOMAIN executed : Same(workflow'[f[i]], executed[i])
      BY <1>5, <2>1
    <2>3. Plain(messages) => Len(workflow') = Len(executed)
      BY <1>1, <1>3, <1>6 DEF Accounted
    <2>4. \A a, c : Same(a, c)' = Same(a, c)
      BY DEF Same, Filled
    <2> QED
      BY <1>2, <1>6, <2>1, <2>2, <2>3, <2>4 DEF WorkflowHoldsWhatRan, Same, Filled, Plain
  <1> QED
    BY <1>7, <1>8, <1>9, <1>10 DEF IInv
-----------------------------------------------------------------------------
\* Once the workflow is there, it and the conversation stay.
LEMMA FixedWorkflow ==
  ASSUME IInv, UNCHANGED <<messages, executed, workflow>>, pc \in {"run", "replay"},
         pc' \notin Talking
  PROVE  WorkflowHoldsWhatRan' /\ ConversationOk'
  BY DEF IInv, WorkflowHoldsWhatRan, Same, Filled, Plain, Refused, ConversationOk, Talking

\* The runner rejects the workflow.
LEMMA RunRejectsStep ==
  ASSUME IInv, RunRejects
  PROVE  IInv'
  <1>1. /\ pc = "run" /\ pc' = "done" /\ result' = "failure" /\ steps' = steps + 1 /\ ~Valid
        /\ UNCHANGED <<messages, executed, workflow, replayed>>
    BY DEF RunRejects, Node
  <1>2. TypeOk'
    BY <1>1 DEF IInv, TypeOk, Places
  <1>3. ReplayOk'
    BY <1>1 DEF IInv, ReplayOk
  <1>4. Reported'
    <2>1. replayed = <<>> /\ workflow \in Seq(Action) /\ workflow # <<>>
      BY <1>1 DEF IInv, TypeOk, ReplayOk, Valid
    <2>2. Len(workflow) # 0 /\ Len(replayed) = 0
      BY <2>1
    <2> QED
      BY <1>1, <2>2 DEF Reported
  <1> QED
    BY <1>1, <1>2, <1>3, <1>4, FixedWorkflow DEF IInv, Talking

\* The replay begins and has done nothing.
LEMMA RunStartsStep ==
  ASSUME IInv, RunStarts
  PROVE  IInv'
  <1>1. /\ pc = "run" /\ pc' = "replay" /\ steps' = steps + 1
        /\ UNCHANGED <<messages, executed, workflow, replayed, result>>
    BY DEF RunStarts, Node
  <1>2. TypeOk' /\ ReplayOk' /\ Reported'
    BY <1>1 DEF IInv, TypeOk, Places, ReplayOk, Reported
  <1> QED
    BY <1>1, <1>2, FixedWorkflow DEF IInv, Talking

\* The command of an action of a workflow.
LEMMA CommandType ==
  ASSUME NEW a \in Action
  PROVE  CommandOf(a) \in CommandLine
  <1>1. /\ a.type \in {"iperf", "ndt", "ping", "wget"}
        /\ a.host \in Argument /\ a.option \in Argument
    BY DEF Action
  <1>2. ASSUME NEW x \in Argument
        PROVE  Filled(x) \in Texts
    BY ShellAssumption DEF Argument, Filled
  <1>3. PICK host \in Texts, option \in Texts : host = Filled(a.host) /\ option = Filled(a.option)
    BY <1>1, <1>2
  <1>4. Arguments(a.type, host, option) \in Texts \X Texts
    BY <1>1, ShellAssumption DEF Arguments, IperfRun, NdtRun, PingRun, WgetRun
  <1>5. Command(a.type, host, option) \in CommandLine
    BY <1>1, <1>4, ShellAssumption DEF Command, CommandLine
  <1> QED
    BY <1>3, <1>5 DEF CommandOf

\* The engine performs the next action.
LEMMA ReplayStep ==
  ASSUME IInv, Replay
  PROVE  IInv'
  <1>1. /\ pc = "replay" /\ Len(replayed) < Len(workflow) /\ ~Stopped
        /\ UNCHANGED <<pc, steps, messages, executed, workflow, result>>
    BY DEF Replay
  <1>2. /\ replayed \in Seq(Entry) /\ workflow \in Seq(Action)
        /\ \A i \in DOMAIN replayed : replayed[i].command = CommandOf(workflow[i])
        /\ \A i \in DOMAIN replayed : i < Len(replayed) => replayed[i].outcome = "ok"
    BY DEF IInv, TypeOk, ReplayOk
  <1>3. PICK n \in Nat, a \in Action : n = Len(replayed) /\ a = workflow[n + 1]
    <2>1. Len(replayed) \in Nat /\ workflow[Len(replayed) + 1] \in Action
      BY <1>1, <1>2
    <2> QED
      BY <2>1, Zenon
  <1>4. PICK e \in Entry : e.command = CommandOf(a) /\ replayed' = Append(replayed, e)
    <2>1. PICK outcome \in ReplayOutcomes(a) :
            replayed' = Append(replayed, [type |-> a.type, outcome |-> outcome,
                                          command |-> CommandOf(a)])
      BY <1>3 DEF Replay
    <2>2. outcome \in {"nonzero", "missing", "denied", "io", "ok", "error"}
      BY DEF ReplayOutcomes, Outcomes
    <2>3. a.type \in {"iperf", "ndt", "ping", "wget"}
      BY DEF Action
    <2> QED
      BY <2>1, <2>2, <2>3, CommandType DEF Entry
  <1>5. \A i \in DOMAIN replayed : replayed[i].outcome = "ok"
    <2> TAKE i \in DOMAIN replayed
    <2>1. CASE i < Len(replayed)
      BY <1>2, <2>1
    <2>2. CASE i = Len(replayed)
      BY <1>1, <1>2, <2>2 DEF Stopped, Last
    <2> QED
      BY <1>2, <2>1, <2>2
  <1>6. /\ replayed' \in Seq(Entry) /\ Len(replayed') = n + 1
        /\ DOMAIN replayed' = 1..(n + 1) /\ DOMAIN replayed = 1..n
        /\ replayed'[n + 1] = e /\ \A i \in 1..n : replayed'[i] = replayed[i]
    BY <1>2, <1>3, <1>4
  <1>7. TypeOk'
    BY <1>1, <1>6 DEF IInv, TypeOk
  <1>8. ReplayOk'
    <2>1. Len(replayed') <= Len(workflow)
      BY <1>1, <1>2, <1>3, <1>6
    <2>2. \A i \in 1..(n + 1) : i = n + 1 \/ i \in 1..n
      OBVIOUS
    <2>3. \A i \in DOMAIN replayed' : replayed'[i].command = CommandOf(workflow[i])
      BY <1>2, <1>3, <1>4, <1>6, <2>2
    <2>4. \A i \in DOMAIN replayed' : i < Len(replayed') => replayed'[i].outcome = "ok"
      BY <1>5, <1>6, <2>2
    <2> QED
      BY <1>1, <2>1, <2>3, <2>4 DEF ReplayOk
  <1>9. Reported'
    BY <1>1 DEF Reported
  <1> QED
    BY <1>1, <1>7, <1>8, <1>9, FixedWorkflow DEF IInv, Talking

\* The result of the replay.
LEMMA ReportStep ==
  ASSUME IInv, Report
  PROVE  IInv'
  <1>1. /\ pc = "replay" /\ pc' = "done" /\ (Stopped \/ Len(replayed) = Len(workflow))
        /\ result' = IF Stopped THEN "failure" ELSE "success"
        /\ UNCHANGED <<steps, messages, executed, workflow, replayed>>
    BY DEF Report
  <1>2. TypeOk' /\ ReplayOk'
    BY <1>1 DEF IInv, TypeOk, Places, ReplayOk
  <1>3. replayed \in Seq(Entry) /\ \A i \in DOMAIN replayed :
          i < Len(replayed) => replayed[i].outcome = "ok"
    BY DEF IInv, TypeOk, ReplayOk
  <1>4. Stopped <=> \E i \in DOMAIN replayed : replayed[i].outcome # "ok"
    <2>1. ASSUME Stopped
          PROVE  Len(replayed) \in DOMAIN replayed /\ replayed[Len(replayed)].outcome # "ok"
      BY <1>3, <2>1 DEF Stopped, Last
    <2>2. ASSUME NEW i \in DOMAIN replayed, replayed[i].outcome # "ok"
          PROVE  Stopped
      BY <1>3, <2>2 DEF Stopped, Last
    <2> QED
      BY <2>1, <2>2
  <1>5. Reported'
    <2>1. (result' = "success") <=> ~Stopped
      BY <1>1
    <2> QED
      BY <1>1, <1>4, <2>1 DEF Reported
  <1> QED
    BY <1>1, <1>2, <1>5, FixedWorkflow DEF IInv, Talking

\* A step that changes nothing.
LEMMA StutterStep ==
  ASSUME IInv, UNCHANGED vars
  PROVE  IInv'
  <1> USE DEF vars
  <1>1. TypeOk' /\ ReplayOk' /\ Reported'
    BY DEF IInv, TypeOk, ReplayOk, Reported
  <1>2. WorkflowHoldsWhatRan'
    BY DEF IInv, WorkflowHoldsWhatRan, Same, Filled, Plain, Refused
  <1>3. ConversationOk'
    BY DEF IInv, ConversationOk, Asked
  <1> QED
    BY <1>1, <1>2, <1>3 DEF IInv

\* Every step preserves the invariant.
THEOREM StepIInv == IInv /\ [Next]_vars => IInv'
  BY LimitReachedStep, DecideStep, DecideRaisesStep, RunToolStep, ToolRaisesStep,
     RefuseNdtStep, SendMessageStep, BadToolNameStep, GenerateStep, RunRejectsStep,
     RunStartsStep, ReplayStep, ReportStep, StutterStep DEF Next

\* The invariant holds in every reachable state.
THEOREM SpecIInv == Spec => []IInv
  BY InitIInv, StepIInv, PTL DEF Spec
-----------------------------------------------------------------------------
\* Every variable keeps its type, for every set of decisions.
THEOREM TypeCorrect == Spec => []TypeOk
  <1>1. IInv => TypeOk
    BY DEF IInv
  <1> QED
    BY <1>1, SpecIInv, PTL

\* Whatever the model decides, the workflow made of a conversation holds every
\* measurement that was run, in its order, and nothing else if it was a plain one.
THEOREM WorkflowIsTheConversation == Spec => []WorkflowHoldsWhatRan
  <1>1. IInv => WorkflowHoldsWhatRan
    BY DEF IInv
  <1> QED
    BY <1>1, SpecIInv, PTL

\* A success is reported exactly when every action was performed and returned, and
\* then every measurement of the conversation was started again as it was there.
THEOREM HonestReport == Spec => []ReportIsOfTheReplay
  <1>1. IInv => ReportIsOfTheReplay
    <2> SUFFICES ASSUME IInv, pc = "done", result = "success", messages # <<>>
                 PROVE  \E f \in [DOMAIN executed -> DOMAIN replayed] :
                          /\ \A i, j \in DOMAIN executed : i < j => f[i] < f[j]
                          /\ \A i \in DOMAIN executed :
                               replayed[f[i]].command = CommandFor(executed[i])
      BY DEF IInv, Reported, ReportIsOfTheReplay
    <2>1. /\ replayed \in Seq(Entry) /\ workflow \in Seq(Action) /\ executed \in Seq(ToolCall)
          /\ Len(replayed) = Len(workflow)
      BY DEF IInv, TypeOk, Reported
    <2>2. DOMAIN replayed = DOMAIN workflow
      BY <2>1
    <2>3. PICK f \in [DOMAIN executed -> DOMAIN workflow] :
            /\ \A i, j \in DOMAIN executed : i < j => f[i] < f[j]
            /\ \A i \in DOMAIN executed : Same(workflow[f[i]], executed[i])
      BY DEF IInv, WorkflowHoldsWhatRan
    <2>4. \A i \in DOMAIN executed : replayed[f[i]].command = CommandFor(executed[i])
      <3> TAKE i \in DOMAIN executed
      <3>1. f[i] \in DOMAIN replayed
        BY <2>2, <2>3
      <3>2. replayed[f[i]].command = CommandOf(workflow[f[i]])
        BY <3>1 DEF IInv, ReplayOk
      <3> QED
        BY <2>3, <3>2 DEF Same, CommandOf, CommandFor
    <2> QED
      BY <2>2, <2>3, <2>4
  <1> QED
    BY <1>1, SpecIInv, PTL
=============================================================================
