-------------------------- MODULE Generation_proofs --------------------------
(***************************************************************************)
(* The guidance of a round is true, the history a workflow is made of is    *)
(* the one the code means to choose, and its selectors match the elements   *)
(* they are made of, for any turns and number of rounds. The invariant says *)
(* what an evolution summarizes; most of the work is in lemmas on the       *)
(* operators: counters and their most common labels, the stable sort, the   *)
(* candidates for a selector, and texts.                                    *)
(*                                                                         *)
(* That a replay repeats the run is a theorem on texts. What the agent      *)
(* writes is a sequence of units, words and parameters, which has several   *)
(* renderings: as the agent is told, as it is typed, with names for         *)
(* aliases, and with placeholders. Each of the rewritings turns one         *)
(* rendering into another, unit by unit, and those that look for values     *)
(* change units but not what they stand for.                                *)
(***************************************************************************)
EXTENDS Generation, SequenceLemmas, FiniteSetTheorems

\* What Only returns: members of the sequence, and just those that are in the set.
LEMMA OnlyIs ==
  ASSUME NEW V, NEW s \in Seq(V), NEW S
  PROVE  Only(s, S) \in Seq(V) /\ ToSet(Only(s, S)) = ToSet(s) \cap S
  <1>0. PICK n \in Nat : n = Len(s)
    <2>1. Len(s) \in Nat
      OBVIOUS
    <2> QED
      BY <2>1, Zenon
  <1>1. DOMAIN s = 1..n /\ \A i \in 1..n : s[i] \in V
    BY <1>0
  <1>2. PICK ss : ss = [i \in 1..n |-> IF s[i] \in S THEN <<s[i]>> ELSE <<>>]
    OBVIOUS
  <1>3. Only(s, S) = FlattenSeq(ss)
    BY <1>1, <1>2, Zenon DEF Only
  <1>4. ss \in Seq(Seq(V))
    <2>1. ASSUME NEW i \in 1..n PROVE ss[i] \in Seq(V)
      BY <1>1, <1>2
    <2> QED
      BY <1>2, <2>1
  <1>5. DOMAIN ss = 1..n
    BY <1>2
  <1>6. ToSet(FlattenSeq(ss)) = UNION {ToSet(ss[i]) : i \in 1..n}
    BY <1>4, <1>5, FlattenRange
  <1>7. \A i \in 1..n : ToSet(ss[i]) = {s[i]} \cap S
    <2>1. ASSUME NEW v PROVE ToSet(<<v>>) = {v}
      BY DEF ToSet
    <2>2. ToSet(<<>>) = {}
      BY DEF ToSet
    <2> QED
      BY <1>2, <2>1, <2>2
  <1>8. ToSet(s) = {s[i] : i \in 1..n}
    BY <1>1 DEF ToSet
  <1> QED
    BY <1>3, <1>4, <1>6, <1>7, <1>8, FlattenType
-----------------------------------------------------------------------------
\* What the agent may have done in the rounds of this call: a step for each turn that is
\* possible, and the actions of these steps with the elements recorded for them.
StepOf(turn) ==
  [url |-> turn.url, actions |-> Acts(turn.plan), elements |-> turn.elements, errors |-> turn.errors]
Step == {StepOf(turn) : turn \in {t \in Turns : Possible(t)}}
Performed == UNION {ToSet(Did(s)) : s \in Step}
History == [steps : Seq(Step), verdict : {"yes", "no", "unknown"}]
Labels == {Label(a) : a \in Performed}

\* The steps of this round and the histories of the rounds that ended.
TypeOk ==
  /\ params \in ParameterSets
  /\ steps \in Seq(Step)
  /\ histories \in Seq(History)

\* Where the call is: a round that ended had a step, and a history is chosen after the rounds.
ProgressOk ==
  /\ \A i \in DOMAIN histories : histories[i].steps # <<>>
  /\ pc = "prepare" => histories = <<>> /\ evolution = Fresh
  /\ pc \in {"prepare", "agent", "generate"} => chosen = 0
  /\ pc = "generate" => histories # <<>>

\* The rounds that succeeded.
Won(hs) == {i \in DOMAIN hs : hs[i].verdict = "yes"}

\* The labels that occurred in these rounds in steps that failed, or that did not.
SeenIn(hs, failed) ==
  UNION {UNION {ToSet(LabelsOf(<<s>>)) : s \in {t \in ToSet(hs[i].steps) : HasError(t) = failed}} :
         i \in DOMAIN hs}

\* The pages of these rounds, and their errors.
UrlsIn(hs) == UNION {ToSet(UrlsOf(hs[i].steps)) : i \in DOMAIN hs}
ErrorsIn(hs) == UNION {ToSet(ErrorsOf(hs[i].steps)) : i \in DOMAIN hs}

\* A counter of these things: there are finitely many, and each has a number.
IsCounter(counter, L) == counter \in [L -> Nat] /\ IsFiniteSet(L)

\* What an evolution says of the rounds it was made of.
Summarizes(e, hs) ==
  /\ e.runs = Len(hs)
  /\ e.successes = Cardinality(Won(hs))
  /\ e.best = 0 <=> Won(hs) = {}
  /\ \A i \in Won(hs) : e.best <= Len(hs[i].steps)
  /\ Won(hs) # {} => \E i \in Won(hs) : /\ Len(hs[i].steps) = e.best
                                        /\ e.sequence = LabelsOf(hs[i].steps)
  /\ IsCounter(e.good, SeenIn(hs, FALSE))
  /\ IsCounter(e.bad, SeenIn(hs, TRUE))
  /\ IsCounter(e.urls, UrlsIn(hs))
  /\ IsCounter(e.messages, ErrorsIn(hs))

\* The inductive invariant. The evolution has to summarize the rounds, which says more than
\* the guidance does: also of the counters, whose most common labels alone the guidance shows.
IInv == TypeOk /\ ProgressOk /\ Summarizes(evolution, histories)
        /\ FailuresComeFirst /\ SelectorsMatchTheirElements
-----------------------------------------------------------------------------
\* The domain of a sequence, under a name for its length.
LEMMA LenIs == ASSUME NEW V, NEW s \in Seq(V) PROVE \E n \in Nat : n = Len(s) /\ DOMAIN s = 1..n
  <1>1. Len(s) \in Nat /\ DOMAIN s = 1..Len(s)
    OBVIOUS
  <1> QED
    BY <1>1, Zenon

\* What a step is made of.
LEMMA StepIs ==
  ASSUME NEW step \in Step
  PROVE  Did(step) \in Seq(Performed) /\ step.url \in STRING /\ step.errors \in Seq(STRING)
  <1>1. PICK turn \in Turns : Possible(turn) /\ step = StepOf(turn)
    BY Zenon DEF Step
  <1>2. turn \in Turn
    BY GenerationAssumption, Zenon
  <1>3. turn.url \in STRING /\ turn.errors \in Seq(STRING) /\ turn.plan \in Seq(Planned)
    BY <1>2, Zenon DEF Turn
  <1>4. step.url = turn.url /\ step.errors = turn.errors /\ step.actions = Acts(turn.plan)
    BY <1>1 DEF StepOf
  <1>5. PICK n \in Nat : n = Len(turn.plan) /\ DOMAIN turn.plan = 1..n
    BY <1>3, LenIs, Zenon
  <1>6. PICK did : did = Did(step)
    OBVIOUS
  <1>7. DOMAIN did = 1..n
    <2>1. DOMAIN step.actions = 1..n
      BY <1>4, <1>5, Zenon DEF Acts
    <2> QED
      BY <1>6, <2>1, Zenon DEF Did
  <1>8. did = [k \in 1..n |-> did[k]]
    <2>1. did = [k \in DOMAIN did |-> did[k]]
      BY <1>6, Zenon DEF Did
    <2> QED
      BY <1>7, <2>1, Zenon
  <1>9. \A k \in 1..n : did[k] \in Performed
    <2>1. \A k \in 1..n : did[k] \in ToSet(did)
      BY <1>7, Zenon DEF ToSet
    <2> QED
      BY <1>6, <2>1, Zenon DEF Performed
  <1>10. did \in Seq(Performed)
    BY <1>8, <1>9
  <1> QED
    BY <1>3, <1>4, <1>6, <1>10, Zenon

\* Of the actions of a step the relevant ones are actions the agent performed.
LEMMA RelevantType ==
  ASSUME NEW step \in Step
  PROVE  Relevant(step) \in Seq(Performed)
  <1>1. Did(step) \in Seq(Performed)
    BY StepIs
  <1> QED
    BY <1>1, OnlyIs, Zenon DEF Relevant

\* The relevant actions of a history are those of its steps.
LEMMA RelevantOfIs ==
  ASSUME NEW ss \in Seq(Step), NEW h, h.steps = ss
  PROVE  /\ RelevantOf(h) \in Seq(Performed)
         /\ ToSet(RelevantOf(h)) = UNION {ToSet(Relevant(ss[i])) : i \in DOMAIN ss}
  <1>1. PICK n \in Nat : n = Len(ss) /\ DOMAIN ss = 1..n
    BY LenIs, Zenon
  <1>2. PICK rs : rs = [i \in 1..n |-> Relevant(ss[i])]
    OBVIOUS
  <1>3. RelevantOf(h) = FlattenSeq(rs)
    BY <1>1, <1>2, Zenon DEF RelevantOf
  <1>4. rs \in Seq(Seq(Performed))
    <2>1. ASSUME NEW i \in 1..n PROVE rs[i] \in Seq(Performed)
      <3>1. ss[i] \in Step
        BY <1>1
      <3>2. rs[i] = Relevant(ss[i])
        BY <1>2, Zenon
      <3> QED
        BY <3>1, <3>2, RelevantType, Zenon
    <2> QED
      BY <1>2, <2>1
  <1>5. ToSet(FlattenSeq(rs)) = UNION {ToSet(rs[i]) : i \in 1..n}
    <2>1. DOMAIN rs = 1..n
      BY <1>2
    <2> QED
      BY <1>4, <2>1, FlattenRange
  <1>6. UNION {ToSet(rs[i]) : i \in 1..n} = UNION {ToSet(Relevant(ss[i])) : i \in 1..n}
    BY <1>2, Zenon
  <1> QED
    BY <1>1, <1>3, <1>4, <1>5, <1>6, FlattenType

\* The labels of some steps are those of their relevant actions.
LEMMA LabelsAre ==
  ASSUME NEW ss \in Seq(Step)
  PROVE  /\ LabelsOf(ss) \in Seq(Labels)
         /\ ToSet(LabelsOf(ss)) = UNION {{Label(a) : a \in ToSet(Relevant(ss[i]))} : i \in DOMAIN ss}
  <1>1. PICK h : h = [steps |-> ss]
    OBVIOUS
  <1>2. h.steps = ss
    BY <1>1
  <1>3. PICK rs \in Seq(Performed) : rs = RelevantOf(h)
    BY <1>2, RelevantOfIs
  <1>4. PICK n \in Nat : n = Len(rs) /\ DOMAIN rs = 1..n
    BY LenIs, Zenon
  <1>5. LabelsOf(ss) = [i \in 1..n |-> Label(rs[i])]
    BY <1>1, <1>3, <1>4, Zenon DEF LabelsOf
  <1>6. \A i \in 1..n : rs[i] \in Performed
    BY <1>4
  <1>7. LabelsOf(ss) \in Seq(Labels)
    <2>1. \A i \in 1..n : Label(rs[i]) \in Labels
      BY <1>6, Zenon DEF Labels
    <2> QED
      BY <1>5, <2>1
  <1>8. ToSet(LabelsOf(ss)) = {Label(a) : a \in ToSet(rs)}
    <2>1. ToSet(LabelsOf(ss)) = {Label(rs[i]) : i \in 1..n}
      BY <1>5 DEF ToSet
    <2>2. ToSet(rs) = {rs[i] : i \in 1..n}
      BY <1>4, Zenon DEF ToSet
    <2> QED
      BY <2>1, <2>2, Zenon
  <1>9. ToSet(rs) = UNION {ToSet(Relevant(ss[i])) : i \in DOMAIN ss}
    BY <1>2, <1>3, RelevantOfIs
  <1>10. {Label(a) : a \in ToSet(rs)} = UNION {{Label(a) : a \in ToSet(Relevant(ss[i]))} : i \in DOMAIN ss}
    <2>1. PICK R : R = [i \in DOMAIN ss |-> ToSet(Relevant(ss[i]))]
      OBVIOUS
    <2>2. ToSet(rs) = UNION {R[i] : i \in DOMAIN ss}
      BY <1>9, <2>1, Zenon
    <2>3. {Label(a) : a \in ToSet(rs)} = UNION {{Label(a) : a \in R[i]} : i \in DOMAIN ss}
      BY <2>2
    <2>4. \A i \in DOMAIN ss : R[i] = ToSet(Relevant(ss[i]))
      BY <2>1, Zenon
    <2> QED
      BY <2>3, <2>4, Zenon
  <1> QED
    BY <1>7, <1>8, <1>9, <1>10, Zenon

\* The labels of some steps are those of each step by itself.
LEMMA LabelsUnite ==
  ASSUME NEW ss \in Seq(Step)
  PROVE  ToSet(LabelsOf(ss)) = UNION {ToSet(LabelsOf(<<t>>)) : t \in ToSet(ss)}
  <1>1. ASSUME NEW t \in Step
        PROVE  ToSet(LabelsOf(<<t>>)) = {Label(a) : a \in ToSet(Relevant(t))}
    <2>1. PICK tt \in Seq(Step) : tt = <<t>> /\ DOMAIN tt = {1} /\ tt[1] = t
      <3>1. <<t>> \in Seq(Step) /\ DOMAIN <<t>> = {1} /\ <<t>>[1] = t
        BY <1>1
      <3> QED
        BY <3>1, Zenon
    <2>2. ToSet(LabelsOf(tt)) = UNION {{Label(a) : a \in ToSet(Relevant(tt[i]))} : i \in DOMAIN tt}
      BY LabelsAre
    <2> QED
      BY <2>1, <2>2
  <1>2. ToSet(ss) = {ss[i] : i \in DOMAIN ss} /\ \A i \in DOMAIN ss : ss[i] \in Step
    BY DEF ToSet
  <1>3. ToSet(LabelsOf(ss)) = UNION {{Label(a) : a \in ToSet(Relevant(ss[i]))} : i \in DOMAIN ss}
    BY LabelsAre
  <1>4. \A i \in DOMAIN ss : ToSet(LabelsOf(<<ss[i]>>)) = {Label(a) : a \in ToSet(Relevant(ss[i]))}
    BY <1>1, <1>2, Zenon
  <1>5. UNION {ToSet(LabelsOf(<<t>>)) : t \in ToSet(ss)} = UNION {ToSet(LabelsOf(<<ss[i]>>)) : i \in DOMAIN ss}
    BY <1>2, Zenon
  <1> QED
    BY <1>3, <1>4, <1>5, Zenon
-----------------------------------------------------------------------------
\* A sequence has finitely many members.
LEMMA RangeFinite ==
  ASSUME NEW V, NEW s \in Seq(V)
  PROVE  IsFiniteSet(ToSet(s))
  <1>1. PICK n \in Nat : n = Len(s) /\ DOMAIN s = 1..n
    BY LenIs, Zenon
  <1>2. PICK T : T = ToSet(s)
    OBVIOUS
  <1>3. T = {s[i] : i \in 1..n}
    BY <1>1, <1>2, Zenon DEF ToSet
  <1>4. s \in Surjection(1..n, T)
    <2>1. s \in [1..n -> T]
      BY <1>1, <1>3
    <2>2. \A t \in T : \E i \in 1..n : s[i] = t
      BY <1>3
    <2> QED
      BY <2>1, <2>2, Zenon DEF Surjection
  <1>5. IsFiniteSet(1..n)
    BY FS_Interval
  <1> QED
    BY <1>2, <1>4, <1>5, FS_Surjection, Zenon

\* After some more occurrences a counter counts these too.
LEMMA CountedIs ==
  ASSUME NEW L, NEW counter, IsCounter(counter, L), NEW V, NEW seen \in Seq(V)
  PROVE  IsCounter(Counted(counter, seen), L \cup ToSet(seen))
  <1>2. PICK n \in Nat : n = Len(seen) /\ DOMAIN seen = 1..n
    BY LenIs, Zenon
  <1>3. DOMAIN counter = L /\ (\A l \in L : counter[l] \in Nat) /\ IsFiniteSet(L)
    BY DEF IsCounter
  <1> DEFINE More(l) == Cardinality({i \in 1..n : seen[i] = l})
             Old(l) == IF l \in L THEN counter[l] ELSE 0
  <1>4. Counted(counter, seen) = [l \in L \cup ToSet(seen) |-> Old(l) + More(l)]
    BY <1>2, <1>3, Zenon DEF Counted
  <1>5. ASSUME NEW l PROVE Old(l) + More(l) \in Nat
    <2>1. More(l) \in Nat
      <3>1. IsFiniteSet(1..n)
        BY FS_Interval
      <3>2. IsFiniteSet({i \in 1..n : seen[i] = l})
        BY <3>1, FS_Subset
      <3> QED
        BY <3>2, FS_CardinalityType
    <2>2. Old(l) \in Nat
      BY <1>3
    <2> HIDE DEF More, Old
    <2> QED
      BY <2>1, <2>2
  <1>6. IsFiniteSet(L \cup ToSet(seen))
    BY <1>3, RangeFinite, FS_Union
  <1>7. Counted(counter, seen) \in [L \cup ToSet(seen) -> Nat]
    <2> HIDE DEF More, Old
    <2> QED
      BY <1>4, <1>5
  <1> QED
    BY <1>6, <1>7, Zenon DEF IsCounter

\* The steps of a round that failed, or that did not.
LEMMA StepsOfIs ==
  ASSUME NEW h \in History, NEW failed \in BOOLEAN
  PROVE  /\ StepsOf(h, failed) \in Seq(Step)
         /\ ToSet(StepsOf(h, failed)) = {t \in ToSet(h.steps) : HasError(t) = failed}
  <1>1. h.steps \in Seq(Step)
    BY DEF History
  <1>2. PICK S : S = {t \in ToSet(h.steps) : HasError(t) = failed}
    OBVIOUS
  <1>3. StepsOf(h, failed) = Only(h.steps, S)
    BY <1>2, Zenon DEF StepsOf
  <1>4. S \subseteq ToSet(h.steps)
    BY <1>2
  <1>5. Only(h.steps, S) \in Seq(Step) /\ ToSet(Only(h.steps, S)) = ToSet(h.steps) \cap S
    BY <1>1, OnlyIs, Zenon
  <1>6. ToSet(h.steps) \cap S = S
    BY <1>4
  <1> QED
    BY <1>2, <1>3, <1>5, <1>6, Zenon

\* What belongs to some histories, and to one more.
Over(f, hs) == UNION {f[hs[i]] : i \in DOMAIN hs}

LEMMA UnionGrows ==
  ASSUME NEW hs \in Seq(History), NEW h \in History, NEW f
  PROVE  Over(f, Append(hs, h)) = Over(f, hs) \cup f[h]
  <1>0. PICK gs : gs = Append(hs, h)
    OBVIOUS
  <1>1. PICK n \in Nat : n = Len(hs) /\ DOMAIN hs = 1..n
    BY LenIs, Zenon
  <1>2. DOMAIN gs = 1..n + 1 /\ gs[n + 1] = h /\ \A i \in 1..n : gs[i] = hs[i]
    BY <1>0, <1>1
  <1>3. PICK F : F = [i \in 1..n + 1 |-> f[gs[i]]]
    OBVIOUS
  <1>4. PICK G : G = [i \in 1..n |-> f[hs[i]]]
    OBVIOUS
  <1>5. PICK H : H = f[h]
    OBVIOUS
  <1>6. F[n + 1] = H /\ \A i \in 1..n : F[i] = G[i]
    <2>1. n + 1 \in 1..n + 1 /\ \A i \in 1..n : i \in 1..n + 1
      OBVIOUS
    <2> QED
      BY <1>2, <1>3, <1>4, <1>5, <2>1, Zenon
  <1>7. Over(f, gs) = UNION {F[i] : i \in 1..n + 1}
    BY <1>2, <1>3, Zenon DEF Over
  <1>8. Over(f, hs) = UNION {G[i] : i \in 1..n}
    BY <1>1, <1>4, Zenon DEF Over
  <1>9. Over(f, gs) = Over(f, hs) \cup H
    BY <1>6, <1>7, <1>8
  <1> QED
    BY <1>0, <1>5, <1>9, Zenon

\* What has occurred after one more round: what had before, and what did in that round.
LEMMA SeenGrows ==
  ASSUME NEW hs \in Seq(History), NEW h \in History, NEW failed \in BOOLEAN
  PROVE  SeenIn(Append(hs, h), failed) = SeenIn(hs, failed) \cup ToSet(LabelsOf(StepsOf(h, failed)))
  <1> DEFINE Of(g) == UNION {ToSet(LabelsOf(<<s>>)) : s \in {t \in ToSet(g.steps) : HasError(t) = failed}}
  <1>1. PICK f : f = [g \in History |-> Of(g)]
    OBVIOUS
  <1>2. PICK gs \in Seq(History) : gs = Append(hs, h)
    <2>1. Append(hs, h) \in Seq(History)
      OBVIOUS
    <2> QED
      BY <2>1, Zenon
  <1>3. (\A i \in DOMAIN hs : hs[i] \in History) /\ \A i \in DOMAIN gs : gs[i] \in History
    OBVIOUS
  <1>4. SeenIn(gs, failed) = Over(f, gs)
    BY <1>1, <1>3, Zenon DEF SeenIn, Over
  <1>5. SeenIn(hs, failed) = Over(f, hs)
    BY <1>1, <1>3, Zenon DEF SeenIn, Over
  <1>6. f[h] = ToSet(LabelsOf(StepsOf(h, failed)))
    <2>1. Of(h) = ToSet(LabelsOf(StepsOf(h, failed)))
      BY StepsOfIs, LabelsUnite, Zenon
    <2> HIDE DEF Of
    <2> QED
      BY <1>1, <2>1
  <1>7. Over(f, gs) = Over(f, hs) \cup f[h]
    BY <1>2, UnionGrows, Zenon
  <1> QED
    BY <1>2, <1>4, <1>5, <1>6, <1>7, Zenon

\* The pages and the errors after one more round.
LEMMA MetGrow ==
  ASSUME NEW hs \in Seq(History), NEW h \in History
  PROVE  /\ UrlsIn(Append(hs, h)) = UrlsIn(hs) \cup ToSet(UrlsOf(h.steps))
         /\ ErrorsIn(Append(hs, h)) = ErrorsIn(hs) \cup ToSet(ErrorsOf(h.steps))
  <1>1. PICK gs \in Seq(History) : gs = Append(hs, h)
    <2>1. Append(hs, h) \in Seq(History)
      OBVIOUS
    <2> QED
      BY <2>1, Zenon
  <1>2. (\A i \in DOMAIN hs : hs[i] \in History) /\ \A i \in DOMAIN gs : gs[i] \in History
    OBVIOUS
  <1>3. UrlsIn(gs) = UrlsIn(hs) \cup ToSet(UrlsOf(h.steps))
    <2>1. PICK f : f = [g \in History |-> ToSet(UrlsOf(g.steps))]
      OBVIOUS
    <2>2. Over(f, gs) = Over(f, hs) \cup f[h]
      BY <1>1, UnionGrows, Zenon
    <2>3. UrlsIn(gs) = Over(f, gs) /\ UrlsIn(hs) = Over(f, hs)
      BY <1>2, <2>1, Zenon DEF UrlsIn, Over
    <2>4. f[h] = ToSet(UrlsOf(h.steps))
      BY <2>1, Zenon
    <2> QED
      BY <2>2, <2>3, <2>4, Zenon
  <1>4. ErrorsIn(gs) = ErrorsIn(hs) \cup ToSet(ErrorsOf(h.steps))
    <2>1. PICK f : f = [g \in History |-> ToSet(ErrorsOf(g.steps))]
      OBVIOUS
    <2>2. Over(f, gs) = Over(f, hs) \cup f[h]
      BY <1>1, UnionGrows, Zenon
    <2>3. ErrorsIn(gs) = Over(f, gs) /\ ErrorsIn(hs) = Over(f, hs)
      BY <1>2, <2>1, Zenon DEF ErrorsIn, Over
    <2>4. f[h] = ToSet(ErrorsOf(h.steps))
      BY <2>1, Zenon
    <2> QED
      BY <2>2, <2>3, <2>4, Zenon
  <1> QED
    BY <1>1, <1>3, <1>4, Zenon

\* The pages and the errors of some steps are those of one of them.
LEMMA MetAre ==
  ASSUME NEW ss \in Seq(Step)
  PROVE  /\ UrlsOf(ss) \in Seq(STRING) /\ ErrorsOf(ss) \in Seq(STRING)
         /\ \A url \in ToSet(UrlsOf(ss)) : url \notin IgnoredUrls /\ \E s \in ToSet(ss) : s.url = url
         /\ \A error \in ToSet(ErrorsOf(ss)) : \E s \in ToSet(ss) : error \in ToSet(s.errors)
  <1>1. PICK n \in Nat : n = Len(ss) /\ DOMAIN ss = 1..n
    BY LenIs, Zenon
  <1>2. \A i \in 1..n : ss[i] \in Step
    BY <1>1
  <1>3. \A i \in 1..n : ss[i].url \in STRING /\ ss[i].errors \in Seq(STRING)
    BY <1>2, StepIs, Zenon
  <1>4. \A i \in 1..n : ss[i] \in ToSet(ss)
    BY <1>1, Zenon DEF ToSet
  <1>5. PICK urls : urls = [i \in 1..n |-> ss[i].url]
    OBVIOUS
  <1>6. urls \in Seq(STRING)
    BY <1>3, <1>5
  <1>7. PICK S : S = ToSet(urls) \ (IgnoredUrls \cup {""})
    OBVIOUS
  <1>8. UrlsOf(ss) = Only(urls, S)
    BY <1>1, <1>5, <1>7, Zenon DEF UrlsOf
  <1>9. Only(urls, S) \in Seq(STRING) /\ ToSet(Only(urls, S)) = ToSet(urls) \cap S
    BY <1>6, OnlyIs, Zenon
  <1>10. ASSUME NEW url \in ToSet(UrlsOf(ss))
         PROVE  url \notin IgnoredUrls /\ \E s \in ToSet(ss) : s.url = url
    <2>1. url \in ToSet(urls) /\ url \in S
      BY <1>8, <1>9, Zenon
    <2>2. url \notin IgnoredUrls
      BY <1>7, <2>1, Zenon
    <2>3. PICK i \in 1..n : urls[i] = url
      BY <1>5, <2>1, Zenon DEF ToSet
    <2> QED
      BY <1>4, <1>5, <2>2, <2>3, Zenon
  <1>11. PICK es : es = [i \in 1..n |-> ss[i].errors]
    OBVIOUS
  <1>12. ErrorsOf(ss) = FlattenSeq(es)
    BY <1>1, <1>11, Zenon DEF ErrorsOf
  <1>13. es \in Seq(Seq(STRING)) /\ DOMAIN es = 1..n
    BY <1>3, <1>11
  <1>14. FlattenSeq(es) \in Seq(STRING) /\ ToSet(FlattenSeq(es)) = UNION {ToSet(es[i]) : i \in 1..n}
    BY <1>13, FlattenType, FlattenRange
  <1>15. ASSUME NEW error \in ToSet(ErrorsOf(ss))
         PROVE  \E s \in ToSet(ss) : error \in ToSet(s.errors)
    <2>1. PICK i \in 1..n : error \in ToSet(es[i])
      BY <1>12, <1>14, Zenon
    <2> QED
      BY <1>4, <1>11, <2>1, Zenon
  <1> QED
    BY <1>8, <1>9, <1>10, <1>12, <1>14, <1>15, Zenon
-----------------------------------------------------------------------------
\* A round that has ended had a step, so zero is free to stand for no best length.
LEMMA StepsCount ==
  ASSUME NEW h \in History, h.steps # <<>>
  PROVE  Len(h.steps) \in Nat \ {0}
  <1>1. h.steps \in Seq(Step)
    BY DEF History
  <1> QED
    BY <1>1

\* The rounds that succeeded, after one more round.
LEMMA WonGrows ==
  ASSUME NEW hs \in Seq(History), NEW h \in History
  PROVE  /\ IsFiniteSet(Won(hs)) /\ Cardinality(Won(hs)) \in Nat
         /\ Len(hs) + 1 \notin Won(hs)
         /\ Won(Append(hs, h)) = IF h.verdict = "yes" THEN Won(hs) \cup {Len(hs) + 1} ELSE Won(hs)
  <1>1. PICK n \in Nat : n = Len(hs) /\ DOMAIN hs = 1..n
    BY LenIs, Zenon
  <1>2. PICK gs : gs = Append(hs, h)
    OBVIOUS
  <1>3. DOMAIN gs = 1..n + 1 /\ gs[n + 1] = h /\ \A i \in 1..n : gs[i] = hs[i]
    BY <1>1, <1>2
  <1>4. Won(hs) \subseteq 1..n
    BY <1>1 DEF Won
  <1>5. IsFiniteSet(Won(hs)) /\ Cardinality(Won(hs)) \in Nat
    <2>1. IsFiniteSet(1..n)
      BY FS_Interval
    <2> QED
      BY <1>4, <2>1, FS_Subset, FS_CardinalityType
  <1>6. Won(gs) = IF h.verdict = "yes" THEN Won(hs) \cup {n + 1} ELSE Won(hs)
    BY <1>1, <1>3 DEF Won
  <1> QED
    BY <1>1, <1>2, <1>4, <1>5, <1>6

\* update_evolution, when the evolution summarizes the rounds before: it then summarizes
\* this round as well, the best length and its sequence of actions included.
LEMMA UpdateIs ==
  ASSUME NEW e, NEW hs \in Seq(History), NEW h \in History, h.steps # <<>>,
         \A i \in DOMAIN hs : hs[i].steps # <<>>, Summarizes(e, hs)
  PROVE  Summarizes(update_evolution(e, h), Append(hs, h))
  <1>1. PICK n \in Nat : n = Len(hs) /\ DOMAIN hs = 1..n
    BY LenIs, Zenon
  <1>2. PICK gs : gs = Append(hs, h)
    OBVIOUS
  <1>3. DOMAIN gs = 1..n + 1 /\ Len(gs) = n + 1 /\ gs[n + 1] = h /\ \A i \in 1..n : gs[i] = hs[i]
    BY <1>1, <1>2
  <1>4. PICK u : u = update_evolution(e, h)
    OBVIOUS
  <1> DEFINE better == h.verdict = "yes" /\ (e.best = 0 \/ Len(h.steps) < e.best)
  <1>5. /\ u.runs = e.runs + 1
        /\ u.successes = IF h.verdict = "yes" THEN e.successes + 1 ELSE e.successes
        /\ u.best = IF better THEN Len(h.steps) ELSE e.best
        /\ u.sequence = IF better THEN LabelsOf(h.steps) ELSE e.sequence
        /\ u.good = Counted(e.good, LabelsOf(StepsOf(h, FALSE)))
        /\ u.bad = Counted(e.bad, LabelsOf(StepsOf(h, TRUE)))
        /\ u.urls = Counted(e.urls, UrlsOf(h.steps))
        /\ u.messages = Counted(e.messages, ErrorsOf(h.steps))
    BY <1>4 DEF update_evolution
  <1>6. PICK W \in SUBSET (1..n) : W = Won(hs) /\ IsFiniteSet(W) /\ Cardinality(W) \in Nat /\ n + 1 \notin W
    BY <1>1, WonGrows DEF Won
  <1>7. Won(gs) = IF h.verdict = "yes" THEN W \cup {n + 1} ELSE W
    BY <1>1, <1>2, <1>6, WonGrows
  <1>8. u.runs = Len(gs)
    BY <1>1, <1>3, <1>5 DEF Summarizes
  <1>9. u.successes = Cardinality(Won(gs))
    <2>1. Cardinality(W \cup {n + 1}) = Cardinality(W) + 1
      BY <1>6, FS_AddElement
    <2>2. e.successes = Cardinality(W)
      BY <1>6, Zenon DEF Summarizes
    <2> QED
      BY <1>5, <1>7, <2>1, <2>2
  <1>10. \A i \in 1..n + 1 : gs[i].steps # <<>> /\ Len(gs[i].steps) \in Nat \ {0}
    <2>1. \A i \in 1..n + 1 : gs[i] \in History /\ gs[i].steps # <<>>
      BY <1>1, <1>3
    <2> QED
      BY <2>1, StepsCount
  <1>11. /\ e.best = 0 <=> W = {}
         /\ \A i \in W : e.best <= Len(gs[i].steps)
         /\ W # {} => \E i \in W : Len(gs[i].steps) = e.best /\ e.sequence = LabelsOf(gs[i].steps)
    BY <1>3, <1>6 DEF Summarizes
  <1>12. e.best \in Nat
    BY <1>10, <1>11
  <1>13. /\ u.best = 0 <=> Won(gs) = {}
         /\ \A i \in Won(gs) : u.best <= Len(gs[i].steps)
         /\ Won(gs) # {} => \E i \in Won(gs) : /\ Len(gs[i].steps) = u.best
                                               /\ u.sequence = LabelsOf(gs[i].steps)
    <2>1. Len(h.steps) \in Nat \ {0} /\ h = gs[n + 1] /\ n + 1 \in 1..n + 1
      BY <1>3, <1>10
    <2>2. CASE h.verdict # "yes"
      BY <1>5, <1>7, <1>11, <2>2
    <2>3. CASE better
      <3>1. u.best = Len(h.steps) /\ u.sequence = LabelsOf(h.steps) /\ Won(gs) = W \cup {n + 1}
        BY <1>5, <1>7, <2>3
      <3>2. \A i \in W : u.best <= Len(gs[i].steps)
        <4>1. CASE e.best = 0
          BY <1>11, <4>1, Zenon
        <4>2. CASE e.best # 0
          <5>1. u.best < e.best
            BY <1>12, <2>3, <3>1, <4>2
          <5> QED
            BY <1>10, <1>11, <1>12, <2>1, <3>1, <5>1
        <4> QED
          BY <4>1, <4>2
      <3>3. u.best <= Len(gs[n + 1].steps)
        BY <2>1, <3>1
      <3>4. /\ n + 1 \in Won(gs) /\ Len(gs[n + 1].steps) = u.best
            /\ u.sequence = LabelsOf(gs[n + 1].steps)
        BY <2>1, <3>1
      <3>5. u.best # 0 /\ \A i \in Won(gs) : u.best <= Len(gs[i].steps)
        BY <2>1, <3>1, <3>2, <3>3
      <3> QED
        BY <3>4, <3>5, Zenon
    <2>4. CASE h.verdict = "yes" /\ ~better
      <3>1. u.best = e.best /\ u.sequence = e.sequence /\ Won(gs) = W \cup {n + 1}
        BY <1>5, <1>7, <2>4
      <3>2. e.best # 0 /\ e.best <= Len(h.steps)
        BY <1>12, <2>1, <2>4
      <3> QED
        BY <1>11, <2>1, <3>1, <3>2
    <2> QED
      BY <2>2, <2>3, <2>4
  <1>14. IsCounter(u.good, SeenIn(gs, FALSE))
    <2>1. IsCounter(e.good, SeenIn(hs, FALSE)) /\ LabelsOf(StepsOf(h, FALSE)) \in Seq(Labels)
      BY StepsOfIs, LabelsAre, Zenon DEF Summarizes
    <2>2. SeenIn(gs, FALSE) = SeenIn(hs, FALSE) \cup ToSet(LabelsOf(StepsOf(h, FALSE)))
      BY <1>2, SeenGrows, Zenon
    <2>3. IsCounter(Counted(e.good, LabelsOf(StepsOf(h, FALSE))),
                    SeenIn(hs, FALSE) \cup ToSet(LabelsOf(StepsOf(h, FALSE))))
      BY <2>1, CountedIs, Zenon
    <2> QED
      BY <1>5, <2>2, <2>3, Zenon
  <1>15. IsCounter(u.bad, SeenIn(gs, TRUE))
    <2>1. IsCounter(e.bad, SeenIn(hs, TRUE)) /\ LabelsOf(StepsOf(h, TRUE)) \in Seq(Labels)
      BY StepsOfIs, LabelsAre, Zenon DEF Summarizes
    <2>2. SeenIn(gs, TRUE) = SeenIn(hs, TRUE) \cup ToSet(LabelsOf(StepsOf(h, TRUE)))
      BY <1>2, SeenGrows, Zenon
    <2>3. IsCounter(Counted(e.bad, LabelsOf(StepsOf(h, TRUE))),
                    SeenIn(hs, TRUE) \cup ToSet(LabelsOf(StepsOf(h, TRUE))))
      BY <2>1, CountedIs, Zenon
    <2> QED
      BY <1>5, <2>2, <2>3, Zenon
  <1>16. IsCounter(u.urls, UrlsIn(gs)) /\ IsCounter(u.messages, ErrorsIn(gs))
    <2>1. IsCounter(e.urls, UrlsIn(hs)) /\ IsCounter(e.messages, ErrorsIn(hs))
      BY Zenon DEF Summarizes
    <2>2. h.steps \in Seq(Step)
      BY Zenon DEF History
    <2>3. UrlsOf(h.steps) \in Seq(STRING) /\ ErrorsOf(h.steps) \in Seq(STRING)
      BY <2>2, MetAre, Zenon
    <2>4. /\ UrlsIn(gs) = UrlsIn(hs) \cup ToSet(UrlsOf(h.steps))
          /\ ErrorsIn(gs) = ErrorsIn(hs) \cup ToSet(ErrorsOf(h.steps))
      BY <1>2, MetGrow, Zenon
    <2>5. IsCounter(Counted(e.urls, UrlsOf(h.steps)), UrlsIn(hs) \cup ToSet(UrlsOf(h.steps)))
      BY <2>1, <2>3, CountedIs, Zenon
    <2>6. IsCounter(Counted(e.messages, ErrorsOf(h.steps)), ErrorsIn(hs) \cup ToSet(ErrorsOf(h.steps)))
      BY <2>1, <2>3, CountedIs, Zenon
    <2> QED
      BY <1>5, <2>4, <2>5, <2>6, Zenon
  <1> QED
    BY <1>2, <1>4, <1>8, <1>9, <1>13, <1>14, <1>15, <1>16 DEF Summarizes
-----------------------------------------------------------------------------
\* Of finitely many labels one is counted most often.
LEMMA GreatestExists ==
  ASSUME NEW L, NEW f \in [L -> Nat], NEW T \in SUBSET L, IsFiniteSet(T), T # {}
  PROVE  \E t \in T : \A m \in T : f[m] <= f[t]
  <1> DEFINE Holds(U) == U # {} => \E t \in U : \A m \in U : f[m] <= f[t]
             N == {n \in Nat : \A U \in SUBSET L : IsFiniteSet(U) /\ Cardinality(U) = n => Holds(U)}
  <1>1. 0 \in N
    BY FS_EmptySet
  <1>2. ASSUME NEW n \in Nat, n \in N
        PROVE  n + 1 \in N
    <2> SUFFICES ASSUME NEW U \in SUBSET L, IsFiniteSet(U), Cardinality(U) = n + 1
                 PROVE  Holds(U)
      OBVIOUS
    <2>1. PICK x \in U : TRUE
      BY FS_EmptySet
    <2>2. IsFiniteSet(U \ {x}) /\ Cardinality(U \ {x}) = n /\ U \ {x} \in SUBSET L
      <3>1. IsFiniteSet(U \ {x}) /\ Cardinality(U \ {x}) = Cardinality(U) - 1
        BY <2>1, FS_RemoveElement
      <3> QED
        BY <3>1
    <2>3. Holds(U \ {x})
      BY <1>2, <2>2
    <2>4. CASE U \ {x} = {}
      BY <2>1, <2>4
    <2>5. CASE U \ {x} # {}
      <3>1. PICK t \in U \ {x} : \A m \in U \ {x} : f[m] <= f[t]
        BY <2>3, <2>5
      <3>2. CASE f[x] <= f[t]
        BY <3>1, <3>2
      <3>3. CASE ~(f[x] <= f[t])
        <4>1. \A m \in U : f[m] <= f[x]
          BY <2>1, <3>1, <3>3
        <4> QED
          BY <2>1, <4>1
      <3> QED
        BY <3>2, <3>3
    <2> QED
      BY <2>4, <2>5
  <1>3. Nat \subseteq N
    <2> HIDE DEF N
    <2> QED
      BY <1>1, <1>2, SetInduction
  <1>4. Cardinality(T) \in Nat
    BY FS_CardinalityType
  <1> QED
    BY <1>3, <1>4

\* Whatever the counter, it has as many most common labels as there is room for.
LEMMA MostCommonIs ==
  ASSUME NEW L, NEW counter, IsCounter(counter, L), NEW limit \in Nat
  PROVE  MostCommon(counter, limit) \in SUBSET L
  <1>1. counter \in [L -> Nat] /\ DOMAIN counter = L /\ IsFiniteSet(L) /\ Cardinality(L) \in Nat
    BY FS_CardinalityType DEF IsCounter
  <1> DEFINE Top(S, k) == Cardinality(S) = k /\ \A l \in S, m \in L \ S : counter[m] <= counter[l]
             N == {k \in Nat : k <= Cardinality(L) => \E S \in SUBSET L : Top(S, k)}
  <1>2. 0 \in N
    <2>1. Top({}, 0)
      BY FS_EmptySet
    <2> QED
      BY <2>1
  <1>3. ASSUME NEW k \in Nat, k \in N
        PROVE  k + 1 \in N
    <2> SUFFICES ASSUME k + 1 <= Cardinality(L) PROVE \E S \in SUBSET L : Top(S, k + 1)
      OBVIOUS
    <2>1. PICK S \in SUBSET L : Top(S, k)
      BY <1>1, <1>3
    <2>2. IsFiniteSet(S) /\ S # L
      BY <1>1, <2>1, FS_Subset
    <2>3. IsFiniteSet(L \ S) /\ L \ S # {} /\ L \ S \in SUBSET L
      BY <1>1, <2>2, FS_Subset
    <2>4. PICK t \in L \ S : \A m \in L \ S : counter[m] <= counter[t]
      BY <1>1, <2>3, GreatestExists
    <2>5. Cardinality(S \cup {t}) = k + 1
      BY <2>1, <2>2, FS_AddElement
    <2>6. \A l \in S \cup {t}, m \in L \ (S \cup {t}) : counter[m] <= counter[l]
      BY <2>1, <2>4
    <2> QED
      BY <2>5, <2>6
  <1>4. Nat \subseteq N
    <2> HIDE DEF N
    <2> QED
      BY <1>2, <1>3, SetInduction
  <1> DEFINE size == IF Cardinality(L) < limit THEN Cardinality(L) ELSE limit
  <1>5. size \in Nat /\ size <= Cardinality(L)
    BY <1>1
  <1>6. \E S \in SUBSET L : Top(S, size)
    <2> HIDE DEF size
    <2> QED
      BY <1>4, <1>5
  <1>7. MostCommon(counter, limit) = CHOOSE S \in SUBSET L : Top(S, size)
    BY <1>1, Zenon DEF MostCommon
  <1> QED
    <2> HIDE DEF size, Top
    <2> QED
      BY <1>6, <1>7, Zenon
-----------------------------------------------------------------------------
\* The first of the sorted numbers is that of a shortest history among them.
LEMMA SortedFirst ==
  ASSUME NEW hs \in Seq(History), NEW S \in SUBSET DOMAIN hs
  PROVE  /\ \E n \in Nat : \E V : Sorted(hs, S) \in [1..n -> V] /\ (n = 0 <=> S = {})
         /\ S # {} => /\ Sorted(hs, S)[1] \in S
                      /\ \A j \in S : Len(RelevantOf(hs[Sorted(hs, S)[1]])) <= Len(RelevantOf(hs[j]))
  <1>1. PICK n \in Nat : n = Len(hs) /\ DOMAIN hs = 1..n
    BY LenIs, Zenon
  <1> DEFINE size == [i \in DOMAIN hs |-> Len(RelevantOf(hs[i]))]
  <1>3. \A i \in 1..n : size[i] \in Nat /\ size[i] = Len(RelevantOf(hs[i]))
    <2>1. ASSUME NEW i \in 1..n PROVE size[i] \in Nat /\ size[i] = Len(RelevantOf(hs[i]))
      <3>1. hs[i] \in History
        BY <1>1
      <3>2. hs[i].steps \in Seq(Step)
        BY <3>1 DEF History
      <3>3. RelevantOf(hs[i]) \in Seq(Performed)
        BY <3>2, RelevantOfIs
      <3>4. Len(RelevantOf(hs[i])) \in Nat
        BY <3>3
      <3>5. size[i] = Len(RelevantOf(hs[i]))
        BY <1>1, Zenon
      <3> QED
        BY <3>4, <3>5, Zenon
    <2> QED
      BY <2>1
  <1> DEFINE Before(i, j) == size[i] < size[j] \/ (size[i] = size[j] /\ i < j)
             At(p) == CHOOSE i \in S : Cardinality({j \in S : Before(j, i)}) = p - 1
  <1>4. Sorted(hs, S) = [p \in 1..Cardinality(S) |-> At(p)]
    BY Zenon DEF Sorted
  <1> HIDE DEF size
  <1>5. IsFiniteSet(S) /\ Cardinality(S) \in Nat /\ (Cardinality(S) = 0 <=> S = {})
    <2>1. IsFiniteSet(1..n)
      BY FS_Interval
    <2>2. IsFiniteSet(S)
      BY <1>1, <2>1, FS_Subset
    <2> QED
      BY <2>2, FS_CardinalityType, FS_EmptySet
  <1>6. \E V : Sorted(hs, S) \in [1..Cardinality(S) -> V]
    <2>1. PICK V : V = {At(p) : p \in 1..Cardinality(S)}
      OBVIOUS
    <2>2. \A p \in 1..Cardinality(S) : At(p) \in V
      <3> HIDE DEF At
      <3> QED
        BY <2>1
    <2>3. Sorted(hs, S) \in [1..Cardinality(S) -> V]
      <3> HIDE DEF At
      <3> QED
        BY <1>4, <2>2
    <2> QED
      BY <2>3, Zenon
  <1>7. ASSUME S # {}
        PROVE  /\ Sorted(hs, S)[1] \in S
               /\ \A j \in S : Len(RelevantOf(hs[Sorted(hs, S)[1]])) <= Len(RelevantOf(hs[j]))
    <2>1. PICK m \in {size[i] : i \in S} : \A k \in {size[i] : i \in S} : m <= k
      <3>1. {size[i] : i \in S} \in SUBSET Nat /\ {size[i] : i \in S} # {}
        BY <1>1, <1>3, <1>7
      <3> QED
        BY <3>1, LeastNatural
    <2>2. PICK f \in {i \in S : size[i] = m} : \A k \in {i \in S : size[i] = m} : f <= k
      <3>1. {i \in S : size[i] = m} \in SUBSET Nat /\ {i \in S : size[i] = m} # {}
        BY <1>1, <2>1
      <3> QED
        BY <3>1, LeastNatural
    <2>3. \A j \in S : ~Before(j, f)
      <3> SUFFICES ASSUME NEW j \in S PROVE ~Before(j, f)
        OBVIOUS
      <3>1. size[j] \in Nat /\ m <= size[j] /\ size[f] = m /\ m \in Nat /\ j \in Nat /\ f \in Nat
        BY <1>1, <1>3, <2>1, <2>2
      <3>2. size[j] = m => f <= j
        BY <2>2
      <3> QED
        BY <3>1, <3>2
    <2>4. Cardinality({j \in S : Before(j, f)}) = 1 - 1
      <3>1. {j \in S : Before(j, f)} = {}
        BY <2>3
      <3>2. Cardinality({}) = 0 /\ 1 - 1 = 0
        BY FS_EmptySet
      <3> QED
        BY <3>1, <3>2, Zenon
    <2>5. PICK g : g = At(1)
      OBVIOUS
    <2>6. g \in S /\ Cardinality({j \in S : Before(j, g)}) = 1 - 1
      <3> HIDE DEF Before
      <3> QED
        BY <2>2, <2>4, <2>5, Zenon
    <2>7. {j \in S : Before(j, g)} = {}
      <3>1. PICK B : B = {j \in S : Before(j, g)}
        OBVIOUS
      <3>2. B \in SUBSET S /\ Cardinality(B) = 0
        BY <2>6, <3>1
      <3>3. IsFiniteSet(B)
        BY <1>5, <3>2, FS_Subset
      <3>4. B = {}
        BY <3>2, <3>3, FS_EmptySet
      <3> QED
        BY <3>1, <3>4
    <2>8. \A j \in S : size[g] <= size[j]
      <3>1. \A j \in S : ~Before(j, g)
        BY <2>7
      <3> QED
        BY <1>1, <1>3, <2>6, <3>1
    <2>9. Sorted(hs, S)[1] = g
      <3>1. 1 \in 1..Cardinality(S)
        BY <1>5, <1>7
      <3> HIDE DEF At
      <3> QED
        BY <1>4, <2>5, <3>1, Zenon
    <2> QED
      BY <1>1, <1>3, <2>6, <2>8, <2>9
  <1> QED
    BY <1>5, <1>6, <1>7

\* The first of the pruned histories: a failed one if there is one, and the shortest of its kind.
LEMMA PruneFirst ==
  ASSUME NEW hs \in Seq(History), hs # <<>>
  PROVE  LET first == prune_agenthistorylist(hs, 1)[1] IN
         /\ first \in DOMAIN hs
         /\ (\E i \in DOMAIN hs : Failed(hs[i])) => Failed(hs[first])
         /\ \A i \in DOMAIN hs : (Failed(hs[i]) <=> Failed(hs[first])) =>
              Len(RelevantOf(hs[first])) <= Len(RelevantOf(hs[i]))
  <1>1. PICK F : F = {i \in DOMAIN hs : Failed(hs[i])}
    OBVIOUS
  <1>2. PICK a : a = Sorted(hs, F)
    OBVIOUS
  <1>3. PICK b : b = Sorted(hs, DOMAIN hs \ F)
    OBVIOUS
  <1>4. prune_agenthistorylist(hs, 1) = a \o Upto(1, b)
    BY <1>1, <1>2, <1>3, Zenon DEF prune_agenthistorylist
  <1>5. F \in SUBSET DOMAIN hs /\ DOMAIN hs \ F \in SUBSET DOMAIN hs /\ DOMAIN hs # {}
    BY <1>1
  <1>6. PICK n, A : n \in Nat /\ a \in [1..n -> A] /\ (n = 0 <=> F = {})
    BY <1>2, <1>5, SortedFirst, Zenon
  <1>7. PICK m, B : m \in Nat /\ b \in [1..m -> B] /\ (m = 0 <=> DOMAIN hs \ F = {})
    BY <1>3, <1>5, SortedFirst, Zenon
  <1>8. a \in Seq(A \cup B) /\ b \in Seq(A \cup B) /\ Len(a) = n /\ Len(b) = m
    BY <1>6, <1>7
  <1>9. (a \o Upto(1, b))[1] = IF F # {} THEN a[1] ELSE b[1]
    <2>1. CASE F # {}
      BY <1>6, <1>7, <1>8, <2>1 DEF Upto
    <2>2. CASE F = {}
      BY <1>5, <1>6, <1>7, <1>8, <2>2 DEF Upto
    <2> QED
      BY <2>1, <2>2
  <1>10. F # {} => a[1] \in F /\ \A j \in F : Len(RelevantOf(hs[a[1]])) <= Len(RelevantOf(hs[j]))
    BY <1>2, <1>5, SortedFirst, Zenon
  <1>11. F = {} => /\ b[1] \in DOMAIN hs
                   /\ \A j \in DOMAIN hs : Len(RelevantOf(hs[b[1]])) <= Len(RelevantOf(hs[j]))
    <2> SUFFICES ASSUME F = {}
                 PROVE  /\ b[1] \in DOMAIN hs
                        /\ \A j \in DOMAIN hs : Len(RelevantOf(hs[b[1]])) <= Len(RelevantOf(hs[j]))
      OBVIOUS
    <2>1. DOMAIN hs \ F = DOMAIN hs
      OBVIOUS
    <2> QED
      BY <1>3, <1>5, <2>1, SortedFirst, Zenon
  <1> QED
    BY <1>1, <1>4, <1>9, <1>10, <1>11, Zenon
-----------------------------------------------------------------------------
\* Sequences of one length with the same elements.
Agree(s, t, n) == \A k \in 1..n : s[k] = t[k]

\* Sequences of one length that agree are one sequence.
LEMMA SameSequence ==
  ASSUME NEW V, NEW s \in Seq(V), NEW t \in Seq(V), NEW n \in Nat, Len(s) = n, Len(t) = n, Agree(s, t, n)
  PROVE  s = t
  <1>1. \A k \in 1..Len(s) : s[k] = t[k]
    BY DEF Agree
  <1> QED
    BY <1>1
-----------------------------------------------------------------------------
\* What is written for each place are fragments of V, and reading goes on further to the right.
IsScan(V, n, out, next) ==
  /\ out \in [1..n -> Seq(V)] /\ next \in [1..n -> Nat]
  /\ \A i \in 1..n : i < next[i] /\ next[i] <= n + 1

\* One text after another.
Then(a, b) == a \o b

\* The recursion inside Scanned, on a text of n fragments.
Scans(F, n, out, next) == F = [i \in 1..n + 1 |-> IF i > n THEN <<>> ELSE Then(out[i], F[next[i]])]

\* There is a function that satisfies it.
LEMMA ScanExists ==
  ASSUME NEW V, NEW n \in Nat, NEW out, NEW next, IsScan(V, n, out, next)
  PROVE  \E F \in [1..n + 1 -> Seq(V)] : Scans(F, n, out, next)
  <1> DEFINE Solved(F, k) ==
               \A i \in 1..n + 1 : n + 1 - k <= i => F[i] = IF i > n THEN <<>> ELSE Then(out[i], F[next[i]])
             N == {k \in Nat : k <= n => \E F \in [1..n + 1 -> Seq(V)] : Solved(F, k)}
  <1>0. /\ \A i \in 1..n : out[i] \in Seq(V)
        /\ \A i \in 1..n : next[i] \in 1..n + 1 /\ i < next[i]
    BY DEF IsScan
  <1>1. 0 \in N
    <2>1. [i \in 1..n + 1 |-> <<>>] \in [1..n + 1 -> Seq(V)]
      OBVIOUS
    <2>2. \A i \in 1..n + 1 : n + 1 - 0 <= i => i > n
      BY <1>0
    <2> QED
      BY <2>1, <2>2
  <1>2. ASSUME NEW k \in Nat, k \in N
        PROVE  k + 1 \in N
    <2> SUFFICES ASSUME k + 1 <= n
                 PROVE  \E F \in [1..n + 1 -> Seq(V)] : Solved(F, k + 1)
      OBVIOUS
    <2>1. PICK F \in [1..n + 1 -> Seq(V)] : Solved(F, k)
      BY <1>0, <1>2
    <2>2. PICK p \in 1..n : p = n - k /\ p = n + 1 - (k + 1)
      BY <1>0
    <2>3. Then(out[p], F[next[p]]) \in Seq(V)
      BY <1>0 DEF Then
    <2>4. PICK G \in [1..n + 1 -> Seq(V)] :
            G[p] = Then(out[p], F[next[p]]) /\ \A i \in 1..n + 1 : i # p => G[i] = F[i]
      <3>1. PICK v \in Seq(V) : v = Then(out[p], F[next[p]])
        BY <2>3, Zenon
      <3>2. [F EXCEPT ![p] = v] \in [1..n + 1 -> Seq(V)] /\ p \in 1..n + 1
        OBVIOUS
      <3> QED
        BY <3>1, <3>2
    <2>5. ASSUME NEW i \in 1..n + 1, n + 1 - (k + 1) <= i
          PROVE  G[i] = IF i > n THEN <<>> ELSE Then(out[i], G[next[i]])
      <3>1. i <= n => next[i] # p /\ next[i] \in 1..n + 1
        BY <1>0, <2>2, <2>5
      <3>2. CASE i = p
        <4>1. G[next[p]] = F[next[p]] /\ ~(p > n)
          BY <2>4, <3>1, <3>2
        <4> QED
          BY <2>4, <3>2, <4>1
      <3>3. CASE i # p
        <4>1. n + 1 - k <= i
          BY <1>0, <2>2, <2>5, <3>3
        <4>2. F[i] = IF i > n THEN <<>> ELSE Then(out[i], F[next[i]])
          BY <2>1, <4>1
        <4>3. G[i] = F[i] /\ (i <= n => G[next[i]] = F[next[i]])
          BY <2>4, <3>1, <3>3
        <4>4. CASE i > n
          BY <4>2, <4>3, <4>4
        <4>5. CASE i <= n
          <5>1. F[i] = Then(out[i], F[next[i]]) /\ ~(i > n)
            BY <4>2, <4>5
          <5> QED
            BY <4>3, <4>5, <5>1
        <4> QED
          BY <4>4, <4>5
      <3> QED
        BY <3>2, <3>3
    <2> QED
      BY <2>5
  <1>3. n \in N
    <2> HIDE DEF N
    <2> QED
      BY <1>0, <1>1, <1>2, SetInduction
  <1>4. PICK F \in [1..n + 1 -> Seq(V)] : Solved(F, n)
    BY <1>0, <1>3
  <1>6. Scans(F, n, out, next)
    <2>1. F = [i \in 1..n + 1 |-> F[i]]
      OBVIOUS
    <2>2. ASSUME NEW i \in 1..n + 1
          PROVE  F[i] = IF i > n THEN <<>> ELSE Then(out[i], F[next[i]])
      <3>1. n + 1 - n <= i
        OBVIOUS
      <3> QED
        BY <1>4, <3>1
    <2>3. [i \in 1..n + 1 |-> F[i]] = [i \in 1..n + 1 |-> IF i > n THEN <<>> ELSE Then(out[i], F[next[i]])]
      BY <2>2
    <2> QED
      BY <2>1, <2>3 DEF Scans
  <1> QED
    BY <1>6

\* Its value at the end, and everywhere else.
LEMMA ScanEnd ==
  ASSUME NEW n \in Nat, NEW out, NEW next, NEW F, Scans(F, n, out, next)
  PROVE  F[n + 1] = <<>>
  <1>1. n + 1 \in 1..n + 1 /\ n + 1 > n
    OBVIOUS
  <1> QED
    BY <1>1 DEF Scans

\* Its value at a place of the text.
LEMMA ScanAt ==
  ASSUME NEW n \in Nat, NEW out, NEW next, NEW F, Scans(F, n, out, next), NEW i \in 1..n
  PROVE  F[i] = Then(out[i], F[next[i]])
  <1>1. i \in 1..n + 1 /\ ~(i > n)
    OBVIOUS
  <1> QED
    BY <1>1 DEF Scans

\* The recursion, at the places of the text.
Solves(F, n, out, next) == \A i \in 1..n : F[i] = Then(out[i], F[next[i]])

\* That holds at every place.
LEMMA ScanSolves ==
  ASSUME NEW n \in Nat, NEW out, NEW next, NEW F, Scans(F, n, out, next)
  PROVE  Solves(F, n, out, next)
  BY ScanAt DEF Solves

\* Two functions that satisfy it agree.
LEMMA ScanUnique ==
  ASSUME NEW V, NEW n \in Nat, NEW out, NEW next, IsScan(V, n, out, next),
         NEW F, NEW G, Scans(F, n, out, next), Scans(G, n, out, next)
  PROVE  \A i \in 1..n + 1 : F[i] = G[i]
  <1> DEFINE N == {k \in Nat : \A i \in 1..n + 1 : n + 1 - k <= i => F[i] = G[i]}
  <1>0. /\ F[n + 1] = <<>> /\ G[n + 1] = <<>>
        /\ \A i \in 1..n : next[i] \in 1..n + 1 /\ i < next[i]
    BY ScanEnd DEF IsScan
  <1>1. 0 \in N
    <2>1. \A i \in 1..n + 1 : n + 1 - 0 <= i => i = n + 1
      BY <1>0
    <2> QED
      BY <1>0, <2>1
  <1>2. ASSUME NEW k \in Nat, k \in N
        PROVE  k + 1 \in N
    <2> SUFFICES ASSUME NEW i \in 1..n + 1, n + 1 - (k + 1) <= i
                 PROVE  F[i] = G[i]
      OBVIOUS
    <2>1. CASE i = n + 1
      BY <1>0, <2>1
    <2>2. CASE i # n + 1
      <3>1. i \in 1..n /\ next[i] \in 1..n + 1 /\ n + 1 - k <= next[i]
        BY <1>0, <2>2
      <3>2. F[next[i]] = G[next[i]]
        BY <1>2, <3>1
      <3>3. F[i] = Then(out[i], F[next[i]]) /\ G[i] = Then(out[i], G[next[i]])
        BY <3>1, ScanAt
      <3> QED
        BY <3>2, <3>3
    <2> QED
      BY <2>1, <2>2
  <1>3. n \in N
    <2> HIDE DEF N
    <2> QED
      BY <1>0, <1>1, <1>2, SetInduction
  <1> QED
    BY <1>0, <1>3

\* Scanned is the value at the first place of any function that satisfies the recursion.
LEMMA ScannedIs ==
  ASSUME NEW V, NEW n \in Nat, NEW out, NEW next, IsScan(V, n, out, next), Len(out) = n,
         NEW F, Scans(F, n, out, next)
  PROVE  Scanned(out, next) = F[1]
  <1>1. PICK G : G = CHOOSE H : Scans(H, n, out, next)
    OBVIOUS
  <1>2. Scanned(out, next) = G[1]
    BY <1>1, Zenon DEF Scanned, Scans, Then
  <1>3. Scans(G, n, out, next)
    BY <1>1, Zenon
  <1>4. 1 \in 1..n + 1
    BY DEF IsScan
  <1> QED
    BY <1>2, <1>3, <1>4, ScanUnique

\* The second text is what is left of the first when m fragments of it have been read.
Remains(m, k, out, next, rest, goes) == \A i \in 1..k : rest[i] = out[m + i] /\ goes[i] + m = next[m + i]

\* What is read is a text, and empty if nothing is read.
LEMMA ScannedType ==
  ASSUME NEW V, NEW n \in Nat, NEW out, NEW next, IsScan(V, n, out, next), Len(out) = n
  PROVE  Scanned(out, next) \in Seq(V) /\ (n = 0 => Scanned(out, next) = <<>>)
  <1>1. PICK F \in [1..n + 1 -> Seq(V)] : Scans(F, n, out, next)
    BY ScanExists, Zenon
  <1>2. Scanned(out, next) = F[1]
    BY <1>1, ScannedIs
  <1>3. F[n + 1] = <<>>
    BY <1>1, ScanEnd
  <1>4. 1 \in 1..n + 1
    OBVIOUS
  <1>5. F[1] \in Seq(V) /\ (n = 0 => F[1] = <<>>)
    BY <1>1, <1>3, <1>4
  <1> QED
    BY <1>2, <1>5

\* What is read of a text is what is written for its beginning, and then what is read of the rest.
LEMMA ScannedStep ==
  ASSUME NEW V, NEW n \in Nat, NEW out, NEW next, IsScan(V, n, out, next), Len(out) = n,
         NEW m \in Nat, NEW k \in Nat, NEW rest, NEW goes, IsScan(V, k, rest, goes), Len(rest) = k,
         m # 0, n = m + k, next[1] = m + 1, Remains(m, k, out, next, rest, goes)
  PROVE  Scanned(out, next) = Then(out[1], Scanned(rest, goes))
  <1>1. PICK F \in [1..n + 1 -> Seq(V)] : Scans(F, n, out, next)
    BY ScanExists, Zenon
  <1>2. Scanned(out, next) = F[1]
    BY <1>1, ScannedIs
  <1>3. F[n + 1] = <<>>
    BY <1>1, ScanEnd
  <1>4. \A j \in 1..n : F[j] = Then(out[j], F[next[j]])
    <2>1. Solves(F, n, out, next)
      BY <1>1, ScanSolves
    <2> QED
      BY <2>1 DEF Solves
  <1>5. \A i \in 1..k : rest[i] = out[m + i] /\ goes[i] + m = next[m + i]
    BY DEF Remains
  <1>6. PICK G : G = [i \in 1..k + 1 |-> F[m + i]]
    OBVIOUS
  <1>7. ASSUME NEW i \in 1..k + 1
        PROVE  G[i] = IF i > k THEN <<>> ELSE Then(rest[i], G[goes[i]])
    <2>1. CASE i = k + 1
      BY <1>3, <1>5, <1>6, <2>1
    <2>2. CASE i # k + 1
      <3>1. i \in 1..k /\ m + i \in 1..n
        BY <1>5, <2>2
      <3>2. goes[i] \in 1..k + 1
        <4>1. goes[i] \in Nat /\ i < goes[i] /\ goes[i] <= k + 1
          BY <1>5, <3>1 DEF IsScan
        <4> QED
          BY <3>1, <4>1
      <3>3. G[goes[i]] = F[next[m + i]] /\ G[i] = F[m + i]
        <4>1. m + goes[i] = next[m + i]
          BY <1>5, <3>1, <3>2
        <4>2. G[goes[i]] = F[m + goes[i]]
          BY <1>6, <3>2
        <4> QED
          BY <1>6, <4>1, <4>2
      <3>4. F[m + i] = Then(out[m + i], F[next[m + i]])
        <4>1. PICK j \in 1..n : j = m + i
          BY <3>1
        <4>2. F[j] = Then(out[j], F[next[j]])
          BY <4>1, <1>4
        <4> QED
          BY <4>1, <4>2
      <3>5. rest[i] = out[m + i] /\ ~(i > k)
        BY <1>5, <3>1
      <3> QED
        BY <3>3, <3>4, <3>5
    <2> QED
      BY <2>1, <2>2
  <1>8. Scans(G, k, rest, goes)
    <2>1. G = [i \in 1..k + 1 |-> G[i]]
      BY <1>6
    <2>2. [i \in 1..k + 1 |-> G[i]] = [i \in 1..k + 1 |-> IF i > k THEN <<>> ELSE Then(rest[i], G[goes[i]])]
      BY <1>7
    <2> QED
      BY <2>1, <2>2 DEF Scans
  <1>9. Scanned(rest, goes) = G[1]
    BY <1>5, <1>8, ScannedIs
  <1>10. G[1] = F[m + 1] /\ F[1] = Then(out[1], F[m + 1])
    <2>1. 1 \in 1..n /\ 1 \in 1..k + 1
      BY <1>5
    <2>2. F[1] = Then(out[1], F[next[1]])
      BY <1>4, <2>1
    <2> QED
      BY <1>5, <1>6, <2>1, <2>2
  <1> QED
    BY <1>2, <1>9, <1>10
-----------------------------------------------------------------------------
\* The fragments of x, after the first m of the text.
HasAt(text, m, x) == \A i \in 1..Len(x) : text[m + i] = x[i]

\* One text after another.
LEMMA ConcatIs ==
  ASSUME NEW V, NEW a \in Seq(V), NEW x \in Seq(V), NEW text, text = Then(a, x)
  PROVE  Len(text) = Len(a) + Len(x) /\ HasAt(text, Len(a), x)
  <1>1. PICK m \in Nat, n \in Nat : m = Len(a) /\ n = Len(x) /\ text = a \o x
    <2>1. Len(a) \in Nat /\ Len(x) \in Nat
      OBVIOUS
    <2> QED
      BY <2>1, Zenon DEF Then
  <1>2. Len(text) = m + n /\ \A k \in 1..n : text[m + k] = x[k]
    BY <1>1
  <1> QED
    BY <1>1, <1>2 DEF HasAt

\* A part occurs at a place if its fragments are there one after another.
LEMMA OccursAt ==
  ASSUME NEW V, NEW text \in Seq(V), NEW part \in Seq(V), NEW i \in Nat \ {0}
  PROVE  Occurs(part, text, i) <=> /\ i + Len(part) - 1 <= Len(text)
                                   /\ \A k \in 1..Len(part) : text[i + k - 1] = part[k]
  <1>1. PICK n \in Nat : n = Len(text) /\ DOMAIN text = 1..n
    BY LenIs, Zenon
  <1>2. PICK m \in Nat : m = Len(part) /\ DOMAIN part = 1..m
    BY LenIs, Zenon
  <1>3. CASE ~(i + m - 1 <= n)
    BY <1>1, <1>2, <1>3 DEF Occurs
  <1>4. CASE i + m - 1 <= n
    <2>1. PICK s : s = SubSeq(text, i, i + m - 1)
      OBVIOUS
    <2>2. s \in Seq(V) /\ Len(s) = m /\ \A k \in 1..m : s[k] = text[i + k - 1]
      <3>1. s \in Seq(V)
        BY <1>1, <1>4, <2>1
      <3>2. Len(s) = m
        BY <1>1, <1>4, <2>1
      <3>3. \A k \in 1..m : s[k] = text[i + k - 1]
        BY <1>1, <1>4, <2>1
      <3> QED
        BY <3>1, <3>2, <3>3, Zenon
    <2>3. s = part <=> \A k \in 1..m : s[k] = part[k]
      BY <1>2, <2>2, SMTT(30)
    <2>4. Occurs(part, text, i) <=> s = part
      BY <1>1, <1>2, <1>4, <2>1 DEF Occurs
    <2> QED
      BY <1>1, <1>2, <1>4, <2>2, <2>3, <2>4
  <1> QED
    BY <1>3, <1>4

\* Where it occurs does not depend on what was read before.
LEMMA OccursLater ==
  ASSUME NEW V, NEW a \in Seq(V), NEW x \in Seq(V), NEW part \in Seq(V), NEW i \in Nat \ {0}
  PROVE  Occurs(part, a \o x, Len(a) + i) <=> Occurs(part, x, i)
  <1>1. PICK m \in Nat, n \in Nat, p \in Nat, text \in Seq(V) :
          m = Len(a) /\ n = Len(x) /\ p = Len(part) /\ text = a \o x
    <2>1. Len(a) \in Nat /\ Len(x) \in Nat /\ Len(part) \in Nat /\ a \o x \in Seq(V)
      OBVIOUS
    <2> QED
      BY <2>1, Zenon
  <1>2. Len(text) = m + n /\ \A k \in 1..n : text[m + k] = x[k]
    BY <1>1
  <1>3. PICK q \in Nat \ {0} : q = m + i
    <2>1. m + i \in Nat \ {0}
      OBVIOUS
    <2> QED
      BY <2>1, Zenon
  <1>4. Occurs(part, text, q) <=> /\ q + Len(part) - 1 <= Len(text)
                                  /\ \A k \in 1..Len(part) : text[q + k - 1] = part[k]
    BY OccursAt
  <1>5. Occurs(part, x, i) <=> /\ i + Len(part) - 1 <= Len(x)
                               /\ \A k \in 1..Len(part) : x[i + k - 1] = part[k]
    BY OccursAt
  <1>6. ASSUME i + p - 1 <= n, NEW k \in 1..p
        PROVE  text[q + k - 1] = x[i + k - 1]
    <2>1. PICK j \in 1..n : j = i + k - 1 /\ m + j = q + k - 1
      <3>1. i + k - 1 \in 1..n /\ m + (i + k - 1) = q + k - 1
        BY <1>3, <1>6
      <3> QED
        BY <3>1, Zenon
    <2>2. text[m + j] = x[j]
      BY <1>2
    <2> QED
      BY <2>1, <2>2
  <1>7. q + p - 1 <= m + n <=> i + p - 1 <= n
    BY <1>3
  <1>8. Occurs(part, text, q) <=> Occurs(part, x, i)
    BY <1>1, <1>2, <1>4, <1>5, <1>6, <1>7
  <1> QED
    BY <1>1, <1>3, <1>8

\* A text that begins with a part.
LEMMA OccursFirst ==
  ASSUME NEW V, NEW text \in Seq(V), NEW part \in Seq(V)
  PROVE  Occurs(part, text, 1) <=> \E x \in Seq(V) : text = Then(part, x)
  <1>1. PICK n \in Nat : n = Len(text) /\ DOMAIN text = 1..n
    BY LenIs, Zenon
  <1>2. PICK m \in Nat : m = Len(part) /\ DOMAIN part = 1..m
    BY LenIs, Zenon
  <1>3. Occurs(part, text, 1) <=> m <= n /\ \A k \in 1..m : text[k] = part[k]
    <2>1. Occurs(part, text, 1) <=> /\ 1 + Len(part) - 1 <= Len(text)
                                    /\ \A k \in 1..Len(part) : text[1 + k - 1] = part[k]
      BY OccursAt
    <2>2. \A k \in 1..m : 1 + k - 1 = k
      OBVIOUS
    <2> QED
      BY <1>1, <1>2, <2>1, <2>2
  <1>4. ASSUME NEW x \in Seq(V), text = part \o x
        PROVE  m <= n /\ \A k \in 1..m : text[k] = part[k]
    BY <1>1, <1>2, <1>4
  <1>5. ASSUME m <= n, \A k \in 1..m : text[k] = part[k]
        PROVE  \E x \in Seq(V) : text = part \o x
    <2>1. PICK x : x = [k \in 1..n - m |-> text[m + k]]
      OBVIOUS
    <2>2. x \in Seq(V) /\ Len(x) = n - m
      <3>1. \A k \in 1..n - m : text[m + k] \in V
        BY <1>1, <1>5
      <3>2. n - m \in Nat
        BY <1>5
      <3> QED
        BY <2>1, <3>1, <3>2
    <2>3. text = part \o x
      BY <1>1, <1>2, <1>5, <2>1, <2>2
    <2> QED
      BY <2>2, <2>3
  <1>6. Occurs(part, text, 1) <=> \E x \in Seq(V) : text = part \o x
    BY <1>3, <1>4, <1>5
  <1> QED
    BY <1>6, Zenon DEF Then

\* How Replace reads a text: what is written for each place, and where reading goes on.
Replaced(text, part, by) == [i \in DOMAIN text |-> IF Occurs(part, text, i) THEN by ELSE <<text[i]>>]
Onwards(text, part) == [i \in DOMAIN text |-> IF Occurs(part, text, i) THEN i + Len(part) ELSE i + 1]

\* With these Replace reads a text as Scanned does.
LEMMA ReplaceScans ==
  ASSUME NEW V, NEW text \in Seq(V), NEW part \in Seq(V), part # <<>>, NEW by \in Seq(V)
  PROVE  /\ IsScan(V, Len(text), Replaced(text, part, by), Onwards(text, part))
         /\ Len(Replaced(text, part, by)) = Len(text)
  <1>1. PICK n \in Nat : n = Len(text) /\ DOMAIN text = 1..n
    BY LenIs, Zenon
  <1>2. PICK m \in Nat \ {0} : m = Len(part)
    <2>1. Len(part) \in Nat \ {0}
      OBVIOUS
    <2> QED
      BY <2>1, Zenon
  <1>3. PICK out : out = [i \in 1..n |-> IF Occurs(part, text, i) THEN by ELSE <<text[i]>>]
    OBVIOUS
  <1>4. PICK next : next = [i \in 1..n |-> IF Occurs(part, text, i) THEN i + m ELSE i + 1]
    OBVIOUS
  <1>5. out = Replaced(text, part, by) /\ next = Onwards(text, part)
    BY <1>1, <1>2, <1>3, <1>4, Zenon DEF Replaced, Onwards
  <1>6. out \in [1..n -> Seq(V)] /\ Len(out) = n
    <2>1. \A i \in 1..n : out[i] \in Seq(V)
      BY <1>1, <1>3
    <2> QED
      BY <1>3, <2>1
  <1>7. ASSUME NEW i \in 1..n
        PROVE  next[i] \in Nat /\ i < next[i] /\ next[i] <= n + 1
    <2>1. Occurs(part, text, i) => i + m - 1 <= n
      BY <1>1, <1>2 DEF Occurs
    <2> QED
      BY <1>4, <2>1
  <1>8. IsScan(V, n, out, next)
    <2>1. next \in [1..n -> Nat]
      BY <1>4, <1>7
    <2> QED
      BY <1>6, <1>7, <2>1 DEF IsScan
  <1> QED
    BY <1>1, <1>5, <1>6, <1>8

\* If reading goes on after some beginning, what is written for the rest is what would be
\* written for it alone.
LEMMA ReplaceStep ==
  ASSUME NEW V, NEW a \in Seq(V), a # <<>>, NEW x \in Seq(V), NEW part \in Seq(V), part # <<>>,
         NEW by \in Seq(V), NEW first \in Seq(V),
         first = IF Occurs(part, a \o x, 1) THEN by ELSE <<a[1]>>,
         Len(a) = IF Occurs(part, a \o x, 1) THEN Len(part) ELSE 1
  PROVE  Replace(a \o x, part, by) = first \o Replace(x, part, by)
  <1>1. PICK text \in Seq(V) : text = a \o x
    <2>1. a \o x \in Seq(V)
      OBVIOUS
    <2> QED
      BY <2>1, Zenon
  <1>2. PICK n \in Nat : n = Len(text) /\ DOMAIN text = 1..n
    BY LenIs, Zenon
  <1>3. PICK k \in Nat : k = Len(x) /\ DOMAIN x = 1..k
    BY LenIs, Zenon
  <1>4. PICK m \in Nat \ {0} : m = Len(a)
    <2>1. Len(a) \in Nat \ {0}
      OBVIOUS
    <2> QED
      BY <2>1, Zenon
  <1>5. n = m + k /\ text[1] = a[1] /\ \A i \in 1..k : text[m + i] = x[i]
    <2>1. Len(text) = m + k /\ \A i \in 1..k : text[m + i] = x[i]
      <3>1. Len(text) = Len(a) + Len(x)
        BY <1>1, ConcatIs DEF Then
      <3>2. HasAt(text, Len(a), x)
        BY <1>1, ConcatIs DEF Then
      <3> QED
        BY <1>3, <1>4, <3>1, <3>2, Zenon DEF HasAt
    <2>2. 1 \in 1..m /\ \A i \in 1..m : text[i] = a[i]
      BY <1>1, <1>4
    <2> QED
      BY <1>2, <2>1, <2>2
  <1>6. PICK out, next : out = Replaced(text, part, by) /\ next = Onwards(text, part)
    OBVIOUS
  <1>7. PICK rest, goes : rest = Replaced(x, part, by) /\ goes = Onwards(x, part)
    OBVIOUS
  <1>8. IsScan(V, n, out, next) /\ Len(out) = n /\ IsScan(V, k, rest, goes) /\ Len(rest) = k
    BY <1>2, <1>3, <1>6, <1>7, ReplaceScans
  <1>9. ASSUME NEW i \in 1..k
        PROVE  rest[i] = out[m + i] /\ goes[i] + m = next[m + i]
    <2>1. PICK q \in 1..n : q = m + i
      <3>1. m + i \in 1..n
        BY <1>5
      <3> QED
        BY <3>1, Zenon
    <2>2. Occurs(part, text, q) <=> Occurs(part, x, i)
      <3>1. i \in Nat \ {0}
        OBVIOUS
      <3> QED
        BY <1>1, <1>4, <2>1, <3>1, OccursLater
    <2>3. out[q] = (IF Occurs(part, text, q) THEN by ELSE <<text[q]>>)
          /\ next[q] = IF Occurs(part, text, q) THEN q + Len(part) ELSE q + 1
      BY <1>2, <1>6, Zenon DEF Replaced, Onwards
    <2>4. rest[i] = (IF Occurs(part, x, i) THEN by ELSE <<x[i]>>)
          /\ goes[i] = IF Occurs(part, x, i) THEN i + Len(part) ELSE i + 1
      BY <1>3, <1>7, Zenon DEF Replaced, Onwards
    <2>5. Len(part) \in Nat /\ text[q] = x[i]
      BY <1>5, <2>1
    <2> QED
      BY <2>1, <2>2, <2>3, <2>4, <2>5
  <1>10. next[1] = m + 1 /\ out[1] = first
    <2>1. 1 \in 1..n
      BY <1>5
    <2>2. out[1] = (IF Occurs(part, text, 1) THEN by ELSE <<text[1]>>)
          /\ next[1] = IF Occurs(part, text, 1) THEN 1 + Len(part) ELSE 1 + 1
      BY <1>2, <1>6, <2>1, Zenon DEF Replaced, Onwards
    <2> QED
      BY <1>1, <1>4, <1>5, <2>2
  <1>11. Scanned(out, next) = Then(out[1], Scanned(rest, goes))
    <2>1. m \in Nat /\ m # 0 /\ n = m + k
      BY <1>5
    <2>2. Remains(m, k, out, next, rest, goes)
      BY <1>9 DEF Remains
    <2>3. m \in Nat /\ n \in Nat /\ k \in Nat
      OBVIOUS
    <2> QED
      BY <1>8, <1>10, <2>1, <2>2, <2>3, ScannedStep, SMTT(30)
  <1>12. Replace(text, part, by) = Scanned(out, next) /\ Replace(x, part, by) = Scanned(rest, goes)
    BY <1>6, <1>7, Zenon DEF Replace, Replaced, Onwards
  <1> QED
    BY <1>1, <1>10, <1>11, <1>12 DEF Then

\* What Replace makes of nothing, and of a text that begins with the part.
LEMMA ReplaceIs ==
  ASSUME NEW V, NEW part \in Seq(V), part # <<>>, NEW by \in Seq(V), NEW x \in Seq(V)
  PROVE  /\ Replace(x, part, by) \in Seq(V)
         /\ Replace(<<>>, part, by) = <<>>
         /\ Replace(Then(part, x), part, by) = Then(by, Replace(x, part, by))
  <1>0. ASSUME NEW text \in Seq(V)
        PROVE  /\ Replace(text, part, by) \in Seq(V)
               /\ Len(text) = 0 => Replace(text, part, by) = <<>>
    <2>1. PICK n \in Nat : n = Len(text)
      BY LenIs, Zenon
    <2>2. PICK out, next : out = Replaced(text, part, by) /\ next = Onwards(text, part)
      OBVIOUS
    <2>3. IsScan(V, n, out, next) /\ Len(out) = n
      BY <2>1, <2>2, ReplaceScans
    <2>4. Scanned(out, next) \in Seq(V) /\ (n = 0 => Scanned(out, next) = <<>>)
      BY <2>1, <2>3, ScannedType
    <2>5. Replace(text, part, by) = Scanned(out, next)
      BY <2>2, Zenon DEF Replace, Replaced, Onwards
    <2> QED
      BY <2>1, <2>4, <2>5
  <1>2. Replace(<<>>, part, by) = <<>>
    <2>1. <<>> \in Seq(V) /\ Len(<<>>) = 0
      OBVIOUS
    <2> QED
      BY <1>0, <2>1
  <1>3. Replace(part \o x, part, by) = by \o Replace(x, part, by)
    <2>1. PICK text \in Seq(V) : text = part \o x
      <3>1. part \o x \in Seq(V)
        OBVIOUS
      <3> QED
        BY <3>1, Zenon
    <2>2. Occurs(part, part \o x, 1)
      <3>1. text = Then(part, x)
        BY <2>1, Zenon DEF Then
      <3> QED
        BY <2>1, <3>1, OccursFirst
    <2> QED
      BY <2>2, ReplaceStep
  <1>5. Replace(Then(part, x), part, by) = Then(by, Replace(x, part, by))
    BY <1>3, Zenon DEF Then
  <1> QED
    BY <1>0, <1>2, <1>5

\* What comes before the part is not changed.
LEMMA ReplaceBefore ==
  ASSUME NEW V, NEW part \in Seq(V), part # <<>>, NEW by \in Seq(V), NEW x \in Seq(V),
         NEW c \in V, ~Occurs(part, Then(<<c>>, x), 1)
  PROVE  Replace(Then(<<c>>, x), part, by) = Then(<<c>>, Replace(x, part, by))
  <1>0. ~Occurs(part, <<c>> \o x, 1)
    BY Zenon DEF Then
  <1>1. PICK a : a = <<c>>
    OBVIOUS
  <1>2. a \in Seq(V) /\ a # <<>> /\ Len(a) = 1 /\ a[1] = c
    BY <1>1
  <1>3. a = <<a[1]>>
    BY <1>1, <1>2
  <1>4. ~Occurs(part, a \o x, 1)
    BY <1>0, <1>1
  <1>5. Replace(a \o x, part, by) = a \o Replace(x, part, by)
    BY <1>2, <1>3, <1>4, ReplaceStep
  <1> QED
    BY <1>1, <1>5, Zenon DEF Then
-----------------------------------------------------------------------------
\* This place is the end of the name that is open there.
IsEnd(text, open, close, i, j) ==
  /\ j \in i + 2..Len(text) /\ text[i] = open /\ text[j] = close
  /\ \A k \in i + 1..j - 1 : text[k] \notin Marks

\* How Rewrite reads a text: where names end, what is written, and where reading goes on.
EndOf(text, open, close) ==
  [i \in DOMAIN text |->
    IF Ends(text, open, close, i) = {} THEN 0 ELSE CHOOSE j \in Ends(text, open, close, i) : TRUE]
Rewritten(text, open, close, by, End) ==
  [i \in DOMAIN text |->
    IF End[i] = 0 THEN <<text[i]>>
    ELSE IF SubSeq(text, i + 1, End[i] - 1) \in DOMAIN by THEN by[SubSeq(text, i + 1, End[i] - 1)]
    ELSE <<open>> \o SubSeq(text, i + 1, End[i] - 1) \o <<close>>]
Skipped(text, End) == [i \in DOMAIN text |-> IF End[i] = 0 THEN i + 1 ELSE End[i] + 1]

\* The set of ends, one by one.
LEMMA EndsAre ==
  ASSUME NEW text, NEW open, NEW close, NEW i, NEW j
  PROVE  j \in Ends(text, open, close, i) <=> IsEnd(text, open, close, i, j)
  BY Zenon DEF Ends, IsEnd

\* The name that is open at a place and closed at another.
NameAt(text, i, j) == SubSeq(text, i + 1, j - 1)

\* A name has one end: the mark that closes it is not part of a name.
LEMMA EndIs ==
  ASSUME NEW V, NEW text \in Seq(V), NEW open, NEW close \in Marks, NEW i \in DOMAIN text
  PROVE  /\ EndOf(text, open, close)[i] \in Nat
         /\ \A j \in Nat \ {0} : EndOf(text, open, close)[i] = j <=> IsEnd(text, open, close, i, j)
         /\ EndOf(text, open, close)[i] = 0 <=> \A j \in Nat : ~IsEnd(text, open, close, i, j)
  <1>1. PICK n \in Nat : n = Len(text) /\ DOMAIN text = 1..n
    BY LenIs, Zenon
  <1>2. PICK e : e = EndOf(text, open, close)[i]
    OBVIOUS
  <1>3. e = IF Ends(text, open, close, i) = {} THEN 0 ELSE CHOOSE j \in Ends(text, open, close, i) : TRUE
    BY <1>2, Zenon DEF EndOf
  <1>4. \A j \in Ends(text, open, close, i) : j \in Nat \ {0}
    BY <1>1, EndsAre DEF IsEnd
  <1>5. \A j, k \in Nat : IsEnd(text, open, close, i, j) /\ IsEnd(text, open, close, i, k) => ~(j < k)
    BY <1>1 DEF IsEnd
  <1>6. CASE Ends(text, open, close, i) = {}
    <2>1. e = 0
      BY <1>3, <1>6
    <2>2. \A j : ~IsEnd(text, open, close, i, j)
      BY <1>6, EndsAre
    <2> QED
      BY <1>2, <2>1, <2>2
  <1>7. CASE Ends(text, open, close, i) # {}
    <2>1. e \in Ends(text, open, close, i)
      BY <1>3, <1>7, Zenon
    <2>2. e \in Nat \ {0} /\ IsEnd(text, open, close, i, e)
      BY <1>4, <2>1, EndsAre
    <2>3. \A j \in Nat : IsEnd(text, open, close, i, j) => j = e
      BY <1>5, <2>2
    <2> QED
      BY <1>2, <2>2, <2>3
  <1> QED
    BY <1>6, <1>7

\* The d fragments of a text after the first p.
IsPart(s, V, text, p, d) == s \in Seq(V) /\ Len(s) = d /\ \A k \in 1..d : s[k] = text[p + k]

\* A subsequence is such a part.
LEMMA SubSeqIs ==
  ASSUME NEW V, NEW text \in Seq(V), NEW p \in Nat, NEW d \in Nat, p + d <= Len(text),
         NEW s, s = SubSeq(text, p + 1, p + d)
  PROVE  IsPart(s, V, text, p, d)
  <1>1. PICK n \in Nat : n = Len(text) /\ DOMAIN text = 1..n
    BY LenIs, Zenon
  <1>2. PICK t : t = [k \in 1..d |-> text[p + k]]
    OBVIOUS
  <1>3. t \in Seq(V) /\ Len(t) = d
    <2>1. \A k \in 1..d : text[p + k] \in V
      BY <1>1
    <2> QED
      BY <1>2, <2>1
  <1>4. s = t
    BY <1>1, <1>2
  <1> QED
    BY <1>2, <1>3, <1>4 DEF IsPart

\* This is the place of i when a text comes before.
After(a, i, p) == p = Len(a) + i

\* The length of what is between two marks.
LEMMA Distance ==
  ASSUME NEW b \in Nat, NEW c \in Nat, b + 2 <= c
  PROVE  \E d \in Nat : c - 1 = b + d
  <1>1. c - b - 1 \in Nat /\ c - 1 = b + (c - b - 1)
    OBVIOUS
  <1> QED
    BY <1>1, Zenon

\* Where a name ends does not depend on what was read before.
LEMMA EndLater ==
  ASSUME NEW V, NEW a \in Seq(V), NEW x \in Seq(V), NEW text \in Seq(V), text = Then(a, x),
         NEW open, NEW close, NEW i \in Nat, i \in DOMAIN x, NEW j \in Nat,
         NEW p \in Nat, NEW q \in Nat, After(a, i, p), After(a, j, q)
  PROVE  /\ IsEnd(text, open, close, p, q) <=> IsEnd(x, open, close, i, j)
         /\ IsEnd(x, open, close, i, j) => NameAt(text, p, q) = NameAt(x, i, j)
  <1>1. PICK m \in Nat : m = Len(a) /\ DOMAIN a = 1..m
    BY LenIs, Zenon
  <1>2. PICK n \in Nat : n = Len(x) /\ DOMAIN x = 1..n
    BY LenIs, Zenon
  <1>3. Len(text) = m + n /\ HasAt(text, m, x)
    BY <1>1, <1>2, ConcatIs
  <1>4. \A k \in 1..n : text[m + k] = x[k]
    BY <1>2, <1>3 DEF HasAt
  <1>5. p = m + i /\ q = m + j
    BY <1>1 DEF After
  <1>6. ASSUME NEW k \in 1..n, NEW l \in Nat, l = m + k
        PROVE  text[l] = x[k]
    BY <1>4, <1>6
  <1>7. i \in 1..n /\ text[p] = x[i]
    BY <1>2, <1>5, <1>6
  <1>8. ASSUME j \in i + 2..n
        PROVE  (\A k \in p + 1..q - 1 : text[k] \notin Marks)
                 <=> \A k \in i + 1..j - 1 : x[k] \notin Marks
    <2>1. ASSUME NEW k \in p + 1..q - 1
          PROVE  \E l \in i + 1..j - 1 : text[k] = x[l]
      <3>1. PICK l : l = k - m
        OBVIOUS
      <3>2. l \in 1..n /\ l \in i + 1..j - 1 /\ k = m + l /\ k \in Nat
        BY <1>1, <1>2, <1>5, <1>7, <1>8, <2>1, <3>1
      <3> QED
        BY <1>6, <3>2
    <2>2. ASSUME NEW k \in i + 1..j - 1
          PROVE  \E l \in p + 1..q - 1 : text[l] = x[k]
      <3>1. PICK l : l = m + k
        OBVIOUS
      <3>2. k \in 1..n /\ l \in p + 1..q - 1 /\ l \in Nat
        BY <1>1, <1>2, <1>5, <1>7, <1>8, <2>2, <3>1
      <3> QED
        BY <1>6, <3>1, <3>2
    <2> QED
      BY <2>1, <2>2
  <1>9. ASSUME j \in i + 2..n
        PROVE  text[q] = x[j]
    <2>1. j \in 1..n
      BY <1>7, <1>9
    <2> QED
      BY <1>5, <1>6, <2>1
  <1>10. IsEnd(text, open, close, p, q) <=> IsEnd(x, open, close, i, j)
    <2>1. q \in p + 2..Len(text) <=> j \in i + 2..Len(x)
      BY <1>2, <1>3, <1>5, <1>7
    <2> QED
      BY <1>2, <1>7, <1>8, <1>9, <2>1 DEF IsEnd
  <1>11. ASSUME IsEnd(x, open, close, i, j)
        PROVE  SubSeq(text, p + 1, q - 1) = SubSeq(x, i + 1, j - 1)
    <2>1. j \in i + 2..n /\ i \in 1..n
      BY <1>2, <1>11 DEF IsEnd
    <2>2. PICK s : s = SubSeq(text, p + 1, q - 1)
      OBVIOUS
    <2>3. PICK t : t = SubSeq(x, i + 1, j - 1)
      OBVIOUS
    <2>4. PICK d \in Nat : q - 1 = p + d /\ j - 1 = i + d /\ i + d <= n
      <3>1. i \in Nat /\ i + 2 <= j /\ j <= n
        BY <2>1
      <3>2. PICK d \in Nat : j - 1 = i + d
        BY <3>1, Distance
      <3>3. q - 1 = p + d
        BY <1>5, <3>1, <3>2
      <3> QED
        BY <3>1, <3>2, <3>3
    <2>5. s \in Seq(V) /\ Len(s) = d /\ \A k \in 1..d : s[k] = text[p + k]
      <3>1. p + d <= Len(text)
        BY <1>3, <1>5, <2>4
      <3>2. s = SubSeq(text, p + 1, p + d)
        BY <2>2, <2>4
      <3>3. IsPart(s, V, text, p, d)
        BY <3>1, <3>2, SubSeqIs
      <3> QED
        BY <3>3 DEF IsPart
    <2>6. t \in Seq(V) /\ Len(t) = d /\ \A k \in 1..d : t[k] = x[i + k]
      <3>1. i \in Nat /\ i + d <= Len(x)
        BY <1>2, <2>1, <2>4
      <3>2. t = SubSeq(x, i + 1, i + d)
        BY <2>3, <2>4
      <3>3. IsPart(t, V, x, i, d)
        BY <3>1, <3>2, SubSeqIs
      <3> QED
        BY <3>3 DEF IsPart
    <2>7. ASSUME NEW k \in 1..d
          PROVE  text[p + k] = x[i + k]
      <3>1. PICK r \in 1..n, l \in Nat : r = i + k /\ l = p + k /\ l = m + r
        <4>1. i + k \in 1..n /\ p + k \in Nat
          BY <2>1, <2>4, <2>7
        <4>2. p + k = m + (i + k)
          BY <1>1, <1>5, <2>1, <2>4
        <4> QED
          BY <4>1, <4>2, Zenon
      <3> QED
        BY <1>6, <3>1
    <2>8. \A k \in 1..d : s[k] = t[k]
      BY <2>5, <2>6, <2>7
    <2>9. s = t
      BY <2>5, <2>6, <2>8
    <2> QED
      BY <2>2, <2>3, <2>9
  <1> QED
    BY <1>10, <1>11 DEF NameAt

\* The same, with one hypothesis.
Shifted(V, a, x, text, i, j, p, q) ==
  /\ a \in Seq(V) /\ x \in Seq(V) /\ text \in Seq(V) /\ text = Then(a, x)
  /\ i \in Nat /\ i \in DOMAIN x /\ j \in Nat /\ p \in Nat /\ q \in Nat
  /\ After(a, i, p) /\ After(a, j, q)

\* EndLater, with what it assumes under one name.
LEMMA EndShifted ==
  ASSUME NEW V, NEW a, NEW x, NEW text, NEW i, NEW j, NEW p, NEW q, Shifted(V, a, x, text, i, j, p, q),
         NEW open, NEW close
  PROVE  /\ IsEnd(text, open, close, p, q) <=> IsEnd(x, open, close, i, j)
         /\ IsEnd(x, open, close, i, j) => NameAt(text, p, q) = NameAt(x, i, j)
  BY EndLater DEF Shifted

\* Rewrite reads a text as Scanned does.
LEMMA RewriteScans ==
  ASSUME NEW V, NEW text \in Seq(V), NEW open \in V, NEW close \in V, close \in Marks,
         NEW D, NEW by \in [D -> Seq(V)], NEW End, End = EndOf(text, open, close)
  PROVE  /\ IsScan(V, Len(text), Rewritten(text, open, close, by, End), Skipped(text, End))
         /\ Len(Rewritten(text, open, close, by, End)) = Len(text)
         /\ Rewrite(text, open, close, by)
              = Scanned(Rewritten(text, open, close, by, End), Skipped(text, End))
  <1>1. PICK n \in Nat : n = Len(text) /\ DOMAIN text = 1..n
    BY LenIs, Zenon
  <1>2. PICK out : out = Rewritten(text, open, close, by, End)
    OBVIOUS
  <1>3. PICK next : next = Skipped(text, End)
    OBVIOUS
  <1>4. Rewrite(text, open, close, by) = Scanned(out, next)
    BY <1>2, <1>3, Zenon DEF Rewrite, EndOf, Rewritten, Skipped
  <1>5. ASSUME NEW i \in 1..n
        PROVE  /\ End[i] \in Nat
               /\ End[i] # 0 => End[i] \in i + 2..n
    <2>1. End[i] \in Nat /\ \A j \in Nat \ {0} : End[i] = j <=> IsEnd(text, open, close, i, j)
      BY <1>1, EndIs
    <2>2. End[i] # 0 => IsEnd(text, open, close, i, End[i])
      BY <2>1
    <2> QED
      BY <1>1, <2>1, <2>2 DEF IsEnd
  <1>6. ASSUME NEW i \in 1..n
        PROVE  out[i] \in Seq(V)
    <2>1. PICK s : s = SubSeq(text, i + 1, End[i] - 1)
      OBVIOUS
    <2>2. out[i] = IF End[i] = 0 THEN <<text[i]>> ELSE IF s \in D THEN by[s] ELSE <<open>> \o s \o <<close>>
      BY <1>1, <1>2, <2>1 DEF Rewritten
    <2>3. CASE End[i] = 0
      BY <1>1, <2>2, <2>3
    <2>4. CASE End[i] # 0
      <3>1. End[i] \in i + 2..n
        BY <1>5, <2>4
      <3>2. s \in Seq(V)
        BY <1>1, <2>1, <3>1
      <3>3. s \in D => by[s] \in Seq(V)
        OBVIOUS
      <3> QED
        BY <2>2, <2>4, <3>2, <3>3
    <2> QED
      BY <2>3, <2>4
  <1>7. ASSUME NEW i \in 1..n
        PROVE  next[i] \in Nat /\ i < next[i] /\ next[i] <= n + 1
    <2>1. next[i] = IF End[i] = 0 THEN i + 1 ELSE End[i] + 1
      BY <1>1, <1>3 DEF Skipped
    <2> QED
      BY <1>5, <2>1
  <1>8. out = [i \in 1..n |-> out[i]] /\ next = [i \in 1..n |-> next[i]]
    BY <1>1, <1>2, <1>3 DEF Rewritten, Skipped
  <1>9. IsScan(V, n, out, next)
    BY <1>6, <1>7, <1>8 DEF IsScan
  <1>10. Len(out) = n
    <2>1. DOMAIN out = 1..n
      BY <1>8
    <2> QED
      BY <2>1
  <1> QED
    BY <1>1, <1>2, <1>3, <1>4, <1>9, <1>10

\* A text begins with a, for which first is written.
Begins(text, open, close, D, by, a, first) ==
  /\ EndOf(text, open, close)[1] = 0 => Len(a) = 1 /\ first = <<text[1]>>
  /\ EndOf(text, open, close)[1] # 0 =>
       /\ Len(a) = EndOf(text, open, close)[1]
       /\ SubSeq(text, 1 + 1, Len(a) - 1) \in D /\ first = by[SubSeq(text, 1 + 1, Len(a) - 1)]

\* Reading goes on behind this place, which does not change what the rest is read as.
LEMMA RewriteStep ==
  ASSUME NEW V, NEW a \in Seq(V), NEW x \in Seq(V), NEW text \in Seq(V), text = Then(a, x), a # <<>>,
         NEW open \in V, NEW close \in V, close \in Marks, NEW D, NEW by \in [D -> Seq(V)],
         NEW first \in Seq(V),
         Begins(text, open, close, D, by, a, first)
  PROVE  Rewrite(text, open, close, by) = Then(first, Rewrite(x, open, close, by))
  <1>1. PICK n \in Nat : n = Len(text) /\ DOMAIN text = 1..n
    BY LenIs, Zenon
  <1>2. PICK k \in Nat : k = Len(x) /\ DOMAIN x = 1..k
    BY LenIs, Zenon
  <1>3. PICK m \in Nat \ {0} : m = Len(a)
    <2>1. Len(a) \in Nat \ {0}
      OBVIOUS
    <2> QED
      BY <2>1, Zenon
  <1>4. n = m + k /\ \A i \in 1..k : text[m + i] = x[i]
    <2>1. Len(text) = Len(a) + Len(x)
      BY ConcatIs
    <2>2. HasAt(text, Len(a), x)
      BY ConcatIs
    <2> QED
      BY <1>1, <1>2, <1>3, <2>1, <2>2, Zenon DEF HasAt
  <1>5. PICK e : e = EndOf(text, open, close)
    OBVIOUS
  <1>6. PICK d : d = EndOf(x, open, close)
    OBVIOUS
  <1>7. PICK out : out = Rewritten(text, open, close, by, e)
    OBVIOUS
  <1>8. PICK next : next = Skipped(text, e)
    OBVIOUS
  <1>9. PICK rest : rest = Rewritten(x, open, close, by, d)
    OBVIOUS
  <1>10. PICK goes : goes = Skipped(x, d)
    OBVIOUS
  <1>11. IsScan(V, n, out, next) /\ Len(out) = n /\ Rewrite(text, open, close, by) = Scanned(out, next)
    BY <1>1, <1>5, <1>7, <1>8, RewriteScans
  <1>12. IsScan(V, k, rest, goes) /\ Len(rest) = k /\ Rewrite(x, open, close, by) = Scanned(rest, goes)
    BY <1>2, <1>6, <1>9, <1>10, RewriteScans
  <1>13. ASSUME NEW i \in Nat, i \in 1..k, NEW p \in Nat, p = m + i
         PROVE  /\ d[i] \in Nat
                /\ d[i] = 0 => e[p] = 0
                /\ d[i] # 0 => e[p] = m + d[i] /\ NameAt(text, p, e[p]) = NameAt(x, i, d[i])
    <2>1. After(a, i, p) /\ i \in DOMAIN x /\ p \in DOMAIN text
      BY <1>1, <1>2, <1>3, <1>4, <1>13 DEF After
    <2>2. /\ d[i] \in Nat
          /\ \A j \in Nat \ {0} : d[i] = j <=> IsEnd(x, open, close, i, j)
          /\ d[i] = 0 <=> \A j \in Nat : ~IsEnd(x, open, close, i, j)
      BY <1>6, <2>1, EndIs
    <2>3. /\ e[p] \in Nat
          /\ \A j \in Nat \ {0} : e[p] = j <=> IsEnd(text, open, close, p, j)
      BY <1>5, <2>1, EndIs
    <2>4. ASSUME d[i] # 0
          PROVE  e[p] = m + d[i] /\ NameAt(text, p, e[p]) = NameAt(x, i, d[i])
      <3>1. PICK j \in Nat : j = d[i]
        BY <2>2
      <3>2. PICK q \in Nat : q = m + j
        BY <1>3
      <3>3. After(a, j, q)
        BY <1>3, <3>2 DEF After
      <3>4. IsEnd(x, open, close, i, j)
        BY <2>2, <2>4, <3>1
      <3>5. IsEnd(text, open, close, p, q) /\ NameAt(text, p, q) = NameAt(x, i, j)
        <4>1. Shifted(V, a, x, text, i, j, p, q)
          BY <1>13, <2>1, <3>1, <3>2, <3>3 DEF Shifted
        <4> QED
          BY <3>4, <4>1, EndShifted
      <3>6. q # 0
        BY <1>3, <3>2
      <3>7. e[p] = q
        BY <2>3, <3>5, <3>6
      <3> QED
        BY <3>1, <3>2, <3>5, <3>7
    <2>5. ASSUME e[p] # 0
          PROVE  d[i] # 0
      <3>1. PICK q \in Nat : q = e[p]
        BY <2>3
      <3>2. IsEnd(text, open, close, p, q)
        BY <2>3, <2>5, <3>1
      <3>3. p + 2 <= q
        BY <3>2 DEF IsEnd
      <3>4. PICK j \in Nat : q = m + j
        <4>1. q - m \in Nat /\ q = m + (q - m)
          BY <1>3, <1>13, <3>3
        <4> QED
          BY <4>1, Zenon
      <3>5. After(a, j, q)
        BY <1>3, <3>4 DEF After
      <3>6. IsEnd(x, open, close, i, j)
        <4>1. Shifted(V, a, x, text, i, j, p, q)
          BY <1>13, <2>1, <3>1, <3>4, <3>5 DEF Shifted
        <4> QED
          BY <3>2, <4>1, EndShifted
      <3> QED
        BY <2>2, <3>6
    <2> QED
      BY <2>2, <2>3, <2>4, <2>5
  <1>14. ASSUME NEW i \in Nat, i \in 1..k
         PROVE  rest[i] = out[m + i] /\ goes[i] + m = next[m + i]
    <2>1. PICK p \in Nat : p = m + i
      <3>1. m + i \in Nat
        OBVIOUS
      <3> QED
        BY <3>1, Zenon
    <2>2. p \in 1..n /\ text[p] = x[i]
      <3>1. p \in 1..m + k
        BY <1>14, <2>1
      <3>2. text[m + i] = x[i]
        BY <1>4, <1>14
      <3> QED
        BY <1>4, <2>1, <3>1, <3>2
    <2>3. PICK t : t = SubSeq(text, p + 1, e[p] - 1)
      OBVIOUS
    <2>4. PICK s : s = SubSeq(x, i + 1, d[i] - 1)
      OBVIOUS
    <2>5. /\ out[p] = IF e[p] = 0 THEN <<text[p]>> ELSE IF t \in D THEN by[t] ELSE <<open>> \o t \o <<close>>
          /\ next[p] = IF e[p] = 0 THEN p + 1 ELSE e[p] + 1
      BY <1>1, <1>7, <1>8, <2>2, <2>3 DEF Rewritten, Skipped
    <2>6. /\ rest[i] = IF d[i] = 0 THEN <<x[i]>> ELSE IF s \in D THEN by[s] ELSE <<open>> \o s \o <<close>>
          /\ goes[i] = IF d[i] = 0 THEN i + 1 ELSE d[i] + 1
      BY <1>2, <1>9, <1>10, <1>14, <2>4 DEF Rewritten, Skipped
    <2>7. /\ d[i] \in Nat
          /\ d[i] = 0 => e[p] = 0
          /\ d[i] # 0 => e[p] = m + d[i] /\ t = s
      BY <1>13, <1>14, <2>1, <2>3, <2>4 DEF NameAt
    <2>8. CASE d[i] = 0
      BY <2>1, <2>2, <2>5, <2>6, <2>7, <2>8
    <2>9. CASE d[i] # 0
      <3>1. e[p] # 0 /\ e[p] = m + d[i] /\ t = s
        BY <2>7, <2>9
      <3>2. rest[i] = out[p]
        BY <2>5, <2>6, <2>9, <3>1
      <3>3. goes[i] = d[i] + 1 /\ next[p] = m + d[i] + 1
        BY <2>5, <2>6, <2>9, <3>1
      <3> QED
        BY <2>1, <2>7, <3>2, <3>3
    <2> QED
      BY <2>8, <2>9
  <1>15. next[1] = m + 1 /\ out[1] = first
    <2>1. 1 \in 1..n
      BY <1>4
    <2>2. PICK t : t = SubSeq(text, 1 + 1, e[1] - 1)
      OBVIOUS
    <2>3. /\ out[1] = IF e[1] = 0 THEN <<text[1]>> ELSE IF t \in D THEN by[t] ELSE <<open>> \o t \o <<close>>
          /\ next[1] = IF e[1] = 0 THEN 1 + 1 ELSE e[1] + 1
      BY <1>1, <1>7, <1>8, <2>1, <2>2 DEF Rewritten, Skipped
    <2>4. CASE e[1] = 0
      BY <1>3, <1>5, <2>3, <2>4 DEF Begins
    <2>5. CASE e[1] # 0
      BY <1>3, <1>5, <2>2, <2>3, <2>5 DEF Begins
    <2> QED
      BY <2>4, <2>5
  <1>16. Scanned(out, next) = Then(out[1], Scanned(rest, goes))
    <2>1. Remains(m, k, out, next, rest, goes)
      BY <1>14 DEF Remains
    <2> QED
      BY <1>3, <1>4, <1>11, <1>12, <1>15, <2>1, ScannedStep
  <1> QED
    BY <1>11, <1>12, <1>15, <1>16

\* The arguments of Rewrite, over the alphabet V.
Rewriting(V, open, close, D, by) == open \in V /\ close \in V /\ close \in Marks /\ by \in [D -> Seq(V)]

\* What is written is a text, and nothing for nothing.
LEMMA RewriteType ==
  ASSUME NEW V, NEW text \in Seq(V), NEW open, NEW close, NEW D, NEW by, Rewriting(V, open, close, D, by)
  PROVE  /\ Rewrite(text, open, close, by) \in Seq(V)
         /\ text = <<>> => Rewrite(text, open, close, by) = <<>>
  <1> open \in V /\ close \in V /\ close \in Marks /\ by \in [D -> Seq(V)]
    BY DEF Rewriting
  <1>1. PICK n \in Nat : n = Len(text) /\ DOMAIN text = 1..n
    BY LenIs, Zenon
  <1>2. PICK e : e = EndOf(text, open, close)
    OBVIOUS
  <1>3. PICK out : out = Rewritten(text, open, close, by, e)
    OBVIOUS
  <1>4. PICK next : next = Skipped(text, e)
    OBVIOUS
  <1>5. IsScan(V, n, out, next) /\ Len(out) = n /\ Rewrite(text, open, close, by) = Scanned(out, next)
    BY <1>1, <1>2, <1>3, <1>4, RewriteScans
  <1>6. Scanned(out, next) \in Seq(V) /\ (n = 0 => Scanned(out, next) = <<>>)
    BY <1>5, ScannedType
  <1>7. text = <<>> => n = 0
    BY <1>1
  <1> QED
    BY <1>5, <1>6, <1>7

\* A fragment that opens no name is written as it is.
LEMMA RewriteLiteral ==
  ASSUME NEW V, NEW c \in V, NEW x \in Seq(V), NEW open, NEW close, NEW D, NEW by,
         Rewriting(V, open, close, D, by), c # open
  PROVE  Rewrite(Then(<<c>>, x), open, close, by) = Then(<<c>>, Rewrite(x, open, close, by))
  <1> open \in V /\ close \in V /\ close \in Marks /\ by \in [D -> Seq(V)]
    BY DEF Rewriting
  <1>1. PICK a \in Seq(V) : a = <<c>>
    <2>1. <<c>> \in Seq(V)
      OBVIOUS
    <2> QED
      BY <2>1, Zenon
  <1>2. a # <<>> /\ Len(a) = 1
    BY <1>1
  <1>3. PICK text \in Seq(V) : text = Then(a, x)
    <2>1. Then(a, x) \in Seq(V)
      BY DEF Then
    <2> QED
      BY <2>1, Zenon
  <1>4. text[1] = c /\ 1 \in DOMAIN text
    BY <1>1, <1>3 DEF Then
  <1>5. EndOf(text, open, close)[1] = 0
    <2>1. \A j \in Nat : ~IsEnd(text, open, close, 1, j)
      BY <1>4 DEF IsEnd
    <2> QED
      BY <1>4, <2>1, EndIs
  <1>6. <<c>> = <<text[1]>>
    BY <1>4
  <1>7. Rewrite(text, open, close, by) = Then(a, Rewrite(x, open, close, by))
    <2>1. Begins(text, open, close, D, by, a, a)
      BY <1>1, <1>2, <1>5, <1>6 DEF Begins
    <2> QED
      BY <1>2, <1>3, <2>1, RewriteStep
  <1> QED
    BY <1>1, <1>3, <1>7

\* A name between its marks.
IsName(V, name) == name \in Seq(V) /\ name # <<>> /\ \A k \in DOMAIN name : name[k] \notin Marks
Marked(open, name, close) == <<open>> \o name \o <<close>>

\* It is replaced by what there is for the name.
LEMMA RewriteName ==
  ASSUME NEW V, NEW name, IsName(V, name), NEW x \in Seq(V), NEW open, NEW close, NEW D, NEW by,
         Rewriting(V, open, close, D, by), name \in D
  PROVE  Rewrite(Then(Marked(open, name, close), x), open, close, by) = Then(by[name], Rewrite(x, open, close, by))
  <1> open \in V /\ close \in V /\ close \in Marks /\ by \in [D -> Seq(V)]
    BY DEF Rewriting
  <1>1. PICK n \in Nat \ {0} : n = Len(name) /\ DOMAIN name = 1..n
    <2>1. name \in Seq(V) /\ name # <<>>
      BY DEF IsName
    <2>2. Len(name) \in Nat \ {0} /\ DOMAIN name = 1..Len(name)
      BY <2>1
    <2> QED
      BY <2>2, Zenon
  <1>2. PICK nm \in Seq(V) : nm = name /\ \A k \in 1..n : nm[k] \notin Marks
    BY <1>1, Zenon DEF IsName
  <1>3. PICK a \in Seq(V) : a = <<open>> \o nm \o <<close>>
    <2>1. <<open>> \o nm \o <<close>> \in Seq(V)
      OBVIOUS
    <2> QED
      BY <2>1, Zenon
  <1>4. Len(a) = n + 2 /\ a[1] = open /\ a[n + 2] = close /\ \A k \in 1..n : a[1 + k] = nm[k]
    BY <1>1, <1>2, <1>3
  <1>5. PICK text \in Seq(V) : text = Then(a, x)
    <2>1. Then(a, x) \in Seq(V)
      BY DEF Then
    <2> QED
      BY <2>1, Zenon
  <1>6. PICK m \in Nat : m = Len(text) /\ DOMAIN text = 1..m
    BY LenIs, Zenon
  <1>7. n + 2 <= m /\ \A k \in 1..n + 2 : text[k] = a[k]
    BY <1>4, <1>5, <1>6 DEF Then
  <1>8. PICK e \in Nat \ {0} : e = n + 2
    <2>1. n + 2 \in Nat \ {0}
      OBVIOUS
    <2> QED
      BY <2>1, Zenon
  <1>9. IsEnd(text, open, close, 1, e)
    <2>1. e \in 1 + 2..m /\ text[1] = open /\ text[e] = close
      BY <1>4, <1>7, <1>8
    <2>2. ASSUME NEW k \in 1 + 1..e - 1
          PROVE  text[k] \notin Marks
      <3>1. PICK l \in 1..n : k = 1 + l
        <4>1. k - 1 \in 1..n /\ k = 1 + (k - 1)
          BY <1>8, <2>2
        <4> QED
          BY <4>1, Zenon
      <3>2. k \in 1..n + 2
        BY <3>1
      <3>3. text[k] = nm[l]
        BY <1>4, <1>7, <3>1, <3>2
      <3> QED
        BY <1>2, <3>3
    <2> QED
      BY <1>6, <2>1, <2>2 DEF IsEnd
  <1>10. EndOf(text, open, close)[1] = e
    <2>1. 1 \in DOMAIN text
      BY <1>6, <1>7
    <2> QED
      BY <1>9, <2>1, EndIs
  <1>11. SubSeq(text, 1 + 1, e - 1) = nm
    <2>1. PICK s : s = SubSeq(text, 1 + 1, 1 + n)
      OBVIOUS
    <2>2. 1 + n <= Len(text) /\ 1 \in Nat
      BY <1>6, <1>7
    <2>3. IsPart(s, V, text, 1, n)
      BY <2>1, <2>2, SubSeqIs
    <2>4. s \in Seq(V) /\ Len(s) = n /\ \A k \in 1..n : s[k] = text[1 + k]
      BY <2>3 DEF IsPart
    <2>5. \A k \in 1..n : text[1 + k] = nm[k]
      BY <1>4, <1>7
    <2>6. s = nm
      <3>1. Len(nm) = n
        BY <1>1, <1>2
      <3>2. Agree(s, nm, n)
        BY <2>4, <2>5 DEF Agree
      <3> QED
        BY <2>4, <3>1, <3>2, SameSequence
    <2>7. e - 1 = 1 + n
      BY <1>8
    <2> QED
      BY <2>1, <2>6, <2>7
  <1>12. by[nm] \in Seq(V) /\ nm \in D
    BY <1>2
  <1>13. Rewrite(text, open, close, by) = Then(by[nm], Rewrite(x, open, close, by))
    <2>1. a # <<>> /\ Len(a) = e /\ e # 0
      BY <1>4, <1>8
    <2>2. Begins(text, open, close, D, by, a, by[nm])
      BY <1>10, <1>11, <1>12, <2>1 DEF Begins
    <2> QED
      BY <1>5, <1>12, <2>1, <2>2, RewriteStep
  <1> QED
    BY <1>2, <1>3, <1>5, <1>13 DEF Marked
-----------------------------------------------------------------------------
\* A text without this mark.
Without(text, mark) == \A k \in DOMAIN text : text[k] # mark

\* One text after another is a text; nothing adds nothing; the order of joining does not matter.
LEMMA ThenType == ASSUME NEW V, NEW a \in Seq(V), NEW b \in Seq(V) PROVE Then(a, b) \in Seq(V)
  BY DEF Then

\* Nothing before or after a text leaves it as it is.
LEMMA ThenNothing == ASSUME NEW V, NEW x \in Seq(V) PROVE Then(<<>>, x) = x /\ Then(x, <<>>) = x
  BY DEF Then

\* Texts can be put together in any grouping.
LEMMA ThenThen ==
  ASSUME NEW V, NEW a \in Seq(V), NEW b \in Seq(V), NEW x \in Seq(V)
  PROVE  Then(Then(a, b), x) = Then(a, Then(b, x))
  BY DEF Then

\* A text of one fragment.
LEMMA One ==
  ASSUME NEW V, NEW c \in V
  PROVE  \E a \in Seq(V) : a = <<c>> /\ a # <<>> /\ Len(a) = 1 /\ a[1] = c /\ DOMAIN a = 1..1
  <1>1. PICK a : a = <<c>>
    OBVIOUS
  <1>2. a \in Seq(V) /\ a # <<>> /\ Len(a) = 1 /\ a[1] = c /\ DOMAIN a = 1..1
    BY <1>1
  <1> QED
    BY <1>1, <1>2, Zenon

\* The head and the tail of a text without a mark are without it.
LEMMA WithoutSplit ==
  ASSUME NEW V, NEW c \in V, NEW s \in Seq(V), NEW mark
  PROVE  Without(Then(<<c>>, s), mark) <=> c # mark /\ Without(s, mark)
  <1>1. PICK n \in Nat : n = Len(s) /\ DOMAIN s = 1..n
    BY LenIs, Zenon
  <1>2. PICK t \in Seq(V) : t = Then(<<c>>, s)
    BY One, ThenType, Zenon
  <1>3. DOMAIN t = 1..n + 1 /\ t[1] = c /\ \A k \in 1..n : t[k + 1] = s[k]
    BY <1>1, <1>2 DEF Then
  <1>4. \A k \in 1..n + 1 : k # 1 => \E l \in 1..n : k = l + 1
    <2>1. \A k \in 1..n + 1 : k # 1 => k - 1 \in 1..n /\ k = (k - 1) + 1
      OBVIOUS
    <2> QED
      BY <2>1, Zenon
  <1>5. \A l \in 1..n : l + 1 \in 1..n + 1
    OBVIOUS
  <1>6. 1 \in 1..n + 1
    OBVIOUS
  <1>7. ASSUME Without(t, mark) PROVE c # mark /\ Without(s, mark)
    BY <1>1, <1>3, <1>5, <1>6, <1>7 DEF Without
  <1>8. ASSUME c # mark, Without(s, mark) PROVE Without(t, mark)
    BY <1>1, <1>3, <1>4, <1>8, SMTT(30) DEF Without
  <1> QED
    BY <1>2, <1>7, <1>8

\* A part in which no name is opened is written as it is.
LEMMA RewritePlain ==
  ASSUME NEW V, NEW x \in Seq(V), NEW open, NEW close, NEW D, NEW by, Rewriting(V, open, close, D, by)
  PROVE  \A p \in Seq(V) : Without(p, open) =>
           Rewrite(Then(p, x), open, close, by) = Then(p, Rewrite(x, open, close, by))
  <1> open \in V /\ close \in V /\ close \in Marks /\ by \in [D -> Seq(V)]
    BY DEF Rewriting
  <1> DEFINE S == {p \in Seq(V) : Without(p, open) =>
                     Rewrite(Then(p, x), open, close, by) = Then(p, Rewrite(x, open, close, by))}
  <1>0. Rewrite(x, open, close, by) \in Seq(V)
    BY RewriteType
  <1>a. \A a, b, y \in Seq(V) : Then(Then(a, b), y) = Then(a, Then(b, y))
    BY ThenThen
  <1>b. \A a, b \in Seq(V) : Then(a, b) \in Seq(V)
    BY ThenType
  <1>1. <<>> \in S
    <2>1. <<>> \in Seq(V)
      OBVIOUS
    <2>2. Then(<<>>, x) = x
      BY ThenNothing, Zenon
    <2>3. Then(<<>>, Rewrite(x, open, close, by)) = Rewrite(x, open, close, by)
      BY <1>0, ThenNothing, Zenon
    <2> QED
      BY <2>1, <2>2, <2>3, Zenon
  <1>2. ASSUME NEW p \in Seq(V), NEW c \in V, p \in S
        PROVE  <<c>> \o p \in S
    <2>1. PICK a \in Seq(V) : a = <<c>>
      BY One, Zenon
    <2>2. PICK q \in Seq(V) : q = Then(a, p)
      BY <2>1, ThenType, Zenon
    <2>3. ASSUME Without(q, open)
          PROVE  Rewrite(Then(q, x), open, close, by) = Then(q, Rewrite(x, open, close, by))
      <3>1. c # open /\ Without(p, open)
        BY <2>1, <2>2, <2>3, WithoutSplit
      <3>2. Then(q, x) = Then(a, Then(p, x)) /\ Then(p, x) \in Seq(V)
        BY <1>a, <1>b, <2>2
      <3>3. Rewrite(Then(a, Then(p, x)), open, close, by) = Then(a, Rewrite(Then(p, x), open, close, by))
        BY <2>1, <3>1, <3>2, RewriteLiteral
      <3>4. Rewrite(Then(p, x), open, close, by) = Then(p, Rewrite(x, open, close, by))
        BY <1>2, <3>1
      <3>5. Then(q, Rewrite(x, open, close, by)) = Then(a, Then(p, Rewrite(x, open, close, by)))
        <4>1. PICK y \in Seq(V) : y = Rewrite(x, open, close, by)
          BY <1>0, Zenon
        <4>2. Then(Then(a, p), y) = Then(a, Then(p, y))
          BY ThenThen
        <4> QED
          BY <2>2, <4>1, <4>2, Zenon
      <3> QED
        BY <3>2, <3>3, <3>4, <3>5
    <2>4. q = <<c>> \o p
      BY <2>1, <2>2 DEF Then
    <2> QED
      BY <2>2, <2>3, <2>4
  <1>3. Seq(V) \subseteq S
    <2> HIDE DEF S
    <2> QED
      BY <1>1, <1>2, ConsInduction
  <1> QED
    BY <1>3

\* How one unit of a text is rewritten: it opens no name, or is a name that is known.
Reads(V, from, to, open, close, D, by) ==
  \/ from \in Seq(V) /\ Without(from, open) /\ to = from
  \/ \E name \in D : IsName(V, name) /\ from = Marked(open, name, close) /\ to = by[name]

\* Two renderings of units that are read so.
AllRead(V, U, f, g, open, close, D, by) ==
  f \in [U -> Seq(V)] /\ g \in [U -> Seq(V)] /\ \A u \in U : Reads(V, f[u], g[u], open, close, D, by)

\* A text is rewritten unit by unit.
LEMMA RewriteUnits ==
  ASSUME NEW V, NEW open, NEW close, NEW D, NEW by, Rewriting(V, open, close, D, by),
         NEW U, NEW f, NEW g, AllRead(V, U, f, g, open, close, D, by)
  PROVE  \A us \in Seq(U) : Rewrite(FlatMap(f, us), open, close, by) = FlatMap(g, us)
  <1> open \in V /\ close \in V /\ close \in Marks /\ by \in [D -> Seq(V)]
    BY DEF Rewriting
  <1> /\ f \in [U -> Seq(V)] /\ g \in [U -> Seq(V)]
      /\ \A u \in U : Reads(V, f[u], g[u], open, close, D, by)
    BY DEF AllRead
  <1> DEFINE S == {us \in Seq(U) : Rewrite(FlatMap(f, us), open, close, by) = FlatMap(g, us)}
  <1>1. <<>> \in S
    <2>1. <<>> \in Seq(U) /\ <<>> \in Seq(V)
      OBVIOUS
    <2>2. Rewrite(<<>>, open, close, by) = <<>>
      BY <2>1, RewriteType
    <2> QED
      BY <2>1, <2>2, FlatMapEmpty
  <1>2. ASSUME NEW us \in Seq(U), NEW u \in U, us \in S
        PROVE  <<u>> \o us \in S
    <2>1. PICK vs \in Seq(U) : vs = <<u>> \o us
      <3>1. <<u>> \o us \in Seq(U)
        OBVIOUS
      <3> QED
        BY <3>1, Zenon
    <2>2. FlatMap(f, vs) = Then(f[u], FlatMap(f, us)) /\ FlatMap(g, vs) = Then(g[u], FlatMap(g, us))
      <3>1. FlatMap(f, <<u>> \o us) = f[u] \o FlatMap(f, us)
        BY FlatMapCons, ZenonT(60)
      <3>2. FlatMap(g, <<u>> \o us) = g[u] \o FlatMap(g, us)
        BY FlatMapCons, ZenonT(60)
      <3> QED
        BY <2>1, <3>1, <3>2, Zenon DEF Then
    <2>3. PICK x \in Seq(V) : x = FlatMap(f, us)
      BY FlatMapIs
    <2>4. Rewrite(x, open, close, by) = FlatMap(g, us)
      BY <1>2, <2>3
    <2>5. Rewrite(Then(f[u], x), open, close, by) = Then(g[u], Rewrite(x, open, close, by))
      <3>1. CASE f[u] \in Seq(V) /\ Without(f[u], open) /\ g[u] = f[u]
        BY <3>1, RewritePlain
      <3>2. CASE \E name \in D : IsName(V, name) /\ f[u] = Marked(open, name, close) /\ g[u] = by[name]
        <4>1. PICK name \in D : IsName(V, name) /\ f[u] = Marked(open, name, close) /\ g[u] = by[name]
          BY <3>2
        <4>2. Rewrite(Then(Marked(open, name, close), x), open, close, by) = Then(by[name], Rewrite(x, open, close, by))
          BY <4>1, RewriteName
        <4> QED
          BY <4>1, <4>2, Zenon
      <3> QED
        BY <3>1, <3>2 DEF Reads
    <2> QED
      BY <2>1, <2>2, <2>3, <2>4, <2>5
  <1>3. Seq(U) \subseteq S
    <2> HIDE DEF S
    <2> QED
      BY <1>1, <1>2, ConsInduction
  <1> QED
    BY <1>3
-----------------------------------------------------------------------------
\* The arguments of Replace, and what it does, in terms of Then.
Replacing(V, part, by) == part \in Seq(V) /\ part # <<>> /\ by \in Seq(V)

\* The result is a text; nothing is found in an empty one.
LEMMA ReplaceType ==
  ASSUME NEW V, NEW part, NEW by, Replacing(V, part, by), NEW x \in Seq(V)
  PROVE  Replace(x, part, by) \in Seq(V) /\ Replace(<<>>, part, by) = <<>>
  BY ReplaceIs DEF Replacing

\* A part at the beginning is replaced, and the rest is read on its own.
LEMMA ReplaceFirst ==
  ASSUME NEW V, NEW part, NEW by, Replacing(V, part, by), NEW x \in Seq(V)
  PROVE  Replace(Then(part, x), part, by) = Then(by, Replace(x, part, by))
  BY ReplaceIs DEF Replacing

\* A fragment where the part does not begin stays, and the rest is read on its own.
LEMMA ReplaceLater ==
  ASSUME NEW V, NEW part, NEW by, Replacing(V, part, by), NEW x \in Seq(V), NEW c \in V,
         ~Occurs(part, Then(<<c>>, x), 1)
  PROVE  Replace(Then(<<c>>, x), part, by) = Then(<<c>>, Replace(x, part, by))
  <1>1. part \in Seq(V) /\ part # <<>> /\ by \in Seq(V)
    BY DEF Replacing
  <1> QED
    BY <1>1, ReplaceBefore

\* Where a part occurs in what follows a fragment.
LEMMA OccursTail ==
  ASSUME NEW V, NEW part \in Seq(V), NEW c \in V, NEW x \in Seq(V), NEW i \in Nat, i # 0
  PROVE  Occurs(part, Then(<<c>>, x), i + 1) <=> Occurs(part, x, i)
  <1>1. PICK a \in Seq(V) : a = <<c>> /\ Len(a) = 1
    BY One
  <1>2. Occurs(part, a \o x, Len(a) + i) <=> Occurs(part, x, i)
    BY OccursLater
  <1>3. Len(a) + i = i + 1
    BY <1>1
  <1> QED
    BY <1>1, <1>2, <1>3, Zenon DEF Then

\* A part occurs in a text at its beginning or behind it.
LEMMA WithinTail ==
  ASSUME NEW V, NEW part \in Seq(V), part # <<>>, NEW c \in V, NEW x \in Seq(V)
  PROVE  Within(Then(<<c>>, x), part) <=> Occurs(part, Then(<<c>>, x), 1) \/ Within(x, part)
  <1>1. PICK n \in Nat : n = Len(x) /\ DOMAIN x = 1..n
    BY LenIs, Zenon
  <1>2. PICK t \in Seq(V) : t = Then(<<c>>, x)
    BY One, ThenType, Zenon
  <1>3. DOMAIN t = 1..n + 1
    BY <1>1, <1>2 DEF Then
  <1>4. \A i \in 1..n : Occurs(part, t, i + 1) <=> Occurs(part, x, i)
    BY <1>2, OccursTail
  <1>5. ASSUME NEW i \in 1..n + 1, Occurs(part, t, i), i # 1
        PROVE  Within(x, part)
    <2>1. PICK l \in 1..n : i = l + 1
      <3>1. i - 1 \in 1..n /\ i = (i - 1) + 1
        BY <1>5
      <3> QED
        BY <3>1, Zenon
    <2>2. Occurs(part, x, l)
      BY <1>4, <1>5, <2>1
    <2> QED
      BY <1>1, <2>2 DEF Within
  <1>6. ASSUME NEW i \in 1..n, Occurs(part, x, i)
        PROVE  Within(t, part)
    <2>1. i + 1 \in 1..n + 1 /\ Occurs(part, t, i + 1)
      BY <1>4, <1>6
    <2> QED
      BY <1>3, <2>1 DEF Within
  <1>7. 1 \in 1..n + 1
    OBVIOUS
  <1>8. Within(t, part) => Occurs(part, t, 1) \/ Within(x, part)
    BY <1>3, <1>5 DEF Within
  <1>9. Occurs(part, t, 1) \/ Within(x, part) => Within(t, part)
    BY <1>1, <1>3, <1>6, <1>7 DEF Within
  <1> QED
    BY <1>2, <1>8, <1>9

\* The beginning of a text without a mark is without it.
LEMMA WithoutFirst ==
  ASSUME NEW V, NEW a \in Seq(V), NEW x \in Seq(V), NEW mark, Without(Then(a, x), mark)
  PROVE  Without(a, mark)
  <1>1. PICK n \in Nat, m \in Nat : n = Len(a) /\ DOMAIN a = 1..n /\ m = Len(x)
    BY LenIs
  <1>2. PICK t \in Seq(V) : t = a \o x
    <2>1. a \o x \in Seq(V)
      OBVIOUS
    <2> QED
      BY <2>1, Zenon
  <1>3. DOMAIN t = 1..n + m /\ \A k \in 1..n : t[k] = a[k]
    BY <1>1, <1>2
  <1>4. \A k \in 1..n : k \in 1..n + m
    OBVIOUS
  <1> QED
    BY <1>1, <1>2, <1>3, <1>4 DEF Then, Without

\* If what comes in has a mark, a text that comes out without it is the text that went in,
\* and the part is not in it.
LEMMA ReplaceMarks ==
  ASSUME NEW V, NEW part, NEW by, Replacing(V, part, by), NEW mark, ~Without(by, mark)
  PROVE  \A x \in Seq(V) : Without(Replace(x, part, by), mark) =>
           Replace(x, part, by) = x /\ ~Within(x, part)
  <1> DEFINE S == {x \in Seq(V) : Without(Replace(x, part, by), mark) =>
                     Replace(x, part, by) = x /\ ~Within(x, part)}
  <1> part \in Seq(V) /\ part # <<>> /\ by \in Seq(V)
    BY DEF Replacing
  <1>1. <<>> \in S
    <2>1. <<>> \in Seq(V)
      OBVIOUS
    <2>2. ~Within(<<>>, part)
      BY DEF Within
    <2> QED
      BY <2>1, <2>2, ReplaceType
  <1>2. ASSUME NEW x \in Seq(V), NEW c \in V, x \in S
        PROVE  <<c>> \o x \in S
    <2>1. PICK t \in Seq(V) : t = Then(<<c>>, x)
      BY One, ThenType, Zenon
    <2>2. ASSUME Without(Replace(t, part, by), mark)
          PROVE  Replace(t, part, by) = t /\ ~Within(t, part)
      <3>1. ~Occurs(part, t, 1)
        <4>1. SUFFICES ASSUME Occurs(part, t, 1) PROVE FALSE
          OBVIOUS
        <4>3. PICK y \in Seq(V) : t = Then(part, y)
          BY <4>1, OccursFirst
        <4>4. Replace(t, part, by) = Then(by, Replace(y, part, by)) /\ Replace(y, part, by) \in Seq(V)
          BY <4>3, ReplaceFirst, ReplaceType
        <4> QED
          BY <2>2, <4>4, WithoutFirst
      <3>2. Replace(t, part, by) = Then(<<c>>, Replace(x, part, by)) /\ Replace(x, part, by) \in Seq(V)
        BY <2>1, <3>1, ReplaceLater, ReplaceType
      <3>3. Without(Replace(x, part, by), mark)
        BY <2>2, <3>2, WithoutSplit
      <3>4. Replace(x, part, by) = x /\ ~Within(x, part)
        BY <1>2, <3>3
      <3>5. ~Within(t, part)
        BY <2>1, <3>1, <3>4, WithinTail
      <3> QED
        BY <2>1, <3>2, <3>4, <3>5
    <2>3. t = <<c>> \o x
      BY <2>1 DEF Then
    <2> QED
      BY <2>1, <2>2, <2>3
  <1>3. Seq(V) \subseteq S
    <2> HIDE DEF S
    <2> QED
      BY <1>1, <1>2, ConsInduction
  <1> QED
    BY <1>3

\* A beginning in which the part does not begin stays as it is.
LEMMA ReplaceSkips ==
  ASSUME NEW V, NEW part, NEW by, Replacing(V, part, by), NEW y \in Seq(V)
  PROVE  \A p \in Seq(V) : (\A i \in DOMAIN p : ~Occurs(part, Then(p, y), i)) =>
           Replace(Then(p, y), part, by) = Then(p, Replace(y, part, by))
  <1> DEFINE S == {p \in Seq(V) : (\A i \in DOMAIN p : ~Occurs(part, Then(p, y), i)) =>
                     Replace(Then(p, y), part, by) = Then(p, Replace(y, part, by))}
  <1> part \in Seq(V) /\ part # <<>> /\ by \in Seq(V)
    BY DEF Replacing
  <1>0. Replace(y, part, by) \in Seq(V)
    BY ReplaceType
  <1>a. \A a, b, z \in Seq(V) : Then(Then(a, b), z) = Then(a, Then(b, z))
    BY ThenThen
  <1>b. \A a, b \in Seq(V) : Then(a, b) \in Seq(V)
    BY ThenType
  <1>1. <<>> \in S
    <2>1. <<>> \in Seq(V)
      OBVIOUS
    <2>2. Then(<<>>, y) = y
      BY ThenNothing, Zenon
    <2>3. Then(<<>>, Replace(y, part, by)) = Replace(y, part, by)
      BY <1>0, ThenNothing, Zenon
    <2> QED
      BY <2>1, <2>2, <2>3, Zenon
  <1>2. ASSUME NEW p \in Seq(V), NEW c \in V, p \in S
        PROVE  <<c>> \o p \in S
    <2>1. PICK a \in Seq(V) : a = <<c>>
      BY One, Zenon
    <2>2. PICK q \in Seq(V) : q = Then(a, p)
      BY <1>b
    <2>3. ASSUME \A i \in DOMAIN q : ~Occurs(part, Then(q, y), i)
          PROVE  Replace(Then(q, y), part, by) = Then(q, Replace(y, part, by))
      <3>1. PICK n \in Nat : n = Len(p) /\ DOMAIN p = 1..n
        BY LenIs, Zenon
      <3>2. DOMAIN q = 1..n + 1
        BY <2>1, <2>2, <3>1 DEF Then
      <3>3. PICK x \in Seq(V) : x = Then(p, y)
        BY <1>b
      <3>4. Then(q, y) = Then(a, x)
        BY <1>a, <2>2, <3>3
      <3>5. ~Occurs(part, Then(a, x), 1)
        <4>1. 1 \in 1..n + 1
          OBVIOUS
        <4> QED
          BY <2>3, <3>2, <3>4, <4>1
      <3>6. ASSUME NEW i \in 1..n
            PROVE  ~Occurs(part, x, i)
        <4>1. i + 1 \in 1..n + 1
          OBVIOUS
        <4>2. ~Occurs(part, Then(a, x), i + 1)
          BY <2>3, <3>2, <3>4, <4>1
        <4> QED
          BY <2>1, <4>2, OccursTail
      <3>7. Replace(x, part, by) = Then(p, Replace(y, part, by))
        BY <1>2, <3>1, <3>3, <3>6
      <3>8. Replace(Then(a, x), part, by) = Then(a, Replace(x, part, by))
        BY <2>1, <3>5, ReplaceLater
      <3>9. Then(q, Replace(y, part, by)) = Then(a, Then(p, Replace(y, part, by)))
        BY <1>0, <1>a, <2>2
      <3> QED
        BY <3>4, <3>7, <3>8, <3>9
    <2>4. q = <<c>> \o p
      BY <2>1, <2>2 DEF Then
    <2> QED
      BY <2>2, <2>3, <2>4
  <1>3. Seq(V) \subseteq S
    <2> HIDE DEF S
    <2> QED
      BY <1>1, <1>2, ConsInduction
  <1> QED
    BY <1>3
-----------------------------------------------------------------------------
\* FlatMapCons and HeadAndTail in terms of Then.
LEMMA FlatMapThen ==
  ASSUME NEW U, NEW V, NEW f \in [U -> Seq(V)], NEW s \in Seq(U), NEW u \in U
  PROVE  FlatMap(f, Then(<<u>>, s)) = Then(f[u], FlatMap(f, s))
  <1>1. FlatMap(f, <<u>> \o s) = f[u] \o FlatMap(f, s)
    BY FlatMapCons
  <1> QED
    BY <1>1, Zenon DEF Then

\* The type alone.
LEMMA FlatMapType ==
  ASSUME NEW U, NEW V, NEW f \in [U -> Seq(V)], NEW s \in Seq(U)
  PROVE  FlatMap(f, s) \in Seq(V)
  BY FlatMapIs

\* A sequence that is not empty has a first element.
LEMMA HeadThen ==
  ASSUME NEW V, NEW s \in Seq(V), s # <<>>
  PROVE  \E v \in V, t \in Seq(V) : s = Then(<<v>>, t) /\ Len(t) + 1 = Len(s)
  <1>1. PICK v \in V, t \in Seq(V) : s = <<v>> \o t /\ Len(t) + 1 = Len(s)
    BY HeadAndTail
  <1>2. s = Then(<<v>>, t)
    BY <1>1, Zenon DEF Then
  <1> QED
    BY <1>1, <1>2

\* Texts that are the same have the same first fragment and the same rest.
LEMMA ConsSame ==
  ASSUME NEW V, NEW c \in V, NEW d \in V, NEW a \in Seq(V), NEW b \in Seq(V),
         Then(<<c>>, a) = Then(<<d>>, b)
  PROVE  c = d /\ a = b
  <1>1. \A e \in V : \A s \in Seq(V) :
          /\ Len(<<e>> \o s) = Len(s) + 1 /\ (<<e>> \o s)[1] = e
          /\ \A k \in 1..Len(s) : (<<e>> \o s)[k + 1] = s[k]
    OBVIOUS
  <1>2. <<c>> \o a = <<d>> \o b
    BY Zenon DEF Then
  <1>3. PICK n \in Nat : n = Len(a) /\ DOMAIN a = 1..n
    BY LenIs, Zenon
  <1>4. PICK t : t = <<c>> \o a
    OBVIOUS
  <1>5. Len(t) = n + 1 /\ t[1] = c /\ \A k \in 1..n : t[k + 1] = a[k]
    BY <1>1, <1>3, <1>4
  <1>6. Len(t) = Len(b) + 1 /\ t[1] = d /\ \A k \in 1..Len(b) : t[k + 1] = b[k]
    BY <1>1, <1>2, <1>4
  <1>7. Len(b) \in Nat
    OBVIOUS
  <1>8. Len(b) = n
    BY <1>5, <1>6, <1>7
  <1>9. Agree(a, b, n)
    BY <1>5, <1>6, <1>8 DEF Agree
  <1> QED
    BY <1>3, <1>5, <1>6, <1>8, <1>9, SameSequence

\* A name with marks around it begins with the first mark.
LEMMA MarkedFirst ==
  ASSUME NEW V, NEW open \in V, NEW close \in V, NEW name \in Seq(V)
  PROVE  \E s \in Seq(V) : Marked(open, name, close) = Then(<<open>>, s)
  <1>1. PICK s \in Seq(V) : s = name \o <<close>>
    <2>1. name \o <<close>> \in Seq(V)
      OBVIOUS
    <2> QED
      BY <2>1, Zenon
  <1>2. Marked(open, name, close) = <<open>> \o s
    BY <1>1 DEF Marked
  <1> QED
    BY <1>2, Zenon DEF Then
-----------------------------------------------------------------------------
\* Units of a text that are rendered in two ways: a fragment that is the same in both, or a
\* name in marks where the other has a value. Part, which is the value of one of them, has
\* no marks and is not within a name.
Exchanges(V, U, H, W, open, close, part, by) ==
  /\ H \in [U -> Seq(V)] /\ W \in [U -> Seq(V)] /\ open \in V /\ close \in V
  /\ \A u \in U : \/ \E c \in V : H[u] = <<c>> /\ W[u] = <<c>>
                  \/ \E name \in Seq(V) : H[u] = Marked(open, name, close) /\ ~Within(name, part)
  /\ part \in Seq(V) /\ part # <<>> /\ Without(part, open) /\ Without(part, close)
  /\ by \in Seq(V) /\ \E u \in U : H[u] = by /\ W[u] = part

\* What follows p in a text that begins with it.
Follows(V, U, H, W, p, y, us, rest) ==
  /\ rest \in Seq(U) /\ FlatMap(H, rest) = y
  /\ FlatMap(W, us) = Then(p, FlatMap(W, rest))
  /\ Len(rest) <= Len(us) /\ (p # <<>> => Len(rest) < Len(us))

\* A text without the mark at the beginning of the first rendering is there in both, and
\* consists of units.
LEMMA SplitPlain ==
  ASSUME NEW V, NEW U, NEW H, NEW W, NEW open, NEW close, NEW part, NEW by,
         Exchanges(V, U, H, W, open, close, part, by), NEW y \in Seq(V)
  PROVE  \A p \in Seq(V) : Without(p, open) =>
           \A us \in Seq(U) : FlatMap(H, us) = Then(p, y) => \E rest : Follows(V, U, H, W, p, y, us, rest)
  <1> DEFINE Q(p, us) == FlatMap(H, us) = Then(p, y) => \E rest : Follows(V, U, H, W, p, y, us, rest)
             S == {p \in Seq(V) : Without(p, open) => \A us \in Seq(U) : Q(p, us)}
  <1> H \in [U -> Seq(V)] /\ W \in [U -> Seq(V)] /\ open \in V /\ close \in V
    BY DEF Exchanges
  <1>1. <<>> \in S
    <2>1. <<>> \in Seq(V)
      OBVIOUS
    <2>2. ASSUME NEW us \in Seq(U), FlatMap(H, us) = Then(<<>>, y)
          PROVE  Follows(V, U, H, W, <<>>, y, us, us)
      <3>1. FlatMap(H, us) = y
        BY <2>2, ThenNothing
      <3>2. FlatMap(W, us) \in Seq(V)
        BY FlatMapType
      <3>3. FlatMap(W, us) = Then(<<>>, FlatMap(W, us))
        BY <3>2, ThenNothing
      <3>4. Len(us) \in Nat
        OBVIOUS
      <3> QED
        BY <3>1, <3>3, <3>4 DEF Follows
    <2> QED
      BY <2>1, <2>2
  <1>2. ASSUME NEW p \in Seq(V), NEW c \in V, p \in S
        PROVE  <<c>> \o p \in S
    <2>1. PICK q \in Seq(V) : q = Then(<<c>>, p)
      BY One, ThenType, Zenon
    <2>2. ASSUME Without(q, open), NEW us \in Seq(U), FlatMap(H, us) = Then(q, y)
          PROVE  \E rest : Follows(V, U, H, W, q, y, us, rest)
      <3>1. c # open /\ Without(p, open)
        BY <2>1, <2>2, WithoutSplit
      <3>2. PICK x \in Seq(V) : x = Then(p, y)
        BY ThenType
      <3>3. FlatMap(H, us) = Then(<<c>>, x)
        <4>1. PICK a \in Seq(V) : a = <<c>>
          BY One, Zenon
        <4>2. Then(Then(a, p), y) = Then(a, Then(p, y))
          BY ThenThen
        <4> QED
          BY <2>1, <2>2, <3>2, <4>1, <4>2
      <3>4. us # <<>>
        <4>1. FlatMap(H, <<>>) = <<>>
          BY FlatMapEmpty
        <4>2. <<c>> \o x # <<>>
          OBVIOUS
        <4>3. Then(<<c>>, x) # <<>>
          BY <4>2, Zenon DEF Then
        <4> QED
          BY <3>3, <4>1, <4>3
      <3>5. PICK u \in U, ut \in Seq(U) : us = Then(<<u>>, ut) /\ Len(ut) + 1 = Len(us)
        BY <3>4, HeadThen
      <3>6. FlatMap(H, us) = Then(H[u], FlatMap(H, ut)) /\ FlatMap(W, us) = Then(W[u], FlatMap(W, ut))
        BY <3>5, FlatMapThen, ZenonT(60)
      <3>7. FlatMap(H, ut) \in Seq(V) /\ FlatMap(W, ut) \in Seq(V)
        BY FlatMapType
      <3>8. H[u] = <<c>> /\ W[u] = <<c>> /\ FlatMap(H, ut) = x
        <4>1. CASE \E d \in V : H[u] = <<d>> /\ W[u] = <<d>>
          <5>1. PICK d \in V : H[u] = <<d>> /\ W[u] = <<d>>
            BY <4>1
          <5>2. Then(<<d>>, FlatMap(H, ut)) = Then(<<c>>, x)
            BY <3>3, <3>6, <5>1
          <5>3. d = c /\ FlatMap(H, ut) = x
            BY <3>7, <5>2, ConsSame
          <5> QED
            BY <5>1, <5>3
        <4>2. CASE \E name \in Seq(V) : H[u] = Marked(open, name, close)
          <5>1. PICK name \in Seq(V) : H[u] = Marked(open, name, close)
            BY <4>2
          <5>2. PICK s \in Seq(V) : H[u] = Then(<<open>>, s)
            <6>1. PICK s \in Seq(V) : Marked(open, name, close) = Then(<<open>>, s)
              BY MarkedFirst
            <6> QED
              BY <5>1, <6>1
          <5>3. PICK o \in Seq(V) : o = <<open>>
            BY One, Zenon
          <5>4. Then(Then(o, s), FlatMap(H, ut)) = Then(o, Then(s, FlatMap(H, ut)))
            BY <3>7, ThenThen
          <5>5. Then(s, FlatMap(H, ut)) \in Seq(V)
            BY <3>7, ThenType
          <5>6. Then(<<open>>, Then(s, FlatMap(H, ut))) = Then(<<c>>, x)
            BY <3>3, <3>6, <5>2, <5>3, <5>4
          <5>7. open = c
            BY <5>5, <5>6, ConsSame
          <5> QED
            BY <3>1, <5>7
        <4> QED
          BY <4>1, <4>2 DEF Exchanges
      <3>9. PICK rest : Follows(V, U, H, W, p, y, ut, rest)
        BY <1>2, <3>1, <3>2, <3>8
      <3>10. FlatMap(W, us) = Then(q, FlatMap(W, rest))
        <4>1. PICK a \in Seq(V) : a = <<c>>
          BY One, Zenon
        <4>2. rest \in Seq(U) /\ FlatMap(W, ut) = Then(p, FlatMap(W, rest))
          BY <3>9 DEF Follows
        <4>3. FlatMap(W, rest) \in Seq(V)
          BY <4>2, FlatMapType
        <4>4. Then(Then(a, p), FlatMap(W, rest)) = Then(a, Then(p, FlatMap(W, rest)))
          BY <4>3, ThenThen
        <4> QED
          BY <2>1, <3>6, <3>8, <4>1, <4>2, <4>4
      <3>11. Len(rest) < Len(us) /\ Len(rest) <= Len(us)
        <4>1. rest \in Seq(U) /\ Len(rest) <= Len(ut)
          BY <3>9 DEF Follows
        <4>2. Len(rest) \in Nat /\ Len(ut) \in Nat /\ Len(us) \in Nat
          BY <4>1
        <4> QED
          BY <3>5, <4>1, <4>2
      <3> QED
        BY <3>9, <3>10, <3>11 DEF Follows
    <2>3. q = <<c>> \o p
      BY <2>1, Zenon DEF Then
    <2> QED
      BY <2>1, <2>2, <2>3
  <1>3. Seq(V) \subseteq S
    <2> HIDE DEF S
    <2> QED
      BY <1>1, <1>2, ConsInduction
  <1> QED
    BY <1>3

\* In a name with marks no part begins that has no marks and is not within the name.
LEMMA NotInMarked ==
  ASSUME NEW V, NEW open \in V, NEW close \in V, NEW name \in Seq(V), NEW part \in Seq(V), part # <<>>,
         Without(part, open), Without(part, close), ~Within(name, part), NEW y \in Seq(V), NEW m, NEW i,
         m = Marked(open, name, close), i \in DOMAIN m
  PROVE  ~Occurs(part, Then(m, y), i)
  <1>1. PICK n \in Nat : n = Len(name) /\ DOMAIN name = 1..n
    BY LenIs, Zenon
  <1>2. PICK p \in Nat : p = Len(part) /\ DOMAIN part = 1..p
    BY LenIs, Zenon
  <1>3. m \in Seq(V) /\ Len(m) = n + 2 /\ m[1] = open /\ m[n + 2] = close /\ \A k \in 1..n : m[k + 1] = name[k]
    <2>1. PICK s \in Seq(V) : s = name \o <<close>>
      <3>1. name \o <<close>> \in Seq(V)
        OBVIOUS
      <3> QED
        BY <3>1, Zenon
    <2>2. Len(s) = n + 1 /\ s[n + 1] = close /\ \A k \in 1..n : s[k] = name[k]
      BY <1>1, <2>1
    <2>3. m = <<open>> \o s
      BY <2>1 DEF Marked
    <2>4. \A k \in 1..n + 1 : m[k + 1] = s[k]
      BY <2>2, <2>3
    <2>5. m \in Seq(V) /\ Len(m) = n + 2 /\ m[1] = open
      BY <2>2, <2>3
    <2>6. n + 1 \in 1..n + 1 /\ (n + 1) + 1 = n + 2
      OBVIOUS
    <2>7. \A k \in 1..n : k \in 1..n + 1
      OBVIOUS
    <2> QED
      BY <2>2, <2>4, <2>5, <2>6, <2>7
  <1>4. p # 0
    BY <1>2
  <1>5. PICK t \in Seq(V) : t = Then(m, y)
    BY <1>3, ThenType
  <1>6. \A k \in 1..n + 2 : t[k] = m[k]
    <2>1. t = m \o y
      BY <1>5, Zenon DEF Then
    <2> QED
      BY <1>3, <2>1
  <1>7. PICK h \in Nat : h = i /\ 1 <= h /\ h <= n + 2
    <2>1. i \in 1..n + 2
      BY <1>3
    <2> QED
      BY <2>1
  <1>8. SUFFICES ASSUME Occurs(part, t, h) PROVE FALSE
    BY <1>5, <1>7
  <1>9. \A k \in 1..p : t[h + k - 1] = part[k]
    <2>1. h \in Nat \ {0}
      BY <1>7
    <2> QED
      BY <1>2, <1>8, <2>1, OccursAt
  <1>10. h # 1
    <2>1. SUFFICES ASSUME h = 1 PROVE FALSE
      OBVIOUS
    <2>2. 1 \in 1..p /\ 1 + 1 - 1 = 1 /\ 1 \in 1..n + 2
      BY <1>4
    <2>3. t[1] = part[1] /\ t[1] = open
      BY <1>3, <1>6, <1>9, <2>1, <2>2
    <2> QED
      BY <1>2, <2>2, <2>3 DEF Without
  <1>11. h + p - 1 < n + 2
    <2>1. SUFFICES ASSUME ~(h + p - 1 < n + 2) PROVE FALSE
      OBVIOUS
    <2>2. PICK k \in Nat : k = n + 3 - h
      BY <1>7
    <2>3. k \in 1..p /\ h + k - 1 = n + 2 /\ n + 2 \in 1..n + 2
      BY <1>7, <2>1, <2>2, SMTT(30)
    <2>4. t[n + 2] = part[k] /\ t[n + 2] = close
      BY <1>3, <1>6, <1>9, <2>3
    <2> QED
      BY <1>2, <2>3, <2>4 DEF Without
  <1>12. PICK g \in Nat : h = g + 1 /\ g # 0
    <2>1. h - 1 \in Nat /\ h = (h - 1) + 1 /\ h - 1 # 0
      BY <1>7, <1>10
    <2> QED
      BY <2>1
  <1>13. g \in 1..n /\ g + p - 1 <= n
    BY <1>4, <1>11, <1>12
  <1>14. \A k \in 1..p : name[g + k - 1] = part[k]
    <2>1. ASSUME NEW k \in 1..p
          PROVE  name[g + k - 1] = part[k]
      <3>1. PICK l \in Nat : l = g + k - 1
        BY <1>12
      <3>2. l \in 1..n /\ l + 1 = h + k - 1 /\ l + 1 \in 1..n + 2
        BY <1>12, <1>13, <3>1
      <3>3. t[l + 1] = part[k] /\ t[l + 1] = m[l + 1] /\ m[l + 1] = name[l]
        BY <1>3, <1>6, <1>9, <3>2
      <3> QED
        BY <3>1, <3>3
    <2> QED
      BY <2>1
  <1>15. Occurs(part, name, g)
    <2>1. g \in Nat \ {0}
      BY <1>12
    <2> QED
      BY <1>1, <1>2, <1>13, <1>14, <2>1, OccursAt
  <1> QED
    BY <1>1, <1>13, <1>15 DEF Within

\* Replacing a value where it stands alone by its name in marks gives a text that has the same
\* second rendering.
Exchanged(V, U, H, W, part, by, us, new) ==
  new \in Seq(U) /\ Replace(FlatMap(H, us), part, by) = FlatMap(H, new) /\ FlatMap(W, new) = FlatMap(W, us)

LEMMA ReplaceUnits ==
  ASSUME NEW V, NEW U, NEW H, NEW W, NEW open, NEW close, NEW part, NEW by,
         Exchanges(V, U, H, W, open, close, part, by), NEW goal \in Seq(U)
  PROVE  \E new : Exchanged(V, U, H, W, part, by, goal, new)
  <1> DEFINE N == {n \in Nat : \A us \in Seq(U) : Len(us) <= n => \E new : Exchanged(V, U, H, W, part, by, us, new)}
  <1> /\ H \in [U -> Seq(V)] /\ W \in [U -> Seq(V)] /\ open \in V /\ close \in V /\ part \in Seq(V)
      /\ part # <<>> /\ Without(part, open) /\ Without(part, close) /\ by \in Seq(V)
    BY DEF Exchanges
  <1>r. Replacing(V, part, by)
    BY DEF Replacing
  <1>0. Exchanged(V, U, H, W, part, by, <<>>, <<>>)
    <2>1. <<>> \in Seq(U) /\ <<>> \in Seq(V)
      OBVIOUS
    <2>2. FlatMap(H, <<>>) = <<>> /\ FlatMap(W, <<>>) = <<>>
      BY FlatMapEmpty
    <2>3. Replace(<<>>, part, by) = <<>>
      BY <1>r, <2>1, ReplaceType
    <2> QED
      BY <2>1, <2>2, <2>3 DEF Exchanged
  <1>1. 0 \in N
    <2>1. ASSUME NEW us \in Seq(U), Len(us) <= 0
          PROVE  us = <<>>
      <3>1. Len(us) = 0
        BY <2>1
      <3> QED
        BY <3>1
    <2> QED
      BY <1>0, <2>1
  <1>2. ASSUME NEW n \in Nat, n \in N
        PROVE  n + 1 \in N
    <2>1. ASSUME NEW us \in Seq(U), Len(us) <= n + 1, us # <<>>
          PROVE  \E new : Exchanged(V, U, H, W, part, by, us, new)
      <3>1. PICK x \in Seq(V) : x = FlatMap(H, us)
        BY FlatMapType
      <3>2. CASE Occurs(part, x, 1)
        <4>1. PICK y \in Seq(V) : x = Then(part, y)
          BY <3>2, OccursFirst
        <4>2. PICK rest : Follows(V, U, H, W, part, y, us, rest)
          BY <3>1, <4>1, SplitPlain
        <4>3. /\ rest \in Seq(U) /\ FlatMap(H, rest) = y /\ Len(rest) < Len(us)
              /\ FlatMap(W, us) = Then(part, FlatMap(W, rest))
          BY <4>2 DEF Follows
        <4>4. Len(rest) <= n
          <5>1. Len(rest) \in Nat /\ Len(us) \in Nat
            BY <4>3
          <5> QED
            BY <2>1, <4>3, <5>1
        <4>5. PICK new : Exchanged(V, U, H, W, part, by, rest, new)
          BY <1>2, <4>3, <4>4
        <4>6. PICK u \in U : H[u] = by /\ W[u] = part
          BY DEF Exchanges
        <4>7. /\ new \in Seq(U) /\ Replace(y, part, by) = FlatMap(H, new)
              /\ FlatMap(W, new) = FlatMap(W, rest)
          BY <4>3, <4>5 DEF Exchanged
        <4>8. PICK all \in Seq(U) : all = Then(<<u>>, new)
          BY <4>7, One, ThenType
        <4>9. FlatMap(H, all) = Then(by, FlatMap(H, new)) /\ FlatMap(W, all) = Then(part, FlatMap(W, new))
          BY <4>6, <4>7, <4>8, FlatMapThen, ZenonT(60)
        <4>10. Replace(x, part, by) = Then(by, Replace(y, part, by))
          BY <1>r, <4>1, ReplaceFirst
        <4>11. Exchanged(V, U, H, W, part, by, us, all)
          BY <3>1, <4>3, <4>7, <4>9, <4>10 DEF Exchanged
        <4> QED
          BY <4>11
      <3>3. CASE ~Occurs(part, x, 1)
        <4>1. PICK u \in U, ut \in Seq(U) : us = Then(<<u>>, ut) /\ Len(ut) + 1 = Len(us)
          BY <2>1, HeadThen
        <4>2. Len(ut) <= n
          <5>1. Len(ut) \in Nat /\ Len(us) \in Nat
            OBVIOUS
          <5> QED
            BY <2>1, <4>1, <5>1
        <4>3. FlatMap(H, us) = Then(H[u], FlatMap(H, ut)) /\ FlatMap(W, us) = Then(W[u], FlatMap(W, ut))
          <5>1. FlatMap(H, us) = Then(H[u], FlatMap(H, ut))
            BY <4>1, FlatMapThen, ZenonT(60)
          <5>2. FlatMap(W, us) = Then(W[u], FlatMap(W, ut))
            BY <4>1, FlatMapThen, ZenonT(60)
          <5> QED
            BY <5>1, <5>2
        <4>4. PICK z \in Seq(V) : z = FlatMap(H, ut)
          BY FlatMapType
        <4>5. PICK new : Exchanged(V, U, H, W, part, by, ut, new)
          BY <1>2, <4>2
        <4>6. /\ new \in Seq(U) /\ Replace(z, part, by) = FlatMap(H, new)
              /\ FlatMap(W, new) = FlatMap(W, ut)
          BY <4>4, <4>5 DEF Exchanged
        <4>7. PICK all \in Seq(U) : all = Then(<<u>>, new)
          BY <4>6, One, ThenType
        <4>8. FlatMap(H, all) = Then(H[u], FlatMap(H, new)) /\ FlatMap(W, all) = Then(W[u], FlatMap(W, new))
          BY <4>6, <4>7, FlatMapThen, ZenonT(60)
        <4>9. Replace(x, part, by) = Then(H[u], Replace(z, part, by))
          <5>1. CASE \E c \in V : H[u] = <<c>>
            <6>1. PICK c \in V : H[u] = <<c>>
              BY <5>1
            <6>2. x = Then(<<c>>, z)
              BY <3>1, <4>3, <4>4, <6>1
            <6> QED
              BY <1>r, <3>3, <6>1, <6>2, ReplaceLater
          <5>2. CASE \E name \in Seq(V) : H[u] = Marked(open, name, close) /\ ~Within(name, part)
            <6>1. PICK name \in Seq(V) : H[u] = Marked(open, name, close) /\ ~Within(name, part)
              BY <5>2
            <6>2. PICK m \in Seq(V) : m = H[u]
              OBVIOUS
            <6>3. \A i \in DOMAIN m : ~Occurs(part, Then(m, z), i)
              BY <6>1, <6>2, NotInMarked
            <6>4. Replace(Then(m, z), part, by) = Then(m, Replace(z, part, by))
              BY <1>r, <6>3, ReplaceSkips
            <6>5. x = Then(m, z)
              BY <3>1, <4>3, <4>4, <6>2
            <6> QED
              BY <6>2, <6>4, <6>5
          <5> QED
            BY <5>1, <5>2 DEF Exchanges
        <4>10. Exchanged(V, U, H, W, part, by, us, all)
          BY <3>1, <4>3, <4>6, <4>7, <4>8, <4>9 DEF Exchanged
        <4> QED
          BY <4>10
      <3> QED
        BY <3>2, <3>3
    <2> QED
      BY <1>0, <2>1
  <1>3. Nat \subseteq N
    <2> HIDE DEF N
    <2>1. \A n \in Nat : n \in N
      BY <1>1, <1>2, SetInduction
    <2> QED
      BY <2>1
  <1>4. PICK n \in Nat : n = Len(goal) /\ n \in N
    <2>1. PICK n \in Nat : n = Len(goal)
      BY LenIs, Zenon
    <2>2. n \in N
      <3> HIDE DEF N
      <3> QED
        BY <1>3, <2>1
    <2> QED
      BY <2>1, <2>2
  <1>5. \A us \in Seq(U) : Len(us) <= n => \E new : Exchanged(V, U, H, W, part, by, us, new)
    BY <1>4
  <1>6. Len(goal) <= n
    BY <1>4
  <1> QED
    BY <1>5, <1>6, Zenon
-----------------------------------------------------------------------------
\* Everything texts are made of here.
Frag == STRING \cup Brackets \cup {".", "[", "=", "]"} \cup {"3", " "}

\* The parameters of a call that was not refused, with values that can be told from the rest.
ToldApart(ps) == IsParameters(ps) /\ Valid(ps) /\ Separable(ps)

\* A parameter: its name is a name, its value is a text without brackets and not empty.
LEMMA ParameterIs ==
  ASSUME NEW ps, ToldApart(ps), NEW i \in DOMAIN ps
  PROVE  /\ IsName(Frag, ps[i].name) /\ ps[i].value \in Seq(Frag) /\ ps[i].value # <<>>
         /\ \A mark \in Brackets : Without(ps[i].value, mark) /\ Without(ps[i].name, mark)
  <1>1. ps \in Seq(Parameter) /\ Valid(ps) /\ Separable(ps)
    BY DEF ToldApart, IsParameters
  <1>2. PICK p \in Parameter : p = ps[i]
    BY <1>1
  <1>3. p.name \in Seq(STRING) /\ p.value \in Seq(STRING)
    BY DEF Parameter
  <1>4. STRING \subseteq Frag
    BY DEF Frag
  <1>5. p.name \in Seq(Frag) /\ p.value \in Seq(Frag)
    <2>1. \A A, B : A \subseteq B => Seq(A) \subseteq Seq(B)
      OBVIOUS
    <2> QED
      BY <1>3, <1>4, <2>1, Zenon
  <1>6. p.name # <<>> /\ \A k \in DOMAIN p.name : p.name[k] \notin Marks
    BY <1>1, <1>2 DEF Valid
  <1>7. p.value # <<>>
    <2>1. \E k \in DOMAIN p.value : p.value[k] # " "
      BY <1>1, <1>2 DEF Valid
    <2>2. DOMAIN <<>> = {}
      OBVIOUS
    <2> QED
      BY <2>1, <2>2, Zenon
  <1>8. Brackets \subseteq Marks
    BY AliasAssumption DEF Brackets
  <1>9. \A k \in DOMAIN p.value : p.value[k] \notin Brackets
    BY <1>1, <1>2 DEF Separable
  <1> QED
    BY <1>2, <1>5, <1>6, <1>7, <1>8, <1>9 DEF IsName, Without

\* A parameter is found by its name, as names are keys.
LEMMA NamedIs ==
  ASSUME NEW ps, ToldApart(ps), NEW i \in DOMAIN ps
  PROVE  Named(ps, ps[i].name) = ps[i] /\ ps[i].name \in Names(ps)
  <1>1. \A k, j \in DOMAIN ps : ps[k].name = ps[j].name => k = j
    BY DEF ToldApart, IsParameters
  <1>2. PICK j : j = CHOOSE k \in DOMAIN ps : ps[k].name = ps[i].name
    OBVIOUS
  <1>3. j \in DOMAIN ps /\ ps[j].name = ps[i].name
    BY <1>2, Zenon
  <1>4. j = i
    BY <1>1, <1>3, Zenon
  <1> QED
    BY <1>2, <1>4, Zenon DEF Named, Names

\* The aliases of two secrets differ, and each is a name.
LEMMA AliasIs ==
  ASSUME NEW ps, ToldApart(ps)
  PROVE  /\ \A i \in Secrets(ps) : AliasOf(ps, i) \in STRING /\ AliasOf(ps, i) \notin Marks
         /\ \A i, j \in Secrets(ps) : AliasOf(ps, i) = AliasOf(ps, j) => i = j
  <1>1. PICK n \in Nat : n = Len(ps) /\ DOMAIN ps = 1..n
    BY LenIs, Zenon DEF ToldApart, IsParameters
  <1>2. PICK S \in SUBSET (1..n) : S = Secrets(ps)
    BY <1>1 DEF Secrets
  <1>3. IsFiniteSet(1..n)
    BY FS_Interval
  <1>4. PICK Place : Place = [i \in S |-> {j \in S : j <= i}]
    OBVIOUS
  <1>5. \A i \in S : Place[i] \subseteq S /\ i \in Place[i]
    BY <1>4
  <1>6. IsFiniteSet(S)
    BY <1>3, FS_Subset
  <1>7. \A i \in S : IsFiniteSet(Place[i]) /\ Cardinality(Place[i]) \in Nat /\ Cardinality(Place[i]) <= Cardinality(S)
    BY <1>5, <1>6, FS_Subset, FS_CardinalityType
  <1>8. \A i \in S : Cardinality(Place[i]) # 0
    BY <1>5, <1>7, FS_EmptySet
  <1>9. PICK m \in Nat : m = Len(Aliases) /\ DOMAIN Aliases = 1..m
    BY AliasAssumption, LenIs, Zenon
  <1>10. Cardinality(S) <= m /\ Cardinality(S) \in Nat
    BY <1>2, <1>6, <1>9, FS_CardinalityType DEF ToldApart, IsParameters
  <1>11. \A i \in S : Cardinality(Place[i]) \in 1..m
    BY <1>7, <1>8, <1>10
  <1>12. \A i \in S : AliasOf(ps, i) = Aliases[Cardinality(Place[i])]
    BY <1>2, <1>4, Zenon DEF AliasOf
  <1>13. \A i, j \in S : i < j => Cardinality(Place[i]) # Cardinality(Place[j])
    <2>1. ASSUME NEW i \in S, NEW j \in S, i < j
          PROVE  Cardinality(Place[i]) # Cardinality(Place[j])
      <3>0. \A k \in S : k \in Nat
        OBVIOUS
      <3>1. Place[i] \subseteq Place[j]
        <4>1. \A k \in S : k <= i => k <= j
          BY <2>1, <3>0
        <4> QED
          BY <1>4, <4>1, Zenon
      <3>2. j \notin Place[i] /\ j \in Place[j]
        BY <1>4, <2>1
      <3>3. Place[i] # Place[j]
        BY <3>2
      <3> QED
        BY <1>7, <3>1, <3>3, FS_Subset
    <2> QED
      BY <2>1
  <1>14. \A i, j \in S : Cardinality(Place[i]) = Cardinality(Place[j]) => i = j
    <2>1. \A i, j \in S : i < j \/ j < i \/ i = j
      OBVIOUS
    <2> QED
      BY <1>13, <2>1
  <1>15. \A k, l \in 1..m : Aliases[k] = Aliases[l] => k = l
    BY <1>9, AliasAssumption
  <1>16. \A k \in 1..m : Aliases[k] \in STRING /\ Aliases[k] \notin Marks
    <2>1. \A k \in 1..m : Aliases[k] \notin Marks
      BY <1>9, AliasAssumption
    <2>2. \A V : \A s \in Seq(V) : \A k \in DOMAIN s : s[k] \in V
      OBVIOUS
    <2> QED
      BY <1>9, <2>1, <2>2, AliasAssumption, Zenon
  <1>17. \A i \in S : AliasOf(ps, i) \in STRING /\ AliasOf(ps, i) \notin Marks
    BY <1>11, <1>12, <1>16, Zenon
  <1>18. \A i, j \in S : AliasOf(ps, i) = AliasOf(ps, j) => i = j
    BY <1>11, <1>12, <1>14, <1>15
  <1> QED
    BY <1>2, <1>17, <1>18, Zenon

\* The alias of a secret leads back to it, and is a name.
LEMMA SecretIs ==
  ASSUME NEW ps, ToldApart(ps), NEW i \in Secrets(ps)
  PROVE  /\ SecretOf(ps, <<AliasOf(ps, i)>>) = ps[i] /\ <<AliasOf(ps, i)>> \in Aliased(ps)
         /\ IsName(Frag, <<AliasOf(ps, i)>>)
  <1>1. PICK a \in STRING : a = AliasOf(ps, i) /\ a \notin Marks
    BY AliasIs
  <1>2. IsName(Frag, <<a>>)
    <2>0. \A V : \A b \in V : <<b>> \in Seq(V) /\ <<b>> # <<>> /\ DOMAIN <<b>> = {1} /\ <<b>>[1] = b
      OBVIOUS
    <2>1. <<a>> \in Seq(Frag) /\ <<a>> # <<>> /\ DOMAIN <<a>> = {1} /\ <<a>>[1] = a
      BY <2>0, Zenon DEF Frag
    <2> QED
      BY <1>1, <2>1 DEF IsName
  <1>3. PICK j : j = CHOOSE k \in Secrets(ps) : <<AliasOf(ps, k)>> = <<AliasOf(ps, i)>>
    OBVIOUS
  <1>4. j \in Secrets(ps) /\ <<AliasOf(ps, j)>> = <<AliasOf(ps, i)>>
    BY <1>3, Zenon
  <1>5. \A b, c : <<b>> = <<c>> => b = c
    OBVIOUS
  <1>6. AliasOf(ps, j) = AliasOf(ps, i)
    BY <1>4, <1>5
  <1>7. j = i
    BY <1>4, <1>6, AliasIs, Zenon
  <1> QED
    BY <1>1, <1>2, <1>3, <1>7, Zenon DEF SecretOf, Aliased
-----------------------------------------------------------------------------
\* What the agent writes is a sequence of units: fragments without brackets, and parameters,
\* for which there are several renderings.
Units(ps) ==
  {u \in [word : Frag, param : Nat] : u.param \in {0} \cup DOMAIN ps /\ (u.param = 0 => u.word \notin Brackets)}

Render(ps, r) == [u \in Units(ps) |-> IF u.param = 0 THEN <<u.word>> ELSE r[u.param]]
IsRendering(ps, r) == r \in [DOMAIN ps -> Seq(Frag)]
Text(ps, r, us) == FlatMap(Render(ps, r), us)

\* The function of a rendering, unit by unit.
LEMMA RenderIs ==
  ASSUME NEW ps, NEW r, IsRendering(ps, r)
  PROVE  /\ Render(ps, r) \in [Units(ps) -> Seq(Frag)]
         /\ \A u \in Units(ps) : u.param = 0 => Render(ps, r)[u] = <<u.word>> /\ u.word \in Frag \ Brackets
         /\ \A u \in Units(ps) : u.param # 0 => Render(ps, r)[u] = r[u.param] /\ u.param \in DOMAIN ps
  <1>1. \A u \in Units(ps) : /\ u.param = 0 => u.word \in Frag \ Brackets
                             /\ u.param # 0 => u.param \in DOMAIN ps
    <2>1. \A u \in [word : Frag, param : Nat] : u.word \in Frag
      OBVIOUS
    <2> QED
      BY <2>1, Zenon DEF Units
  <1>2. \A V : \A a \in V : <<a>> \in Seq(V)
    OBVIOUS
  <1>3. \A u \in Units(ps) : (IF u.param = 0 THEN <<u.word>> ELSE r[u.param]) \in Seq(Frag)
    <2>1. ASSUME NEW u \in Units(ps), u.param = 0 PROVE <<u.word>> \in Seq(Frag)
      BY <1>1, <1>2, <2>1, Zenon
    <2>2. ASSUME NEW u \in Units(ps), u.param # 0 PROVE r[u.param] \in Seq(Frag)
      BY <1>1, <2>2, Zenon DEF IsRendering
    <2> QED
      BY <2>1, <2>2, Zenon
  <1> QED
    BY <1>1, <1>3, Zenon DEF Render

\* Rewriting a text of units is rewriting its parameters.
AllRewritten(ps, r, s, open, close, D, by) ==
  /\ IsRendering(ps, r) /\ IsRendering(ps, s) /\ open \in Brackets /\ Rewriting(Frag, open, close, D, by)
  /\ \A i \in DOMAIN ps : Reads(Frag, r[i], s[i], open, close, D, by)

\* The text becomes the other rendering of its units.
LEMMA RenderReads ==
  ASSUME NEW ps, NEW r, NEW s, NEW open, NEW close, NEW D, NEW by, AllRewritten(ps, r, s, open, close, D, by)
  PROVE  \A us \in Seq(Units(ps)) : Rewrite(Text(ps, r, us), open, close, by) = Text(ps, s, us)
  <1> /\ IsRendering(ps, r) /\ IsRendering(ps, s) /\ open \in Brackets /\ Rewriting(Frag, open, close, D, by)
      /\ \A i \in DOMAIN ps : Reads(Frag, r[i], s[i], open, close, D, by)
    BY DEF AllRewritten
  <1>1. PICK f, g : f = Render(ps, r) /\ g = Render(ps, s)
    OBVIOUS
  <1>f. /\ f \in [Units(ps) -> Seq(Frag)]
        /\ \A u \in Units(ps) : u.param = 0 => f[u] = <<u.word>> /\ u.word \in Frag \ Brackets
        /\ \A u \in Units(ps) : u.param # 0 => f[u] = r[u.param] /\ u.param \in DOMAIN ps
    BY <1>1, RenderIs
  <1>g. /\ g \in [Units(ps) -> Seq(Frag)]
        /\ \A u \in Units(ps) : u.param = 0 => g[u] = <<u.word>> /\ u.word \in Frag \ Brackets
        /\ \A u \in Units(ps) : u.param # 0 => g[u] = s[u.param] /\ u.param \in DOMAIN ps
    BY <1>1, RenderIs
  <1>2. \A V : \A a \in V : <<a>> \in Seq(V) /\ DOMAIN <<a>> = {1} /\ <<a>>[1] = a
    OBVIOUS
  <1>3. ASSUME NEW u \in Units(ps)
        PROVE  Reads(Frag, f[u], g[u], open, close, D, by)
    <2>1. CASE u.param = 0
      <3>1. f[u] = <<u.word>> /\ g[u] = <<u.word>> /\ u.word \in Frag /\ u.word # open
        BY <1>f, <1>g, <2>1, Zenon
      <3>2. <<u.word>> \in Seq(Frag) /\ Without(<<u.word>>, open)
        BY <1>2, <3>1 DEF Without
      <3> QED
        BY <3>1, <3>2, Zenon DEF Reads
    <2>2. CASE u.param # 0
      <3>1. f[u] = r[u.param] /\ g[u] = s[u.param] /\ u.param \in DOMAIN ps
        BY <1>f, <1>g, <2>2, Zenon
      <3> QED
        BY <3>1, Zenon
    <2> QED
      BY <2>1, <2>2
  <1>4. AllRead(Frag, Units(ps), f, g, open, close, D, by)
    BY <1>3, <1>f, <1>g, Zenon DEF AllRead
  <1>5. \A us \in Seq(Units(ps)) : Rewrite(FlatMap(f, us), open, close, by) = FlatMap(g, us)
    BY <1>4, RewriteUnits
  <1> QED
    BY <1>1, <1>5, Zenon DEF Text

\* The renderings: as the agent is told, as it is typed, with names for aliases, with
\* placeholders for secrets, and with placeholders for all.
AsTold(ps) == [i \in DOMAIN ps |-> Told(ps, i)]
AsTyped(ps) == [i \in DOMAIN ps |-> ps[i].value]
AsNamed(ps) == [i \in DOMAIN ps |-> IF ps[i].secret THEN Tag(ps[i].name) ELSE ps[i].value]
AsMixed(ps) == [i \in DOMAIN ps |-> IF ps[i].secret THEN Placeholder(ps[i].name) ELSE ps[i].value]
AsHoles(ps) == [i \in DOMAIN ps |-> Placeholder(ps[i].name)]

\* A tag is a name between the marks of tags.
LEMMA TagIs == ASSUME NEW name PROVE Tag(name) = Marked("<secret>", name, "</secret>")
  BY DEF Tag, Marked

\* What placeholders are marked with, under names.
Opened == "{{"
Closed == "}}"

\* A placeholder is a name between the marks of placeholders.
LEMMA PlaceholderIs == ASSUME NEW name PROVE Placeholder(name) = Marked(Opened, name, Closed)
  BY Zenon DEF Placeholder, Marked, Opened, Closed

\* The brackets are marks and fragments.
LEMMA BracketsAre ==
  /\ "<secret>" \in Frag /\ "</secret>" \in Frag /\ Opened \in Frag /\ Closed \in Frag
  /\ "</secret>" \in Marks /\ Closed \in Marks
  /\ "<secret>" \in Brackets /\ "</secret>" \in Brackets /\ Opened \in Brackets /\ Closed \in Brackets
  BY AliasAssumption, Zenon DEF Frag, Brackets, Opened, Closed

\* A marked name is a text.
LEMMA MarkedType ==
  ASSUME NEW V, NEW open \in V, NEW close \in V, NEW name \in Seq(V)
  PROVE  Marked(open, name, close) \in Seq(V)
  <1>1. <<open>> \in Seq(V) /\ <<close>> \in Seq(V)
    OBVIOUS
  <1>2. \A a, b \in Seq(V) : a \o b \in Seq(V)
    OBVIOUS
  <1> QED
    BY <1>1, <1>2, Zenon DEF Marked

\* All of them are renderings.
LEMMA RenderingsAre ==
  ASSUME NEW ps, ToldApart(ps)
  PROVE  /\ IsRendering(ps, AsTold(ps)) /\ IsRendering(ps, AsTyped(ps)) /\ IsRendering(ps, AsNamed(ps))
         /\ IsRendering(ps, AsMixed(ps)) /\ IsRendering(ps, AsHoles(ps))
  <1>1. ASSUME NEW i \in DOMAIN ps
        PROVE  /\ ps[i].value \in Seq(Frag) /\ Tag(ps[i].name) \in Seq(Frag) /\ Placeholder(ps[i].name) \in Seq(Frag)
               /\ Told(ps, i) \in Seq(Frag)
    <2>1. ps[i].value \in Seq(Frag) /\ ps[i].name \in Seq(Frag)
      BY ParameterIs DEF IsName
    <2>2. \A name \in Seq(Frag) : Tag(name) \in Seq(Frag) /\ Placeholder(name) \in Seq(Frag)
      BY TagIs, PlaceholderIs, BracketsAre, MarkedType
    <2>3. Told(ps, i) \in Seq(Frag)
      <3>1. CASE ps[i].secret
        <4>1. <<AliasOf(ps, i)>> \in Seq(Frag)
          BY <3>1, SecretIs, Zenon DEF Secrets, IsName
        <4> QED
          BY <2>2, <3>1, <4>1, Zenon DEF Told
      <3>2. CASE ~ps[i].secret
        BY <2>1, <3>2, Zenon DEF Told
      <3> QED
        BY <3>1, <3>2
    <2> QED
      BY <2>1, <2>2, <2>3
  <1> QED
    BY <1>1, Zenon DEF IsRendering, AsTold, AsTyped, AsNamed, AsMixed, AsHoles
-----------------------------------------------------------------------------
\* What browser-use types for an alias is the value of a secret.
LEMMA TypingIs ==
  ASSUME NEW ps, ToldApart(ps), NEW D, NEW by,
         D = Aliased(ps), by = [alias \in D |-> SecretOf(ps, alias).value]
  PROVE  /\ \A i \in Secrets(ps) : by[<<AliasOf(ps, i)>>] = ps[i].value
         /\ Rewriting(Frag, "<secret>", "</secret>", D, by)
  <1>2. \A i \in Secrets(ps) : by[<<AliasOf(ps, i)>>] = ps[i].value
    BY SecretIs
  <1>3. by \in [D -> Seq(Frag)]
    <2>1. ASSUME NEW alias \in D PROVE by[alias] \in Seq(Frag)
      <3>1. PICK i \in Secrets(ps) : alias = <<AliasOf(ps, i)>>
        BY Zenon DEF Aliased
      <3>2. i \in DOMAIN ps
        BY Zenon DEF Secrets
      <3>3. by[alias] = ps[i].value
        BY <1>2, <3>1, Zenon
      <3> QED
        BY <3>2, <3>3, ParameterIs
    <2> QED
      BY <2>1, Zenon
  <1>4. Rewriting(Frag, "<secret>", "</secret>", D, by)
    BY <1>3, BracketsAre DEF Rewriting
  <1> QED
    BY <1>2, <1>4

\* What browser-use types for what the agent writes.
LEMMA TypedIs ==
  ASSUME NEW ps, ToldApart(ps), NEW us \in Seq(Units(ps))
  PROVE  Typed(ps, Text(ps, AsTold(ps), us)) = Text(ps, AsTyped(ps), us)
  <1>1. PICK D, by : D = Aliased(ps) /\ by = [alias \in D |-> SecretOf(ps, alias).value]
    OBVIOUS
  <1>2. \A i \in Secrets(ps) : by[<<AliasOf(ps, i)>>] = ps[i].value
    BY <1>1, TypingIs
  <1>4. Rewriting(Frag, "<secret>", "</secret>", D, by)
    BY <1>1, TypingIs
  <1>5. ASSUME NEW i \in DOMAIN ps
        PROVE  Reads(Frag, AsTold(ps)[i], AsTyped(ps)[i], "<secret>", "</secret>", D, by)
    <2>1. AsTold(ps)[i] = Told(ps, i) /\ AsTyped(ps)[i] = ps[i].value
      BY Zenon DEF AsTold, AsTyped
    <2>2. CASE ps[i].secret
      <3>1. i \in Secrets(ps)
        BY <2>2, Zenon DEF Secrets
      <3>2. Told(ps, i) = Marked("<secret>", <<AliasOf(ps, i)>>, "</secret>")
        BY <2>2, TagIs, Zenon DEF Told
      <3>3. <<AliasOf(ps, i)>> \in D /\ IsName(Frag, <<AliasOf(ps, i)>>)
        BY <1>1, <3>1, SecretIs
      <3> QED
        BY <1>2, <2>1, <3>1, <3>2, <3>3, Zenon DEF Reads
    <2>3. CASE ~ps[i].secret
      <3>1. Told(ps, i) = ps[i].value
        BY <2>3, Zenon DEF Told
      <3>2. ps[i].value \in Seq(Frag) /\ Without(ps[i].value, "<secret>")
        BY ParameterIs, BracketsAre
      <3> QED
        BY <2>1, <3>1, <3>2, Zenon DEF Reads
    <2> QED
      BY <2>2, <2>3
  <1>6. AllRewritten(ps, AsTold(ps), AsTyped(ps), "<secret>", "</secret>", D, by)
    BY <1>4, <1>5, BracketsAre, RenderingsAre DEF AllRewritten
  <1>7. Rewrite(Text(ps, AsTold(ps), us), "<secret>", "</secret>", by) = Text(ps, AsTyped(ps), us)
    BY <1>6, RenderReads
  <1> QED
    BY <1>1, <1>7, Zenon DEF Typed

\* What is left of it in the generated workflow.
LEMMA RestoredTextIs ==
  ASSUME NEW ps, ToldApart(ps), NEW us \in Seq(Units(ps))
  PROVE  RestoreAliases(ps, Text(ps, AsTold(ps), us)) = Text(ps, AsNamed(ps), us)
  <1>1. PICK D, by : D = Aliased(ps) /\ by = [alias \in D |-> Tag(SecretOf(ps, alias).name)]
    OBVIOUS
  <1>2. \A i \in Secrets(ps) : by[<<AliasOf(ps, i)>>] = Tag(ps[i].name)
    BY <1>1, SecretIs
  <1>3. by \in [D -> Seq(Frag)]
    <2>1. ASSUME NEW alias \in D PROVE by[alias] \in Seq(Frag)
      <3>1. PICK i \in Secrets(ps) : alias = <<AliasOf(ps, i)>>
        BY <1>1, Zenon DEF Aliased
      <3>2. i \in DOMAIN ps
        BY Zenon DEF Secrets
      <3>3. by[alias] = Tag(ps[i].name)
        BY <1>2, <3>1, Zenon
      <3>4. ps[i].name \in Seq(Frag)
        BY <3>2, ParameterIs DEF IsName
      <3> QED
        BY <3>3, <3>4, TagIs, BracketsAre, MarkedType
    <2> QED
      BY <1>1, <2>1, Zenon
  <1>4. Rewriting(Frag, "<secret>", "</secret>", D, by)
    BY <1>3, BracketsAre DEF Rewriting
  <1>5. ASSUME NEW i \in DOMAIN ps
        PROVE  Reads(Frag, AsTold(ps)[i], AsNamed(ps)[i], "<secret>", "</secret>", D, by)
    <2>1. AsTold(ps)[i] = Told(ps, i)
      BY Zenon DEF AsTold
    <2>2. CASE ps[i].secret
      <3>1. i \in Secrets(ps) /\ AsNamed(ps)[i] = Tag(ps[i].name)
        BY <2>2, Zenon DEF Secrets, AsNamed
      <3>2. Told(ps, i) = Marked("<secret>", <<AliasOf(ps, i)>>, "</secret>")
        BY <2>2, TagIs, Zenon DEF Told
      <3>3. <<AliasOf(ps, i)>> \in D /\ IsName(Frag, <<AliasOf(ps, i)>>)
        BY <1>1, <3>1, SecretIs
      <3> QED
        BY <1>2, <2>1, <3>1, <3>2, <3>3, Zenon DEF Reads
    <2>3. CASE ~ps[i].secret
      <3>1. Told(ps, i) = ps[i].value /\ AsNamed(ps)[i] = ps[i].value
        BY <2>3, Zenon DEF Told, AsNamed
      <3>2. ps[i].value \in Seq(Frag) /\ Without(ps[i].value, "<secret>")
        BY ParameterIs, BracketsAre
      <3> QED
        BY <2>1, <3>1, <3>2, Zenon DEF Reads
    <2> QED
      BY <2>2, <2>3
  <1>6. AllRewritten(ps, AsTold(ps), AsNamed(ps), "<secret>", "</secret>", D, by)
    BY <1>4, <1>5, BracketsAre, RenderingsAre DEF AllRewritten
  <1>7. Rewrite(Text(ps, AsTold(ps), us), "<secret>", "</secret>", by) = Text(ps, AsNamed(ps), us)
    BY <1>6, RenderReads
  <1> QED
    BY <1>1, <1>7, Zenon DEF RestoreAliases

\* The same when secrets have become placeholders.
LEMMA EmbeddedIs ==
  ASSUME NEW ps, ToldApart(ps), NEW us \in Seq(Units(ps))
  PROVE  EmbeddedSecrets(ps, Text(ps, AsNamed(ps), us)) = Text(ps, AsMixed(ps), us)
  <1>1. PICK D, by : D = Names(ps) /\ by = [name \in D |-> Placeholder(name)]
    OBVIOUS
  <1>2. \A i \in DOMAIN ps : ps[i].name \in D /\ by[ps[i].name] = Placeholder(ps[i].name)
    BY <1>1, Zenon DEF Names
  <1>3. by \in [D -> Seq(Frag)]
    <2>1. ASSUME NEW name \in D PROVE by[name] \in Seq(Frag)
      <3>1. PICK i \in DOMAIN ps : name = ps[i].name
        BY <1>1, Zenon DEF Names
      <3>2. name \in Seq(Frag)
        BY <3>1, ParameterIs DEF IsName
      <3>3. by[name] = Placeholder(name)
        BY <1>1
      <3> QED
        BY <3>2, <3>3, PlaceholderIs, BracketsAre, MarkedType
    <2> QED
      BY <1>1, <2>1, Zenon
  <1>4. Rewriting(Frag, "<secret>", "</secret>", D, by)
    BY <1>3, BracketsAre DEF Rewriting
  <1>5. ASSUME NEW i \in DOMAIN ps
        PROVE  Reads(Frag, AsNamed(ps)[i], AsMixed(ps)[i], "<secret>", "</secret>", D, by)
    <2>1. CASE ps[i].secret
      <3>1. AsNamed(ps)[i] = Marked("<secret>", ps[i].name, "</secret>") /\ AsMixed(ps)[i] = Placeholder(ps[i].name)
        BY <2>1, TagIs, Zenon DEF AsNamed, AsMixed
      <3>2. IsName(Frag, ps[i].name)
        BY ParameterIs
      <3> QED
        BY <1>2, <3>1, <3>2, Zenon DEF Reads
    <2>2. CASE ~ps[i].secret
      <3>1. AsNamed(ps)[i] = ps[i].value /\ AsMixed(ps)[i] = ps[i].value
        BY <2>2, Zenon DEF AsNamed, AsMixed
      <3>2. ps[i].value \in Seq(Frag) /\ Without(ps[i].value, "<secret>")
        BY ParameterIs, BracketsAre
      <3> QED
        BY <3>1, <3>2, Zenon DEF Reads
    <2> QED
      BY <2>1, <2>2
  <1>6. AllRewritten(ps, AsNamed(ps), AsMixed(ps), "<secret>", "</secret>", D, by)
    BY <1>4, <1>5, BracketsAre, RenderingsAre DEF AllRewritten
  <1>7. Rewrite(Text(ps, AsNamed(ps), us), "<secret>", "</secret>", by) = Text(ps, AsMixed(ps), us)
    BY <1>6, RenderReads
  <1> QED
    BY <1>1, <1>7, Zenon DEF EmbeddedSecrets
-----------------------------------------------------------------------------
\* What placeholders are replaced by in a replay.
Values(ps) == [name \in Names(ps) |-> Named(ps, name).value]

\* A text of a workflow stands for another if that is what its placeholders make of it.
StandsFor(ps, w, v) == w \in Seq(Frag) /\ v \in Seq(Frag) /\ Rewrite(w, Opened, Closed, Values(ps)) = v

\* The values are found by name, and placeholders can be rewritten with them.
LEMMA ValuesAre ==
  ASSUME NEW ps, ToldApart(ps)
  PROVE  /\ Rewriting(Frag, Opened, Closed, Names(ps), Values(ps))
         /\ \A i \in DOMAIN ps : ps[i].name \in Names(ps) /\ Values(ps)[ps[i].name] = ps[i].value
  <1>1. \A i \in DOMAIN ps : ps[i].name \in Names(ps) /\ Values(ps)[ps[i].name] = ps[i].value
    <2>1. ASSUME NEW i \in DOMAIN ps
          PROVE  ps[i].name \in Names(ps) /\ Values(ps)[ps[i].name] = ps[i].value
      <3>1. Named(ps, ps[i].name) = ps[i] /\ ps[i].name \in Names(ps)
        BY NamedIs
      <3> QED
        BY <3>1, Zenon DEF Values
    <2> QED
      BY <2>1
  <1>2. Values(ps) \in [Names(ps) -> Seq(Frag)]
    <2>1. ASSUME NEW name \in Names(ps) PROVE Named(ps, name).value \in Seq(Frag)
      <3>1. PICK i \in DOMAIN ps : name = ps[i].name
        BY Zenon DEF Names
      <3>2. Named(ps, name) = ps[i] /\ ps[i].value \in Seq(Frag)
        BY <3>1, NamedIs, ParameterIs
      <3> QED
        BY <3>2
    <2> QED
      BY <2>1, Zenon DEF Values
  <1> QED
    BY <1>1, <1>2, BracketsAre DEF Rewriting

\* Texts with placeholders for all parameters, or for secrets, stand for what is typed.
LEMMA RenderingsStand ==
  ASSUME NEW ps, ToldApart(ps), NEW r, r = AsMixed(ps) \/ r = AsHoles(ps), NEW us \in Seq(Units(ps))
  PROVE  StandsFor(ps, Text(ps, r, us), Text(ps, AsTyped(ps), us))
  <1>1. PICK D, by : D = Names(ps) /\ by = Values(ps)
    OBVIOUS
  <1>2. /\ Rewriting(Frag, Opened, Closed, D, by)
        /\ \A i \in DOMAIN ps : ps[i].name \in D /\ by[ps[i].name] = ps[i].value
    BY <1>1, ValuesAre
  <1>3. ASSUME NEW i \in DOMAIN ps
        PROVE  Reads(Frag, r[i], AsTyped(ps)[i], Opened, Closed, D, by)
    <2>1. AsTyped(ps)[i] = ps[i].value
      BY Zenon DEF AsTyped
    <2>2. r[i] = Placeholder(ps[i].name) \/ r[i] = ps[i].value
      BY Zenon DEF AsMixed, AsHoles
    <2>3. CASE r[i] = Placeholder(ps[i].name)
      <3>1. IsName(Frag, ps[i].name)
        BY ParameterIs
      <3> QED
        BY <1>2, <2>1, <2>3, <3>1, PlaceholderIs, Zenon DEF Reads
    <2>4. CASE r[i] = ps[i].value
      <3>1. ps[i].value \in Seq(Frag) /\ Without(ps[i].value, Opened)
        BY ParameterIs, BracketsAre
      <3> QED
        BY <2>1, <2>4, <3>1, Zenon DEF Reads
    <2> QED
      BY <2>2, <2>3, <2>4
  <1>4. IsRendering(ps, r) /\ IsRendering(ps, AsTyped(ps))
    BY RenderingsAre, Zenon
  <1>5. AllRewritten(ps, r, AsTyped(ps), Opened, Closed, D, by)
    BY <1>2, <1>3, <1>4, BracketsAre DEF AllRewritten
  <1>6. Rewrite(Text(ps, r, us), Opened, Closed, by) = Text(ps, AsTyped(ps), us)
    BY <1>5, RenderReads
  <1>7. Text(ps, r, us) \in Seq(Frag) /\ Text(ps, AsTyped(ps), us) \in Seq(Frag)
    <2>1. Render(ps, r) \in [Units(ps) -> Seq(Frag)] /\ Render(ps, AsTyped(ps)) \in [Units(ps) -> Seq(Frag)]
      BY <1>4, RenderIs
    <2> QED
      BY <2>1, FlatMapType DEF Text
  <1> QED
    BY <1>1, <1>6, <1>7 DEF StandsFor
-----------------------------------------------------------------------------
\* The fragments of two texts one after the other.
Joined(text, V, a, x, m, n) ==
  /\ text \in Seq(V) /\ Len(text) = m + n /\ DOMAIN text = 1..m + n
  /\ \A k \in 1..m : text[k] = a[k]
  /\ \A k \in 1..n : text[m + k] = x[k]

\* One text after another is that.
LEMMA JoinedIs ==
  ASSUME NEW V, NEW a \in Seq(V), NEW x \in Seq(V), NEW m \in Nat, NEW n \in Nat, Len(a) = m, Len(x) = n
  PROVE  Joined(Then(a, x), V, a, x, m, n)
  <1>1. PICK t : t = a \o x
    OBVIOUS
  <1>2. t \in Seq(V) /\ Len(t) = m + n /\ DOMAIN t = 1..m + n
    BY <1>1
  <1>3. \A k \in 1..m : t[k] = a[k]
    BY <1>1
  <1>4. \A k \in 1..n : t[m + k] = x[k]
    BY <1>1
  <1> QED
    BY <1>1, <1>2, <1>3, <1>4, Zenon DEF Then, Joined

\* A fragment that is a blank.
IsBlank(c) == c = " "

\* A blank text has no other fragments.
LEMMA BlankIs == ASSUME NEW text PROVE Blank(text) <=> \A k \in DOMAIN text : IsBlank(text[k])
  BY Zenon DEF Blank, IsBlank

\* Around, with the blank under its name.
LEMMA AroundIs ==
  ASSUME NEW text, NEW part
  PROVE  Around(text, part) <=>
           \E i \in DOMAIN text : /\ Occurs(part, text, i)
                                  /\ \A k \in DOMAIN text \ (i..i + Len(part) - 1) : IsBlank(text[k])
  BY Zenon DEF Around, IsBlank

\* A bare text has no blank at its ends.
LEMMA BareIs ==
  ASSUME NEW text, Bare(text)
  PROVE  ~IsBlank(text[1]) /\ ~IsBlank(text[Len(text)])
  BY Zenon DEF Bare, IsBlank

\* A text around which there are blanks.
Padded(V, text, part, p, q) ==
  p \in Seq(V) /\ q \in Seq(V) /\ Blank(p) /\ Blank(q) /\ text = Then(p, Then(part, q))

\* A part with blanks around it is what is between two blank texts.
LEMMA AroundParts ==
  ASSUME NEW V, NEW text \in Seq(V), NEW part \in Seq(V), part # <<>>, Around(text, part)
  PROVE  \E p, q : Padded(V, text, part, p, q)
  <1>1. PICK n \in Nat : n = Len(text) /\ DOMAIN text = 1..n
    BY LenIs, Zenon
  <1>2. PICK m \in Nat : m = Len(part) /\ DOMAIN part = 1..m
    BY LenIs, Zenon
  <1>3. PICK i \in Nat : /\ 1 <= i /\ i <= n /\ Occurs(part, text, i)
                         /\ \A k \in 1..n : ~(i <= k /\ k <= i + m - 1) => IsBlank(text[k])
    <2>1. PICK i \in DOMAIN text : /\ Occurs(part, text, i)
                                   /\ \A k \in DOMAIN text \ (i..i + Len(part) - 1) : IsBlank(text[k])
      BY AroundIs, Zenon
    <2>2. i \in Nat /\ 1 <= i /\ i <= n
      BY <1>1
    <2>3. \A k \in 1..n : ~(i <= k /\ k <= i + m - 1) => IsBlank(text[k])
      BY <1>1, <1>2, <2>1
    <2> QED
      BY <2>1, <2>2, <2>3
  <1>4. PICK a \in Nat : i = a + 1
    <2>1. i - 1 \in Nat /\ i = (i - 1) + 1
      BY <1>3, SMT
    <2> QED
      BY <2>1, Zenon
  <1>5. i + m - 1 <= n /\ \A k \in 1..m : text[i + k - 1] = part[k]
    <2>1. PICK h \in Nat \ {0} : h = i
      BY <1>3
    <2> QED
      BY <1>1, <1>2, <1>3, <2>1, OccursAt
  <1>6. PICK b \in Nat : n = a + (m + b)
    <2>1. n - (a + m) \in Nat /\ n = a + (m + (n - (a + m)))
      BY <1>4, <1>5
    <2> QED
      BY <2>1, Zenon
  <1>7. PICK p \in Seq(V) : Len(p) = a /\ DOMAIN p = 1..a /\ \A k \in 1..a : p[k] = text[k]
    <2>1. \A k \in 1..a : text[k] \in V
      BY <1>1, <1>6
    <2>2. PICK p : p = [k \in 1..a |-> text[k]]
      OBVIOUS
    <2>3. p \in Seq(V) /\ Len(p) = a /\ DOMAIN p = 1..a
      BY <2>1, <2>2
    <2> QED
      BY <2>2, <2>3
  <1>8. PICK q \in Seq(V) : Len(q) = b /\ DOMAIN q = 1..b /\ \A k \in 1..b : q[k] = text[a + (m + k)]
    <2>1. ASSUME NEW k \in 1..b PROVE text[a + (m + k)] \in V
      <3>1. PICK j \in 1..n : j = a + (m + k)
        BY <1>6
      <3>2. text[j] \in V
        BY <1>1
      <3> QED
        BY <3>1, <3>2
    <2>2. PICK q : q = [k \in 1..b |-> text[a + (m + k)]]
      OBVIOUS
    <2>3. q \in Seq(V) /\ Len(q) = b /\ DOMAIN q = 1..b
      BY <2>1, <2>2
    <2> QED
      BY <2>2, <2>3
  <1>9. PICK r \in Seq(V) : r = Then(part, q) /\ Joined(r, V, part, q, m, b)
    BY <1>2, <1>8, JoinedIs, ThenType
  <1>10. Len(r) = m + b /\ (\A k \in 1..m : r[k] = part[k]) /\ (\A k \in 1..b : r[m + k] = q[k])
    BY <1>9 DEF Joined
  <1>11. PICK t \in Seq(V) : t = Then(p, r) /\ Joined(t, V, p, r, a, m + b)
    <2>1. PICK c \in Nat : c = m + b
      OBVIOUS
    <2>2. Joined(Then(p, r), V, p, r, a, c)
      BY <1>7, <1>10, <2>1, JoinedIs
    <2> QED
      BY <2>1, <2>2, ThenType
  <1>12. Len(t) = n /\ (\A k \in 1..a : t[k] = p[k]) /\ (\A k \in 1..m + b : t[a + k] = r[k])
    BY <1>6, <1>11 DEF Joined
  <1>13. ASSUME NEW k \in 1..n PROVE text[k] = t[k]
    <2>1. CASE k <= a
      <3>1. k \in 1..a
        BY <2>1
      <3> QED
        BY <1>7, <1>12, <3>1
    <2>2. CASE a < k
      <3>1. PICK l \in Nat : k = a + l /\ l \in 1..m + b
        <4>1. k - a \in Nat /\ k = a + (k - a) /\ k - a \in 1..m + b
          BY <1>6, <2>2
        <4> QED
          BY <4>1, Zenon
      <3>2. t[k] = r[l]
        BY <1>12, <3>1
      <3>3. CASE l <= m
        <4>1. l \in 1..m /\ i + l - 1 = k
          BY <1>4, <3>1, <3>3
        <4> QED
          BY <1>5, <1>10, <3>2, <4>1
      <3>4. CASE m < l
        <4>1. PICK j \in Nat : l = m + j /\ j \in 1..b
          <5>1. l - m \in Nat /\ l = m + (l - m) /\ l - m \in 1..b
            BY <3>1, <3>4
          <5> QED
            BY <5>1, Zenon
        <4> QED
          BY <1>8, <1>10, <3>1, <3>2, <4>1
      <3> QED
        BY <3>1, <3>3, <3>4
    <2> QED
      BY <2>1, <2>2
  <1>14. text = t
    <2>1. Agree(text, t, n)
      BY <1>13 DEF Agree
    <2> QED
      BY <1>1, <1>12, <2>1, SameSequence
  <1>15. Blank(p)
    <2>1. \A k \in 1..a : k \in 1..n /\ ~(i <= k /\ k <= i + m - 1)
      BY <1>4, <1>6
    <2>2. \A k \in 1..a : IsBlank(p[k])
      BY <1>3, <1>7, <2>1
    <2> QED
      BY <1>7, <2>2, BlankIs, Zenon
  <1>16. Blank(q)
    <2>1. \A k \in 1..b : a + (m + k) \in 1..n /\ ~(i <= a + (m + k) /\ a + (m + k) <= i + m - 1)
      BY <1>4, <1>6
    <2>2. \A k \in 1..b : IsBlank(q[k])
      BY <1>3, <1>8, <2>1
    <2> QED
      BY <1>8, <2>2, BlankIs, Zenon
  <1> QED
    BY <1>9, <1>11, <1>14, <1>15, <1>16 DEF Padded

\* And conversely.
LEMMA PaddedIsAround ==
  ASSUME NEW V, NEW text, NEW part \in Seq(V), part # <<>>, NEW p, NEW q, Padded(V, text, part, p, q)
  PROVE  Around(text, part)
  <1> p \in Seq(V) /\ q \in Seq(V) /\ Blank(p) /\ Blank(q) /\ text = Then(p, Then(part, q))
    BY DEF Padded
  <1>1. PICK a \in Nat : a = Len(p) /\ DOMAIN p = 1..a
    BY LenIs, Zenon
  <1>2. PICK m \in Nat : m = Len(part) /\ DOMAIN part = 1..m
    BY LenIs, Zenon
  <1>3. PICK b \in Nat : b = Len(q) /\ DOMAIN q = 1..b
    BY LenIs, Zenon
  <1>4. PICK r \in Seq(V) : r = Then(part, q) /\ Joined(r, V, part, q, m, b)
    BY <1>2, <1>3, JoinedIs, ThenType
  <1>5. Len(r) = m + b /\ (\A k \in 1..m : r[k] = part[k]) /\ (\A k \in 1..b : r[m + k] = q[k])
    BY <1>4 DEF Joined
  <1>6. PICK c \in Nat : c = m + b
    OBVIOUS
  <1>7. Joined(text, V, p, r, a, c)
    BY <1>1, <1>4, <1>5, <1>6, JoinedIs
  <1>8. /\ text \in Seq(V) /\ Len(text) = a + c /\ DOMAIN text = 1..a + c
        /\ (\A k \in 1..a : text[k] = p[k]) /\ (\A k \in 1..c : text[a + k] = r[k])
    BY <1>7 DEF Joined
  <1>9. m # 0
    BY <1>2
  <1>10. PICK i \in Nat \ {0} : i = a + 1
    OBVIOUS
  <1>11. Occurs(part, text, i)
    <2>1. i + m - 1 <= a + c
      BY <1>6, <1>10
    <2>2. ASSUME NEW k \in 1..m PROVE text[i + k - 1] = part[k]
      <3>1. i + k - 1 = a + k /\ k \in 1..c
        BY <1>6, <1>10
      <3> QED
        BY <1>5, <1>8, <3>1
    <2> QED
      BY <1>2, <1>8, <2>1, <2>2, OccursAt
  <1>12. ASSUME NEW k \in 1..a + c, k \notin i..i + m - 1 PROVE IsBlank(text[k])
    <2>1. CASE k <= a
      <3>1. k \in 1..a
        BY <2>1
      <3> QED
        BY <1>1, <1>8, <3>1, BlankIs
    <2>2. CASE ~(k <= a)
      <3>1. PICK j \in Nat : k = a + (m + j) /\ j \in 1..b
        <4>1. k - (a + m) \in Nat /\ k = a + (m + (k - (a + m))) /\ k - (a + m) \in 1..b
          BY <1>6, <1>10, <1>12, <2>2
        <4> QED
          BY <4>1, Zenon
      <3>2. m + j \in 1..c
        BY <1>6, <3>1
      <3>3. text[k] = q[j]
        BY <1>5, <1>8, <3>1, <3>2
      <3> QED
        BY <1>3, <3>1, <3>3, BlankIs
    <2> QED
      BY <2>1, <2>2
  <1>13. i \in 1..a + c
    BY <1>6, <1>9, <1>10
  <1> QED
    BY <1>2, <1>8, <1>11, <1>12, <1>13, AroundIs

\* A text without blanks at its ends has no blanks around a part of it: it is that part.
LEMMA BareAlone ==
  ASSUME NEW V, NEW text \in Seq(V), NEW part \in Seq(V), part # <<>>, Around(text, part), Bare(text)
  PROVE  text = part
  <1>1. PICK p, q : Padded(V, text, part, p, q)
    BY AroundParts
  <1>2. p \in Seq(V) /\ q \in Seq(V) /\ Blank(p) /\ Blank(q) /\ text = Then(p, Then(part, q))
    BY <1>1 DEF Padded
  <1>3. PICK a \in Nat : a = Len(p) /\ DOMAIN p = 1..a
    BY <1>2, LenIs, Zenon
  <1>4. PICK m \in Nat : m = Len(part) /\ DOMAIN part = 1..m
    BY LenIs, Zenon
  <1>5. PICK b \in Nat : b = Len(q) /\ DOMAIN q = 1..b
    BY <1>2, LenIs, Zenon
  <1>6. PICK r \in Seq(V) : r = Then(part, q) /\ Joined(r, V, part, q, m, b)
    BY <1>2, <1>4, <1>5, JoinedIs, ThenType
  <1>7. Len(r) = m + b /\ (\A k \in 1..b : r[m + k] = q[k])
    BY <1>6 DEF Joined
  <1>8. PICK c \in Nat : c = m + b
    OBVIOUS
  <1>9. Joined(text, V, p, r, a, c)
    BY <1>2, <1>3, <1>6, <1>7, <1>8, JoinedIs
  <1>10. /\ Len(text) = a + c
         /\ (\A k \in 1..a : text[k] = p[k]) /\ (\A k \in 1..c : text[a + k] = r[k])
    BY <1>9 DEF Joined
  <1>11. ~IsBlank(text[1]) /\ ~IsBlank(text[Len(text)])
    BY BareIs
  <1>12. a = 0
    <2>1. SUFFICES ASSUME a # 0 PROVE FALSE
      OBVIOUS
    <2>2. 1 \in 1..a
      BY <2>1
    <2> QED
      BY <1>2, <1>3, <1>10, <1>11, <2>2, BlankIs
  <1>13. b = 0
    <2>1. SUFFICES ASSUME b # 0 PROVE FALSE
      OBVIOUS
    <2>2. b \in 1..b /\ c \in 1..c
      BY <1>8, <2>1
    <2>3. text[a + c] = r[c] /\ r[m + b] = q[b] /\ IsBlank(q[b])
      BY <1>2, <1>5, <1>7, <1>10, <2>2, BlankIs
    <2> QED
      BY <1>8, <1>10, <1>11, <2>3
  <1>14. p = <<>> /\ q = <<>>
    BY <1>2, <1>3, <1>5, <1>12, <1>13
  <1>15. Then(<<>>, Then(part, <<>>)) = part
    BY ThenNothing
  <1> QED
    BY <1>2, <1>14, <1>15
-----------------------------------------------------------------------------
\* A text without a mark that opens a placeholder stands for itself.
LEMMA PlainRewritten ==
  ASSUME NEW V, NEW x \in Seq(V), NEW open, NEW close, NEW D, NEW by, Rewriting(V, open, close, D, by),
         Without(x, open)
  PROVE  Rewrite(x, open, close, by) = x
  <1>1. PICK e \in Seq(V) : e = <<>>
    <2>1. <<>> \in Seq(V)
      OBVIOUS
    <2> QED
      BY <2>1, Zenon
  <1>2. Rewrite(e, open, close, by) = e
    BY <1>1, RewriteType
  <1>3. Rewrite(Then(x, e), open, close, by) = Then(x, Rewrite(e, open, close, by))
    BY RewritePlain
  <1>4. Then(x, e) = x
    BY <1>1, ThenNothing
  <1> QED
    BY <1>2, <1>3, <1>4

\* So does a text without placeholders when values are put for them.
LEMMA PlainStands ==
  ASSUME NEW ps, ToldApart(ps), NEW v \in Seq(Frag), Without(v, Opened)
  PROVE  StandsFor(ps, v, v)
  <1>1. Rewriting(Frag, Opened, Closed, Names(ps), Values(ps))
    BY ValuesAre
  <1> QED
    BY <1>1, PlainRewritten DEF StandsFor

\* A placeholder stands for the value of its parameter.
LEMMA PlaceholderStands ==
  ASSUME NEW ps, ToldApart(ps), NEW i \in DOMAIN ps
  PROVE  StandsFor(ps, Placeholder(ps[i].name), ps[i].value)
  <1>1. Rewriting(Frag, Opened, Closed, Names(ps), Values(ps))
    BY ValuesAre
  <1>2. PICK name \in Names(ps) : name = ps[i].name /\ Values(ps)[name] = ps[i].value
    BY ValuesAre
  <1>3. IsName(Frag, name) /\ ps[i].value \in Seq(Frag)
    BY <1>2, ParameterIs
  <1>4. PICK e \in Seq(Frag) : e = <<>>
    <2>1. <<>> \in Seq(Frag)
      OBVIOUS
    <2> QED
      BY <2>1, Zenon
  <1>5. Rewrite(Then(Marked(Opened, name, Closed), e), Opened, Closed, Values(ps))
          = Then(Values(ps)[name], Rewrite(e, Opened, Closed, Values(ps)))
    BY <1>1, <1>3, RewriteName
  <1>6. Rewrite(e, Opened, Closed, Values(ps)) = e
    BY <1>1, <1>4, RewriteType
  <1>7. PICK w \in Seq(Frag) : w = Marked(Opened, name, Closed)
    BY <1>3, BracketsAre, MarkedType DEF IsName
  <1>8. Then(w, e) = w /\ Then(ps[i].value, e) = ps[i].value
    BY <1>3, <1>4, ThenNothing
  <1>9. Rewrite(w, Opened, Closed, Values(ps)) = ps[i].value
    BY <1>2, <1>5, <1>6, <1>7, <1>8
  <1>10. w = Placeholder(ps[i].name)
    BY <1>2, <1>7, PlaceholderIs
  <1> QED
    BY <1>3, <1>9, <1>10 DEF StandsFor

\* A placeholder by itself is replaced by a value that, with blanks around it, is what the text
\* stands for.
LEMMA AloneStands ==
  ASSUME NEW ps, ToldApart(ps), NEW w, NEW v, StandsFor(ps, w, v), NEW i \in DOMAIN ps,
         Around(w, Placeholder(ps[i].name))
  PROVE  Around(v, ps[i].value)
  <1>1. Rewriting(Frag, Opened, Closed, Names(ps), Values(ps))
    BY ValuesAre
  <1>2. PICK name \in Names(ps) : name = ps[i].name /\ Values(ps)[name] = ps[i].value
    BY ValuesAre
  <1>3. IsName(Frag, name) /\ ps[i].value \in Seq(Frag) /\ ps[i].value # <<>>
    BY <1>2, ParameterIs
  <1>4. w \in Seq(Frag) /\ v \in Seq(Frag) /\ Rewrite(w, Opened, Closed, Values(ps)) = v
    BY DEF StandsFor
  <1>5. PICK m \in Seq(Frag) : m = Marked(Opened, name, Closed) /\ m # <<>>
    <2>1. PICK m \in Seq(Frag) : m = Marked(Opened, name, Closed)
      BY <1>3, BracketsAre, MarkedType DEF IsName
    <2>2. PICK s \in Seq(Frag) : m = Then(<<Opened>>, s)
      BY <1>3, <2>1, BracketsAre, MarkedFirst DEF IsName
    <2>3. <<Opened>> \o s # <<>>
      OBVIOUS
    <2>4. m # <<>>
      BY <2>2, <2>3, Zenon DEF Then
    <2> QED
      BY <2>1, <2>4
  <1>6. PICK p, q : Padded(Frag, w, m, p, q)
    BY <1>2, <1>4, <1>5, PlaceholderIs, AroundParts
  <1>7. p \in Seq(Frag) /\ q \in Seq(Frag) /\ Blank(p) /\ Blank(q) /\ w = Then(p, Then(m, q))
    BY <1>6 DEF Padded
  <1>8. ~IsBlank(Opened)
    BY Zenon DEF IsBlank, Opened
  <1>9. Without(p, Opened) /\ Without(q, Opened)
    BY <1>7, <1>8, BlankIs DEF Without
  <1>10. Then(m, q) \in Seq(Frag)
    BY <1>7, ThenType
  <1>11. Rewrite(w, Opened, Closed, Values(ps)) = Then(p, Rewrite(Then(m, q), Opened, Closed, Values(ps)))
    BY <1>1, <1>7, <1>9, <1>10, RewritePlain
  <1>12. Rewrite(Then(m, q), Opened, Closed, Values(ps)) = Then(ps[i].value, Rewrite(q, Opened, Closed, Values(ps)))
    BY <1>1, <1>2, <1>3, <1>5, <1>7, RewriteName
  <1>13. Rewrite(q, Opened, Closed, Values(ps)) = q
    BY <1>1, <1>7, <1>9, PlainRewritten
  <1>14. v = Then(p, Then(ps[i].value, q))
    BY <1>4, <1>11, <1>12, <1>13
  <1>15. Padded(Frag, v, ps[i].value, p, q)
    BY <1>7, <1>14 DEF Padded
  <1> QED
    BY <1>3, <1>15, PaddedIsAround

\* What a text of a workflow resolves to: what it stands for, up to the blanks around a value.
LEMMA ResolvedIs ==
  ASSUME NEW ps, ToldApart(ps), NEW w, NEW v, StandsFor(ps, w, v)
  PROVE  \/ Resolved(ps, w) = v
         \/ \E k \in DOMAIN ps : Resolved(ps, w) = ps[k].value /\ Around(v, ps[k].value)
  <1> DEFINE alone == {i \in DOMAIN ps : Around(w, Placeholder(ps[i].name))}
  <1>2. Resolved(ps, w) = IF alone # {} THEN ps[CHOOSE i \in alone : TRUE].value
                          ELSE Rewrite(w, Opened, Closed, Values(ps))
    BY Zenon DEF Resolved, Opened, Closed, Values
  <1>1. \A i \in alone : i \in DOMAIN ps /\ Around(w, Placeholder(ps[i].name))
    OBVIOUS
  <1> HIDE DEF alone
  <1>3. CASE alone = {}
    BY <1>2, <1>3 DEF StandsFor
  <1>4. CASE alone # {}
    <2>1. PICK k : k = CHOOSE i \in alone : TRUE
      OBVIOUS
    <2>2. k \in alone
      BY <1>4, <2>1
    <2>3. k \in DOMAIN ps /\ Around(w, Placeholder(ps[k].name))
      BY <1>1, <2>2
    <2>4. Around(v, ps[k].value)
      BY <2>3, AloneStands
    <2>5. Resolved(ps, w) = ps[k].value
      BY <1>2, <1>4, <2>1
    <2> QED
      BY <2>3, <2>4, <2>5
  <1> QED
    BY <1>3, <1>4

\* Nothing is lost of a text without blanks at its ends.
LEMMA BareResolved ==
  ASSUME NEW ps, ToldApart(ps), NEW w, NEW v, StandsFor(ps, w, v), Bare(v)
  PROVE  Resolved(ps, w) = v
  <1>1. v \in Seq(Frag)
    BY DEF StandsFor
  <1>2. ASSUME NEW k \in DOMAIN ps, Around(v, ps[k].value)
        PROVE  ps[k].value = v
    <2>1. ps[k].value \in Seq(Frag) /\ ps[k].value # <<>>
      BY ParameterIs
    <2> QED
      BY <1>1, <1>2, <2>1, BareAlone
  <1> QED
    BY <1>2, ResolvedIs
-----------------------------------------------------------------------------
\* A recursion over the first n numbers.
Recurs(F, n, base, step) == F = [k \in 0..n |-> IF k = 0 THEN base ELSE step[k][F[k - 1]]]

\* It defines something, and what it defines is determined step by step.
LEMMA RecursionExists ==
  ASSUME NEW n \in Nat, NEW S, NEW base \in S, NEW step \in [1..n -> [S -> S]]
  PROVE  \E F \in [0..n -> S] : Recurs(F, n, base, step)
  <1> DEFINE Solved(F, m) == \A k \in 0..n : k <= m => F[k] = IF k = 0 THEN base ELSE step[k][F[k - 1]]
             N == {m \in Nat : m <= n => \E F \in [0..n -> S] : Solved(F, m)}
  <1>1. 0 \in N
    <2>1. PICK F \in [0..n -> S] : F = [k \in 0..n |-> base]
      OBVIOUS
    <2>2. Solved(F, 0)
      BY <2>1
    <2> QED
      BY <2>2
  <1>2. ASSUME NEW m \in Nat, m \in N
        PROVE  m + 1 \in N
    <2> SUFFICES ASSUME m + 1 <= n PROVE \E F \in [0..n -> S] : Solved(F, m + 1)
      OBVIOUS
    <2>1. PICK F \in [0..n -> S] : Solved(F, m)
      BY <1>2
    <2>2. PICK p \in 1..n : p = m + 1 /\ p - 1 = m
      OBVIOUS
    <2>3. PICK v \in S : v = step[p][F[m]]
      <3>1. F[m] \in S
        BY <2>2
      <3>2. step[p] \in [S -> S]
        OBVIOUS
      <3> QED
        BY <3>1, <3>2
    <2>4. PICK G \in [0..n -> S] : G[p] = v /\ \A k \in 0..n : k # p => G[k] = F[k]
      <3>1. [F EXCEPT ![p] = v] \in [0..n -> S] /\ p \in 0..n
        OBVIOUS
      <3> QED
        BY <3>1
    <2>5. ASSUME NEW k \in 0..n, k <= m + 1
          PROVE  G[k] = IF k = 0 THEN base ELSE step[k][G[k - 1]]
      <3>1. k # 0 => k - 1 \in 0..n /\ k - 1 # p
        BY <2>2, <2>5
      <3>2. CASE k = p
        <4>1. k # 0 /\ k - 1 = m /\ m \in 0..n /\ m # p
          BY <2>2, <3>2
        <4>2. G[m] = F[m]
          BY <2>4, <4>1
        <4> QED
          BY <2>3, <2>4, <3>2, <4>1, <4>2
      <3>3. CASE k # p
        <4>1. k <= m
          BY <2>2, <2>5, <3>3
        <4>2. F[k] = IF k = 0 THEN base ELSE step[k][F[k - 1]]
          BY <2>1, <4>1
        <4>3. G[k] = F[k] /\ (k # 0 => G[k - 1] = F[k - 1])
          BY <2>4, <3>1, <3>3
        <4> QED
          BY <4>2, <4>3
      <3> QED
        BY <3>2, <3>3
    <2> QED
      BY <2>5
  <1>3. n \in N
    <2> HIDE DEF N
    <2> QED
      BY <1>1, <1>2, SetInduction
  <1>4. PICK F \in [0..n -> S] : Solved(F, n)
    BY <1>3
  <1>5. Recurs(F, n, base, step)
    <2>1. F = [k \in 0..n |-> F[k]]
      OBVIOUS
    <2>2. \A k \in 0..n : F[k] = IF k = 0 THEN base ELSE step[k][F[k - 1]]
      BY <1>4
    <2>3. [k \in 0..n |-> F[k]] = [k \in 0..n |-> IF k = 0 THEN base ELSE step[k][F[k - 1]]]
      BY <2>2
    <2> QED
      BY <2>1, <2>3 DEF Recurs
  <1> QED
    BY <1>5

\* What is chosen for it satisfies it.
LEMMA RecursionIs ==
  ASSUME NEW n \in Nat, NEW base, NEW step, NEW F, Recurs(F, n, base, step)
  PROVE  F[0] = base /\ \A k \in 1..n : F[k] = step[k][F[k - 1]]
  <1>1. 0 \in 0..n /\ \A k \in 1..n : k \in 0..n /\ k # 0
    OBVIOUS
  <1>2. \A k \in 0..n : F[k] = IF k = 0 THEN base ELSE step[k][F[k - 1]]
    BY DEF Recurs
  <1> QED
    BY <1>1, <1>2

\* The number of characters of a text is a number.
LEMMA TotalIs ==
  ASSUME NEW V, NEW text \in Seq(V), \A k \in DOMAIN text : Size[text[k]] \in Nat
  PROVE  Total(text) \in Nat
  <1> DEFINE Sums(F) == F = [k \in 0..Len(text) |-> IF k = 0 THEN 0 ELSE Size[text[k]] + F[k - 1]]
  <1>1. PICK n \in Nat : n = Len(text) /\ DOMAIN text = 1..n
    BY LenIs, Zenon
  <1>2. PICK step : step = [k \in 1..n |-> [x \in Nat |-> Size[text[k]] + x]]
    OBVIOUS
  <1>3. step \in [1..n -> [Nat -> Nat]]
    BY <1>1, <1>2, SMTT(30)
  <1>4. 0 \in Nat
    OBVIOUS
  <1>5. PICK F \in [0..n -> Nat] : Recurs(F, n, 0, step)
    BY <1>3, <1>4, RecursionExists
  <1>6. Sums(F)
    <2>1. ASSUME NEW k \in 0..n
          PROVE  (IF k = 0 THEN 0 ELSE step[k][F[k - 1]]) = IF k = 0 THEN 0 ELSE Size[text[k]] + F[k - 1]
      <3>1. CASE k = 0
        BY <3>1
      <3>2. CASE k # 0
        <4>1. PICK x \in Nat : x = F[k - 1]
          <5>1. k - 1 \in 0..n
            BY <3>2
          <5> QED
            BY <5>1
        <4>2. step[k][x] = Size[text[k]] + x
          <5>1. k \in 1..n
            BY <3>2
          <5> QED
            BY <1>2, <5>1
        <4> QED
          BY <3>2, <4>1, <4>2
      <3> QED
        BY <3>1, <3>2
    <2>2. F = [k \in 0..n |-> IF k = 0 THEN 0 ELSE step[k][F[k - 1]]]
      BY <1>5 DEF Recurs
    <2> QED
      BY <1>1, <2>1, <2>2
  <1>7. PICK G : G = CHOOSE H : Sums(H)
    OBVIOUS
  <1>8. Total(text) = G[n]
    BY <1>1, <1>7, Zenon DEF Total
  <1>9. Sums(G)
    <2> HIDE DEF Sums
    <2> QED
      BY <1>6, <1>7, Zenon
  <1> DEFINE N == {k \in Nat : k <= n => G[k] \in Nat}
  <1>10. n \in N
    <2>0. \A k \in 0..n : G[k] = IF k = 0 THEN 0 ELSE Size[text[k]] + G[k - 1]
      BY <1>1, <1>9
    <2>1. 0 \in N
      BY <2>0
    <2>2. ASSUME NEW k \in Nat, k \in N PROVE k + 1 \in N
      <3> SUFFICES ASSUME k + 1 <= n PROVE G[k + 1] \in Nat
        OBVIOUS
      <3>1. G[k] \in Nat
        BY <2>2
      <3>2. PICK j \in 1..n : j = k + 1 /\ j - 1 = k /\ j \in 0..n /\ j # 0
        OBVIOUS
      <3>3. G[j] = Size[text[j]] + G[k]
        BY <2>0, <3>2
      <3>4. Size[text[j]] \in Nat
        BY <1>1
      <3> QED
        BY <3>1, <3>2, <3>3, <3>4
    <2> HIDE DEF N
    <2> QED
      BY <2>1, <2>2, SetInduction
  <1> QED
    BY <1>8, <1>10
-----------------------------------------------------------------------------
\* The order of replacement has every parameter, and nothing else.
LEMMA ByLengthIs ==
  ASSUME NEW ps, ToldApart(ps), NEW n \in Nat, n = Len(ps)
  PROVE  /\ \A p \in 1..n : ByLength(ps)[p] \in 1..n
         /\ \A i \in 1..n : \E p \in 1..n : ByLength(ps)[p] = i
  <1>1. DOMAIN ps = 1..n
    <2>1. \A V : \A s \in Seq(V) : DOMAIN s = 1..Len(s)
      OBVIOUS
    <2> QED
      BY <2>1, Zenon DEF ToldApart, IsParameters
  <1>2. PICK T : T = [i \in 1..n |-> Total(ps[i].value)]
    OBVIOUS
  <1>3. \A i \in 1..n : T[i] \in Nat
    <2>1. ASSUME NEW i \in 1..n PROVE Total(ps[i].value) \in Nat
      <3>1. i \in DOMAIN ps
        BY <1>1
      <3>2. ps[i].value \in Seq(Frag)
        BY <3>1, ParameterIs
      <3>3. \A k \in DOMAIN ps[i].value : Size[ps[i].value[k]] \in Nat
        BY <3>1, Zenon DEF ToldApart, IsParameters
      <3> QED
        BY <3>2, <3>3, TotalIs
    <2> QED
      BY <1>2, <2>1
  <1>4. PICK B : B = [i \in 1..n |-> {j \in 1..n : T[j] > T[i] \/ (T[j] = T[i] /\ j < i)}]
    OBVIOUS
  <1>5. PICK Place : Place = [i \in 1..n |-> 1 + Cardinality(B[i])]
    OBVIOUS
  <1>6. IsFiniteSet(1..n) /\ Cardinality(1..n) = n
    <2>1. 1 \in Int /\ n \in Int
      OBVIOUS
    <2>2. IsFiniteSet(1..n) /\ Cardinality(1..n) = IF 1 > n THEN 0 ELSE n - 1 + 1
      BY <2>1, FS_Interval, Zenon
    <2> QED
      BY <2>2
  <1>7. \A i \in 1..n : B[i] \subseteq 1..n /\ i \notin B[i]
    BY <1>3, <1>4
  <1>8. \A i \in 1..n : IsFiniteSet(B[i]) /\ Cardinality(B[i]) \in Nat /\ Cardinality(B[i]) < n
    <2>1. ASSUME NEW i \in 1..n
          PROVE  IsFiniteSet(B[i]) /\ Cardinality(B[i]) \in Nat /\ Cardinality(B[i]) < n
      <3>1. B[i] \subseteq 1..n /\ B[i] # 1..n
        BY <1>7
      <3>2. IsFiniteSet(B[i]) /\ Cardinality(B[i]) <= n /\ Cardinality(B[i]) # n
        BY <1>6, <3>1, FS_Subset
      <3>3. Cardinality(B[i]) \in Nat
        BY <3>2, FS_CardinalityType
      <3> QED
        BY <3>2, <3>3
    <2> QED
      BY <2>1
  <1>9. \A i, j \in 1..n : i \in B[j] => Cardinality(B[i]) # Cardinality(B[j])
    <2>1. ASSUME NEW i \in 1..n, NEW j \in 1..n, i \in B[j]
          PROVE  Cardinality(B[i]) # Cardinality(B[j])
      <3>1. T[i] > T[j] \/ (T[i] = T[j] /\ i < j)
        BY <1>4, <2>1
      <3>2. \A k \in 1..n : T[k] > T[i] \/ (T[k] = T[i] /\ k < i) => T[k] > T[j] \/ (T[k] = T[j] /\ k < j)
        BY <1>3, <3>1
      <3>3. B[i] \subseteq B[j]
        BY <1>4, <3>2
      <3>4. B[i] # B[j]
        BY <1>7, <2>1
      <3> QED
        BY <1>8, <3>3, <3>4, FS_Subset
    <2> QED
      BY <2>1
  <1>10. \A i, j \in 1..n : Place[i] = Place[j] => i = j
    <2>1. \A i, j \in 1..n : i # j => i \in B[j] \/ j \in B[i]
      BY <1>3, <1>4
    <2>2. \A i, j \in 1..n : Place[i] = Place[j] => Cardinality(B[i]) = Cardinality(B[j])
      BY <1>5, <1>8
    <2> QED
      BY <1>9, <2>1, <2>2
  <1>11. Place \in [1..n -> 1..n]
    BY <1>5, <1>8
  <1>12. Place \in Injection(1..n, 1..n)
    BY <1>10, <1>11, Zenon DEF Injection, IsInjective
  <1>13. Place \in Surjection(1..n, 1..n)
    BY <1>6, <1>12, FS_Injection
  <1>14. \A p \in 1..n : \E i \in 1..n : Place[i] = p
    BY <1>13, Zenon DEF Surjection
  <1>15. PICK order : order = ByLength(ps)
    OBVIOUS
  <1>16. \A p \in 1..n : order[p] = CHOOSE i \in 1..n : Place[i] = p
    <2> DEFINE Before(i, j) == \/ Total(ps[i].value) > Total(ps[j].value)
                               \/ Total(ps[i].value) = Total(ps[j].value) /\ i < j
               At(i) == 1 + Cardinality({j \in DOMAIN ps : Before(j, i)})
    <2>1. order = [p \in DOMAIN ps |-> CHOOSE i \in DOMAIN ps : At(i) = p]
      BY <1>15, Zenon DEF ByLength
    <2>2. ASSUME NEW i \in 1..n PROVE At(i) = Place[i]
      <3>1. \A j \in 1..n : Before(j, i) <=> T[j] > T[i] \/ (T[j] = T[i] /\ j < i)
        BY <1>2, Zenon
      <3>2. {j \in DOMAIN ps : Before(j, i)} = B[i]
        <4> HIDE DEF Before
        <4> QED
          BY <1>1, <1>4, <3>1
      <3> QED
        BY <1>5, <3>2, Zenon
    <2> HIDE DEF At
    <2>3. ASSUME NEW p \in 1..n PROVE order[p] = CHOOSE i \in 1..n : Place[i] = p
      <3>1. \A i : (i \in 1..n /\ At(i) = p) <=> (i \in 1..n /\ Place[i] = p)
        BY <2>2
      <3>2. (CHOOSE i \in DOMAIN ps : At(i) = p) = CHOOSE i \in 1..n : Place[i] = p
        BY <1>1, <3>1
      <3> QED
        BY <1>1, <2>1, <3>2
    <2> QED
      BY <2>3
  <1>17. \A p \in 1..n : order[p] \in 1..n /\ Place[order[p]] = p
    BY <1>14, <1>16, SMTT(30)
  <1>18. \A i \in 1..n : order[Place[i]] = i
    BY <1>10, <1>11, <1>17
  <1> QED
    BY <1>11, <1>15, <1>17, <1>18
-----------------------------------------------------------------------------
\* A text without brackets is a text of literals, however parameters are rendered.
LEMMA LiteralsAre ==
  ASSUME NEW ps, NEW r, IsRendering(ps, r), NEW s, IsRendering(ps, s)
  PROVE  \A x \in Seq(Frag) : (\A mark \in Brackets : Without(x, mark)) =>
           \E us \in Seq(Units(ps)) : Text(ps, r, us) = x /\ Text(ps, s, us) = x
  <1> DEFINE S == {x \in Seq(Frag) : (\A mark \in Brackets : Without(x, mark)) =>
                     \E us \in Seq(Units(ps)) : Text(ps, r, us) = x /\ Text(ps, s, us) = x}
  <1>1. PICK f, g : f = Render(ps, r) /\ g = Render(ps, s)
    OBVIOUS
  <1>2. f \in [Units(ps) -> Seq(Frag)] /\ g \in [Units(ps) -> Seq(Frag)]
    BY <1>1, RenderIs
  <1>f. \A u \in Units(ps) : u.param = 0 => f[u] = <<u.word>>
    BY <1>1, RenderIs
  <1>g. \A u \in Units(ps) : u.param = 0 => g[u] = <<u.word>>
    BY <1>1, RenderIs
  <1>3. <<>> \in S
    <2>1. <<>> \in Seq(Frag) /\ <<>> \in Seq(Units(ps))
      OBVIOUS
    <2>2. FlatMap(f, <<>>) = <<>> /\ FlatMap(g, <<>>) = <<>>
      BY FlatMapEmpty
    <2> QED
      BY <1>1, <2>1, <2>2, Zenon DEF Text
  <1>4. ASSUME NEW x \in Seq(Frag), NEW c \in Frag, x \in S
        PROVE  <<c>> \o x \in S
    <2>1. PICK y \in Seq(Frag) : y = Then(<<c>>, x)
      BY One, ThenType, Zenon
    <2>2. ASSUME \A mark \in Brackets : Without(y, mark)
          PROVE  \E us \in Seq(Units(ps)) : Text(ps, r, us) = y /\ Text(ps, s, us) = y
      <3>1. \A mark \in Brackets : c # mark /\ Without(x, mark)
        BY <2>1, <2>2, WithoutSplit
      <3>2. PICK us \in Seq(Units(ps)) : Text(ps, r, us) = x /\ Text(ps, s, us) = x
        BY <1>4, <3>1
      <3>3. PICK u : u = [word |-> c, param |-> 0]
        OBVIOUS
      <3>4. u \in [word : Frag, param : Nat] /\ u.param = 0 /\ u.word = c
        BY <3>3
      <3>5. u \in Units(ps)
        BY <3>1, <3>4 DEF Units
      <3>6. f[u] = <<c>> /\ g[u] = <<c>>
        BY <1>f, <1>g, <3>4, <3>5, Zenon
      <3>7. PICK all \in Seq(Units(ps)) : all = Then(<<u>>, us)
        BY <3>5, One, ThenType, Zenon
      <3>8. FlatMap(f, all) = Then(f[u], FlatMap(f, us)) /\ FlatMap(g, all) = Then(g[u], FlatMap(g, us))
        BY <1>2, <3>5, <3>7, FlatMapThen, ZenonT(60)
      <3>9. FlatMap(f, us) = x /\ FlatMap(g, us) = x
        BY <1>1, <3>2, Zenon DEF Text
      <3>10. Text(ps, r, all) = y /\ Text(ps, s, all) = y
        BY <1>1, <2>1, <3>6, <3>8, <3>9, Zenon DEF Text
      <3> QED
        BY <3>10
    <2>3. y \in S
      BY <2>2
    <2> HIDE DEF S
    <2> QED
      BY <2>1, <2>3, Zenon DEF Then
  <1>5. Seq(Frag) \subseteq S
    <2> HIDE DEF S
    <2> QED
      BY <1>3, <1>4, ConsInduction
  <1> QED
    BY <1>5

\* A placeholder is a text, and has the mark that opens it.
LEMMA HoleIs ==
  ASSUME NEW ps, ToldApart(ps), NEW i \in DOMAIN ps
  PROVE  /\ Placeholder(ps[i].name) \in Seq(Frag) /\ ~Without(Placeholder(ps[i].name), Opened)
         /\ Replacing(Frag, ps[i].value, Placeholder(ps[i].name))
  <1>1. ps[i].name \in Seq(Frag) /\ ps[i].value \in Seq(Frag) /\ ps[i].value # <<>>
    BY ParameterIs DEF IsName
  <1>0. PICK name \in Seq(Frag) : name = ps[i].name
    BY <1>1
  <1>2. PICK m \in Seq(Frag) : m = Marked(Opened, name, Closed)
    BY BracketsAre, MarkedType
  <1>3. PICK s \in Seq(Frag) : m = Then(<<Opened>>, s)
    BY <1>2, BracketsAre, MarkedFirst
  <1>4. ~Without(m, Opened)
    BY <1>3, BracketsAre, WithoutSplit
  <1>5. m = Placeholder(ps[i].name)
    BY <1>0, <1>2, PlaceholderIs
  <1> QED
    BY <1>1, <1>4, <1>5 DEF Replacing

\* Putting a placeholder for a value that is looked for in a text keeps what the text stands for.
LEMMA ReplaceHole ==
  ASSUME NEW ps, ToldApart(ps), NEW i \in DOMAIN ps, ~(Total(ps[i].value) < MinEmbedded),
         NEW us \in Seq(Units(ps))
  PROVE  \E new \in Seq(Units(ps)) :
           /\ Replace(Text(ps, AsHoles(ps), us), ps[i].value, Placeholder(ps[i].name)) = Text(ps, AsHoles(ps), new)
           /\ Text(ps, AsTyped(ps), new) = Text(ps, AsTyped(ps), us)
  <1>1. PICK U, H, W, part, by : /\ U = Units(ps) /\ H = Render(ps, AsHoles(ps)) /\ W = Render(ps, AsTyped(ps))
                                 /\ part = ps[i].value /\ by = Placeholder(ps[i].name)
    OBVIOUS
  <1>h. /\ H \in [U -> Seq(Frag)]
        /\ \A u \in U : u.param = 0 => H[u] = <<u.word>> /\ u.word \in Frag
        /\ \A u \in U : u.param # 0 => H[u] = AsHoles(ps)[u.param] /\ u.param \in DOMAIN ps
    BY <1>1, RenderingsAre, RenderIs
  <1>w. /\ W \in [U -> Seq(Frag)]
        /\ \A u \in U : u.param = 0 => W[u] = <<u.word>> /\ u.word \in Frag
        /\ \A u \in U : u.param # 0 => W[u] = AsTyped(ps)[u.param] /\ u.param \in DOMAIN ps
    BY <1>1, RenderingsAre, RenderIs
  <1>2. Total(part) \in Nat
    <2>1. part \in Seq(Frag)
      BY <1>1, ParameterIs
    <2>2. \A k \in DOMAIN part : Size[part[k]] \in Nat
      BY <1>1, Zenon DEF ToldApart, IsParameters
    <2> QED
      BY <2>1, <2>2, TotalIs
  <1>3. ASSUME NEW j \in DOMAIN ps PROVE ~Within(ps[j].name, part)
    <2>1. Total(part) >= MinEmbedded
      BY <1>1, <1>2 DEF MinEmbedded
    <2>2. Separable(ps)
      BY DEF ToldApart
    <2> QED
      BY <1>1, <2>1, <2>2, Zenon DEF Separable
  <1>4. ASSUME NEW u \in U
        PROVE  \/ \E c \in Frag : H[u] = <<c>> /\ W[u] = <<c>>
               \/ \E name \in Seq(Frag) : H[u] = Marked(Opened, name, Closed) /\ ~Within(name, part)
    <2>1. CASE u.param = 0
      BY <1>h, <1>w, <2>1, Zenon
    <2>2. CASE u.param # 0
      <3>1. PICK j \in DOMAIN ps : j = u.param /\ H[u] = Placeholder(ps[j].name)
        BY <1>h, <2>2, Zenon DEF AsHoles
      <3>2. ps[j].name \in Seq(Frag)
        BY ParameterIs DEF IsName
      <3> QED
        BY <1>3, <3>1, <3>2, PlaceholderIs, Zenon
    <2> QED
      BY <2>1, <2>2
  <1>5. \E u \in U : H[u] = by /\ W[u] = part
    <2>1. PICK u : u = [word |-> "3", param |-> i]
      OBVIOUS
    <2>2. DOMAIN ps \subseteq Nat \ {0}
      <3>1. \A V : \A s \in Seq(V) : DOMAIN s \subseteq Nat \ {0}
        OBVIOUS
      <3> QED
        BY <3>1, Zenon DEF ToldApart, IsParameters
    <2>3. u \in [word : Frag, param : Nat] /\ u.param = i /\ i # 0
      BY <2>1, <2>2 DEF Frag
    <2>4. u \in U
      BY <1>1, <2>3, Zenon DEF Units
    <2>5. H[u] = AsHoles(ps)[i] /\ W[u] = AsTyped(ps)[i]
      BY <1>h, <1>w, <2>3, <2>4
    <2>6. AsHoles(ps)[i] = by /\ AsTyped(ps)[i] = part
      BY <1>1, Zenon DEF AsHoles, AsTyped
    <2> QED
      BY <2>4, <2>5, <2>6
  <1>6. part \in Seq(Frag) /\ part # <<>> /\ Without(part, Opened) /\ Without(part, Closed) /\ by \in Seq(Frag)
    BY <1>1, ParameterIs, HoleIs, BracketsAre
  <1>7. Exchanges(Frag, U, H, W, Opened, Closed, part, by)
    BY <1>h, <1>w, <1>4, <1>5, <1>6, BracketsAre DEF Exchanges
  <1>8. PICK new : Exchanged(Frag, U, H, W, part, by, us, new)
    BY <1>1, <1>7, ReplaceUnits
  <1> QED
    BY <1>1, <1>8, Zenon DEF Exchanged, Text
-----------------------------------------------------------------------------
\* The recursion inside EmbeddedValues.
Embeds(F, ps, text) ==
  F = [n \in 0..Len(ps) |->
         IF n = 0 THEN text
         ELSE IF Total(ps[ByLength(ps)[n]].value) < MinEmbedded THEN F[n - 1]
         ELSE Replace(F[n - 1], ps[ByLength(ps)[n]].value, Placeholder(ps[ByLength(ps)[n]].name))]

\* Its value, at a step that puts placeholders for one parameter, and at one that does not.
Embedding(x, ps, i) ==
  IF Total(ps[i].value) < MinEmbedded THEN x ELSE Replace(x, ps[i].value, Placeholder(ps[i].name))

\* There is a function that satisfies it.
LEMMA EmbedsExists ==
  ASSUME NEW ps, ToldApart(ps), NEW text \in Seq(Frag)
  PROVE  \E F : Embeds(F, ps, text)
  <1>1. PICK n \in Nat : n = Len(ps) /\ DOMAIN ps = 1..n
    BY LenIs, Zenon DEF ToldApart, IsParameters
  <1>2. PICK order : order = ByLength(ps)
    OBVIOUS
  <1>3. \A p \in 1..n : order[p] \in DOMAIN ps
    BY <1>1, <1>2, ByLengthIs
  <1>4. PICK step : step = [k \in 1..n |-> [x \in Seq(Frag) |-> Embedding(x, ps, order[k])]]
    OBVIOUS
  <1>5. step \in [1..n -> [Seq(Frag) -> Seq(Frag)]]
    <2>1. ASSUME NEW k \in 1..n, NEW x \in Seq(Frag) PROVE Embedding(x, ps, order[k]) \in Seq(Frag)
      <3>1. PICK i \in DOMAIN ps : i = order[k]
        BY <1>3
      <3>2. Replace(x, ps[i].value, Placeholder(ps[i].name)) \in Seq(Frag)
        BY HoleIs, ReplaceType
      <3> QED
        BY <3>1, <3>2, Zenon DEF Embedding
    <2> QED
      BY <1>4, <2>1, Zenon
  <1>6. PICK F \in [0..n -> Seq(Frag)] : Recurs(F, n, text, step)
    BY <1>5, RecursionExists
  <1>7. ASSUME NEW k \in 0..n
        PROVE  (IF k = 0 THEN text ELSE step[k][F[k - 1]])
                 = IF k = 0 THEN text ELSE Embedding(F[k - 1], ps, order[k])
    <2>1. CASE k = 0
      BY <2>1
    <2>2. CASE k # 0
      <3>1. k \in 1..n /\ k - 1 \in 0..n
        BY <2>2
      <3>2. step[k][F[k - 1]] = Embedding(F[k - 1], ps, order[k])
        BY <1>4, <3>1, Zenon
      <3> QED
        BY <3>2
    <2> QED
      BY <2>1, <2>2
  <1>8. F = [k \in 0..n |-> IF k = 0 THEN text ELSE Embedding(F[k - 1], ps, order[k])]
    BY <1>6, <1>7, Zenon DEF Recurs
  <1> QED
    BY <1>1, <1>2, <1>8, Zenon DEF Embeds, Embedding

\* What EmbeddedValues returns, and how it comes about.
LEMMA EmbeddedValuesAre ==
  ASSUME NEW ps, ToldApart(ps), NEW text \in Seq(Frag), NEW n \in Nat, n = Len(ps)
  PROVE  \E F : /\ EmbeddedValues(ps, text) = F[n] /\ F[0] = text
                /\ \A k \in 1..n : F[k] = Embedding(F[k - 1], ps, ByLength(ps)[k])
  <1>1. PICK F : F = CHOOSE G : Embeds(G, ps, text)
    OBVIOUS
  <1>2. EmbeddedValues(ps, text) = F[n]
    BY <1>1, Zenon DEF EmbeddedValues, Embeds
  <1>3. Embeds(F, ps, text)
    BY <1>1, EmbedsExists, Zenon
  <1>4. \A k \in 0..n : F[k] = IF k = 0 THEN text ELSE Embedding(F[k - 1], ps, ByLength(ps)[k])
    BY <1>3, Zenon DEF Embeds, Embedding
  <1>5. 0 \in 0..n /\ \A k \in 1..n : k \in 0..n /\ k # 0
    OBVIOUS
  <1> QED
    BY <1>2, <1>4, <1>5, Zenon

\* A text without brackets in which values have been looked for stands for itself, and is
\* unchanged only if there are none in it.
LEMMA EmbeddedStands ==
  ASSUME NEW ps, ToldApart(ps), NEW v \in Seq(Frag), \A mark \in Brackets : Without(v, mark)
  PROVE  /\ StandsFor(ps, EmbeddedValues(ps, v), v)
         /\ EmbeddedValues(ps, v) = v =>
              \A i \in DOMAIN ps : ~(Total(ps[i].value) < MinEmbedded) => ~Within(v, ps[i].value)
  <1>1. PICK n \in Nat : n = Len(ps) /\ DOMAIN ps = 1..n
    BY LenIs, Zenon DEF ToldApart, IsParameters
  <1>2. PICK order : order = ByLength(ps)
    OBVIOUS
  <1>3. \A p \in 1..n : order[p] \in DOMAIN ps
    BY <1>1, <1>2, ByLengthIs
  <1>11. \A i \in 1..n : \E p \in 1..n : order[p] = i
    BY <1>1, <1>2, ByLengthIs, SMTT(30)
  <1>4. PICK F : /\ EmbeddedValues(ps, v) = F[n] /\ F[0] = v
                 /\ \A k \in 1..n : F[k] = Embedding(F[k - 1], ps, order[k])
    BY <1>1, <1>2, EmbeddedValuesAre
  <1> DEFINE Shows(k) == \E us \in Seq(Units(ps)) : F[k] = Text(ps, AsHoles(ps), us) /\ Text(ps, AsTyped(ps), us) = v
             Same(k) == Without(F[k], Opened) =>
               /\ F[k] = v
               /\ \A j \in 1..k : ~(Total(ps[order[j]].value) < MinEmbedded) => ~Within(v, ps[order[j]].value)
             N == {k \in Nat : k <= n => F[k] \in Seq(Frag) /\ Shows(k) /\ Same(k)}
  <1>5. 0 \in N
    <2>1. Shows(0)
      BY <1>4, LiteralsAre, RenderingsAre
    <2>2. Same(0)
      BY <1>4
    <2> QED
      BY <1>4, <2>1, <2>2
  <1>6. ASSUME NEW k \in Nat, k \in N PROVE k + 1 \in N
    <2> SUFFICES ASSUME k + 1 <= n PROVE F[k + 1] \in Seq(Frag) /\ Shows(k + 1) /\ Same(k + 1)
      OBVIOUS
    <2>1. F[k] \in Seq(Frag) /\ Shows(k) /\ Same(k)
      BY <1>6
    <2>2. PICK q \in 1..n : q = k + 1 /\ q - 1 = k
      OBVIOUS
    <2>3. PICK i \in DOMAIN ps : i = order[q]
      BY <1>3
    <2>4. F[q] = Embedding(F[k], ps, i)
      BY <1>4, <2>2, <2>3
    <2>5. \A j \in 1..q : j # q => j \in 1..k
      BY <2>2
    <2>6. CASE Total(ps[i].value) < MinEmbedded
      <3>1. F[q] = F[k]
        BY <2>4, <2>6 DEF Embedding
      <3>2. Same(q)
        BY <2>1, <2>3, <2>5, <2>6, <3>1
      <3> QED
        BY <2>1, <2>2, <3>1, <3>2
    <2>7. CASE ~(Total(ps[i].value) < MinEmbedded)
      <3>1. PICK part, by : part = ps[i].value /\ by = Placeholder(ps[i].name)
        OBVIOUS
      <3>2. Replacing(Frag, part, by) /\ ~Without(by, Opened)
        BY <3>1, HoleIs
      <3>3. F[q] = Replace(F[k], part, by)
        BY <2>4, <2>7, <3>1 DEF Embedding
      <3>4. F[q] \in Seq(Frag)
        BY <2>1, <3>2, <3>3, ReplaceType
      <3>5. Shows(q)
        <4>1. PICK us \in Seq(Units(ps)) : F[k] = Text(ps, AsHoles(ps), us) /\ Text(ps, AsTyped(ps), us) = v
          BY <2>1
        <4>2. PICK new \in Seq(Units(ps)) :
                /\ Replace(Text(ps, AsHoles(ps), us), part, by) = Text(ps, AsHoles(ps), new)
                /\ Text(ps, AsTyped(ps), new) = Text(ps, AsTyped(ps), us)
          BY <2>7, <3>1, ReplaceHole
        <4> QED
          BY <3>3, <4>1, <4>2
      <3>6. Same(q)
        <4> SUFFICES ASSUME Without(F[q], Opened)
                     PROVE  /\ F[q] = v
                            /\ \A j \in 1..q : ~(Total(ps[order[j]].value) < MinEmbedded) => ~Within(v, ps[order[j]].value)
          OBVIOUS
        <4>1. F[q] = F[k] /\ ~Within(F[k], part)
          BY <2>1, <3>2, <3>3, ReplaceMarks
        <4>2. /\ F[k] = v
              /\ \A j \in 1..k : ~(Total(ps[order[j]].value) < MinEmbedded) => ~Within(v, ps[order[j]].value)
          BY <2>1, <4>1
        <4> QED
          BY <2>3, <2>5, <3>1, <4>1, <4>2
      <3> QED
        BY <2>2, <3>4, <3>5, <3>6
    <2> QED
      BY <2>6, <2>7
  <1>7. n \in N
    <2> HIDE DEF N
    <2> QED
      BY <1>5, <1>6, SetInduction
  <1>8. Shows(n) /\ Same(n)
    BY <1>7
  <1>9. StandsFor(ps, F[n], v)
    <2>1. PICK us \in Seq(Units(ps)) : F[n] = Text(ps, AsHoles(ps), us) /\ Text(ps, AsTyped(ps), us) = v
      BY <1>8
    <2> QED
      BY <2>1, RenderingsStand
  <1>10. ASSUME F[n] = v, NEW i \in DOMAIN ps, ~(Total(ps[i].value) < MinEmbedded) PROVE ~Within(v, ps[i].value)
    <2>1. Without(F[n], Opened)
      BY <1>10, BracketsAre
    <2>2. PICK p \in 1..n : order[p] = i
      BY <1>1, <1>11
    <2> QED
      BY <1>8, <1>10, <2>1, <2>2
  <1> QED
    BY <1>4, <1>9, <1>10
-----------------------------------------------------------------------------
\* A mark is in neither of two texts or in their concatenation.
LEMMA WithoutThen ==
  ASSUME NEW V, NEW a \in Seq(V), NEW x \in Seq(V), NEW mark
  PROVE  Without(Then(a, x), mark) <=> Without(a, mark) /\ Without(x, mark)
  <1>1. PICK m \in Nat : m = Len(a) /\ DOMAIN a = 1..m
    BY LenIs, Zenon
  <1>2. PICK n \in Nat : n = Len(x) /\ DOMAIN x = 1..n
    BY LenIs, Zenon
  <1>3. PICK t : t = Then(a, x)
    OBVIOUS
  <1>4. Joined(t, V, a, x, m, n)
    BY <1>1, <1>2, <1>3, JoinedIs
  <1>5. DOMAIN t = 1..m + n /\ (\A k \in 1..m : t[k] = a[k]) /\ (\A k \in 1..n : t[m + k] = x[k])
    BY <1>4 DEF Joined
  <1>6. ASSUME Without(t, mark) PROVE Without(a, mark) /\ Without(x, mark)
    <2>1. \A k \in 1..m + n : t[k] # mark
      BY <1>5, <1>6 DEF Without
    <2>2. (\A k \in 1..m : k \in 1..m + n) /\ \A k \in 1..n : m + k \in 1..m + n
      OBVIOUS
    <2> QED
      BY <1>1, <1>2, <1>5, <2>1, <2>2 DEF Without
  <1>7. ASSUME Without(a, mark), Without(x, mark) PROVE Without(t, mark)
    <2>1. ASSUME NEW k \in 1..m + n PROVE t[k] # mark
      <3>1. CASE k \in 1..m
        BY <1>1, <1>5, <1>7, <3>1 DEF Without
      <3>2. CASE k \notin 1..m
        <4>1. PICK j \in 1..n : k = m + j
          <5>1. k - m \in 1..n /\ k = m + (k - m)
            BY <3>2
          <5> QED
            BY <5>1, Zenon
        <4> QED
          BY <1>2, <1>5, <1>7, <4>1 DEF Without
      <3> QED
        BY <3>1, <3>2
    <2> QED
      BY <1>5, <2>1 DEF Without
  <1> QED
    BY <1>3, <1>6, <1>7

\* A name with marks around it has the marks, and no other that is not in the name.
LEMMA WithoutMarked ==
  ASSUME NEW V, NEW open \in V, NEW close \in V, NEW name \in Seq(V), NEW mark
  PROVE  Without(Marked(open, name, close), mark) <=> mark # open /\ mark # close /\ Without(name, mark)
  <1>1. PICK a, c \in Seq(V) : a = <<open>> /\ c = <<close>>
    <2>1. <<open>> \in Seq(V) /\ <<close>> \in Seq(V)
      OBVIOUS
    <2> QED
      BY <2>1, Zenon
  <1>2. (Without(a, mark) <=> mark # open) /\ (Without(c, mark) <=> mark # close)
    <2>1. \A e : DOMAIN <<e>> = {1} /\ <<e>>[1] = e
      OBVIOUS
    <2> QED
      BY <1>1, <2>1, Zenon DEF Without
  <1>3. PICK b \in Seq(V) : b = Then(a, name)
    BY ThenType, Zenon
  <1>4. Marked(open, name, close) = Then(b, c)
    BY <1>1, <1>3, Zenon DEF Marked, Then
  <1> QED
    BY <1>2, <1>3, <1>4, WithoutThen

\* What is within a text without a mark is without it.
LEMMA WithinWithout ==
  ASSUME NEW V, NEW text \in Seq(V), NEW part \in Seq(V), Within(text, part), NEW mark, Without(text, mark)
  PROVE  Without(part, mark)
  <1>1. PICK n \in Nat : n = Len(text) /\ DOMAIN text = 1..n
    BY LenIs, Zenon
  <1>2. PICK m \in Nat : m = Len(part) /\ DOMAIN part = 1..m
    BY LenIs, Zenon
  <1>3. PICK i \in Nat \ {0} : Occurs(part, text, i)
    <2>1. PICK i \in 1..n : Occurs(part, text, i)
      BY <1>1 DEF Within
    <2>2. i \in Nat \ {0}
      OBVIOUS
    <2> QED
      BY <2>1, <2>2
  <1>4. Occurs(part, text, i) <=> /\ i + Len(part) - 1 <= Len(text)
                                  /\ \A k \in 1..Len(part) : text[i + k - 1] = part[k]
    BY OccursAt
  <1>5. i + m - 1 <= n /\ \A k \in 1..m : text[i + k - 1] = part[k]
    BY <1>1, <1>2, <1>3, <1>4
  <1>6. ASSUME NEW k \in 1..m PROVE part[k] # mark
    <2>1. i + k - 1 \in 1..n
      BY <1>5
    <2> QED
      BY <1>1, <1>5, <2>1 DEF Without
  <1> QED
    BY <1>2, <1>6 DEF Without

\* A text has no bracket that no rendering of a parameter has.
LEMMA TextWithout ==
  ASSUME NEW ps, NEW r, IsRendering(ps, r), NEW mark \in Brackets, \A i \in DOMAIN ps : Without(r[i], mark)
  PROVE  \A us \in Seq(Units(ps)) : Without(Text(ps, r, us), mark)
  <1> DEFINE S == {us \in Seq(Units(ps)) : Without(Text(ps, r, us), mark)}
  <1>1. PICK f \in [Units(ps) -> Seq(Frag)] : f = Render(ps, r)
    BY RenderIs
  <1>2. \A u \in Units(ps) : u.param = 0 => f[u] = <<u.word>> /\ u.word \in Frag \ Brackets
    BY <1>1, RenderIs
  <1>3. \A u \in Units(ps) : u.param # 0 => f[u] = r[u.param] /\ u.param \in DOMAIN ps
    BY <1>1, RenderIs
  <1>4. <<>> \in S
    <2>1. <<>> \in Seq(Units(ps)) /\ DOMAIN <<>> = {}
      OBVIOUS
    <2>2. FlatMap(f, <<>>) = <<>>
      BY FlatMapEmpty
    <2> QED
      BY <1>1, <2>1, <2>2, Zenon DEF Text, Without
  <1>5. ASSUME NEW us \in Seq(Units(ps)), NEW u \in Units(ps), us \in S
        PROVE  <<u>> \o us \in S
    <2>1. PICK all \in Seq(Units(ps)) : all = Then(<<u>>, us)
      BY One, ThenType, Zenon
    <2>2. FlatMap(f, all) = Then(f[u], FlatMap(f, us))
      BY <2>1, FlatMapThen
    <2>3. FlatMap(f, us) \in Seq(Frag) /\ Without(FlatMap(f, us), mark)
      BY <1>1, <1>5, FlatMapType DEF Text
    <2>4. Without(f[u], mark)
      <3>1. CASE u.param = 0
        <4>1. \A e : DOMAIN <<e>> = {1} /\ <<e>>[1] = e
          OBVIOUS
        <4>2. f[u] = <<u.word>> /\ u.word # mark
          BY <1>2, <3>1, Zenon
        <4> QED
          BY <4>1, <4>2 DEF Without
      <3>2. CASE u.param # 0
        BY <1>3, <3>2, Zenon
      <3> QED
        BY <3>1, <3>2
    <2>5. f[u] \in Seq(Frag)
      OBVIOUS
    <2>6. Without(Then(f[u], FlatMap(f, us)), mark)
      BY <2>3, <2>4, <2>5, WithoutThen
    <2>7. all \in S
      BY <1>1, <2>2, <2>6 DEF Text
    <2> HIDE DEF S
    <2> QED
      BY <2>1, <2>7, Zenon DEF Then
  <1>6. Seq(Units(ps)) \subseteq S
    <2> HIDE DEF S
    <2> QED
      BY <1>4, <1>5, ConsInduction
  <1> QED
    BY <1>6

\* What is typed has no brackets.
LEMMA TypedWithout ==
  ASSUME NEW ps, ToldApart(ps), NEW us \in Seq(Units(ps))
  PROVE  \A mark \in Brackets : Without(Text(ps, AsTyped(ps), us), mark)
  <1>1. ASSUME NEW mark \in Brackets, NEW i \in DOMAIN ps PROVE Without(AsTyped(ps)[i], mark)
    BY ParameterIs, Zenon DEF AsTyped
  <1> QED
    BY <1>1, TextWithout, RenderingsAre

\* When placeholders stand for secrets there is no tag.
LEMMA MixedWithout ==
  ASSUME NEW ps, ToldApart(ps), NEW us \in Seq(Units(ps))
  PROVE  Without(Text(ps, AsMixed(ps), us), "<secret>")
  <1>0. "<secret>" # Opened /\ "<secret>" # Closed
    BY Zenon DEF Opened, Closed
  <1>1. ASSUME NEW i \in DOMAIN ps PROVE Without(AsMixed(ps)[i], "<secret>")
    <2>1. ps[i].name \in Seq(Frag) /\ Without(ps[i].value, "<secret>") /\ Without(ps[i].name, "<secret>")
      BY ParameterIs, BracketsAre DEF IsName
    <2>2. Without(Placeholder(ps[i].name), "<secret>")
      BY <1>0, <2>1, WithoutMarked, PlaceholderIs, BracketsAre
    <2> QED
      BY <2>1, <2>2, Zenon DEF AsMixed
  <1> QED
    BY <1>1, TextWithout, RenderingsAre, BracketsAre

\* Without a tag there is no secret in a text, and what is told is what is typed.
LEMMA UntaggedIs ==
  ASSUME NEW ps, ToldApart(ps)
  PROVE  \A us \in Seq(Units(ps)) : Without(Text(ps, AsNamed(ps), us), "<secret>") =>
           /\ Text(ps, AsNamed(ps), us) = Text(ps, AsTyped(ps), us)
           /\ Text(ps, AsTold(ps), us) = Text(ps, AsTyped(ps), us)
  <1>1. PICK f, g, h : f = Render(ps, AsNamed(ps)) /\ g = Render(ps, AsTyped(ps)) /\ h = Render(ps, AsTold(ps))
    OBVIOUS
  <1>2. IsRendering(ps, AsNamed(ps)) /\ IsRendering(ps, AsTyped(ps)) /\ IsRendering(ps, AsTold(ps))
    BY RenderingsAre
  <1>f. /\ f \in [Units(ps) -> Seq(Frag)]
        /\ \A u \in Units(ps) : u.param = 0 => f[u] = <<u.word>>
        /\ \A u \in Units(ps) : u.param # 0 => f[u] = AsNamed(ps)[u.param] /\ u.param \in DOMAIN ps
    BY <1>1, <1>2, RenderIs
  <1>g. /\ g \in [Units(ps) -> Seq(Frag)]
        /\ \A u \in Units(ps) : u.param = 0 => g[u] = <<u.word>>
        /\ \A u \in Units(ps) : u.param # 0 => g[u] = AsTyped(ps)[u.param]
    BY <1>1, <1>2, RenderIs
  <1>h. /\ h \in [Units(ps) -> Seq(Frag)]
        /\ \A u \in Units(ps) : u.param = 0 => h[u] = <<u.word>>
        /\ \A u \in Units(ps) : u.param # 0 => h[u] = AsTold(ps)[u.param]
    BY <1>1, <1>2, RenderIs
  <1>3. ASSUME NEW u \in Units(ps), Without(f[u], "<secret>") PROVE f[u] = g[u] /\ h[u] = g[u]
    <2>1. CASE u.param = 0
      BY <1>f, <1>g, <1>h, <2>1, Zenon
    <2>2. CASE u.param # 0
      <3>1. PICK i \in DOMAIN ps : i = u.param
        BY <1>f, <2>2, Zenon
      <3>2. f[u] = AsNamed(ps)[i] /\ g[u] = ps[i].value /\ h[u] = Told(ps, i)
        BY <1>f, <1>g, <1>h, <2>2, <3>1, Zenon DEF AsTyped, AsTold
      <3>3. ~ps[i].secret
        <4> SUFFICES ASSUME ps[i].secret PROVE FALSE
          OBVIOUS
        <4>1. f[u] = Marked("<secret>", ps[i].name, "</secret>")
          BY <3>2, TagIs, Zenon DEF AsNamed
        <4>2. ps[i].name \in Seq(Frag)
          BY ParameterIs DEF IsName
        <4> QED
          BY <1>3, <4>1, <4>2, WithoutMarked, BracketsAre
      <3> QED
        BY <3>2, <3>3, Zenon DEF AsNamed, Told
    <2> QED
      BY <2>1, <2>2
  <1> DEFINE S == {us \in Seq(Units(ps)) : Without(FlatMap(f, us), "<secret>") =>
                     FlatMap(f, us) = FlatMap(g, us) /\ FlatMap(h, us) = FlatMap(g, us)}
  <1>4. <<>> \in S
    <2>1. <<>> \in Seq(Units(ps))
      OBVIOUS
    <2> QED
      BY <2>1, FlatMapEmpty
  <1>5. ASSUME NEW us \in Seq(Units(ps)), NEW u \in Units(ps), us \in S
        PROVE  <<u>> \o us \in S
    <2>1. PICK all \in Seq(Units(ps)) : all = Then(<<u>>, us)
      BY One, ThenType, Zenon
    <2>2. FlatMap(f, all) = Then(f[u], FlatMap(f, us))
      BY <1>f, <2>1, FlatMapThen
    <2>3. FlatMap(g, all) = Then(g[u], FlatMap(g, us))
      BY <1>g, <2>1, FlatMapThen
    <2>4. FlatMap(h, all) = Then(h[u], FlatMap(h, us))
      BY <1>h, <2>1, FlatMapThen
    <2>5. FlatMap(f, us) \in Seq(Frag) /\ f[u] \in Seq(Frag)
      BY <1>f, FlatMapType
    <2>6. ASSUME Without(FlatMap(f, all), "<secret>")
          PROVE  FlatMap(f, all) = FlatMap(g, all) /\ FlatMap(h, all) = FlatMap(g, all)
      <3>1. Without(f[u], "<secret>") /\ Without(FlatMap(f, us), "<secret>")
        BY <2>2, <2>5, <2>6, WithoutThen
      <3> QED
        BY <1>3, <1>5, <2>2, <2>3, <2>4, <3>1
    <2>7. all \in S
      BY <2>6
    <2> HIDE DEF S
    <2> QED
      BY <2>1, <2>7, Zenon DEF Then
  <1>6. Seq(Units(ps)) \subseteq S
    <2> HIDE DEF S
    <2> QED
      BY <1>4, <1>5, ConsInduction
  <1> QED
    BY <1>1, <1>6, Zenon DEF Text
-----------------------------------------------------------------------------
\* The only url parameter is taken for a text in which the agent used no parameter.
UsesNone(ps, text) ==
  ~\E i \in DOMAIN ps : /\ Within(text, Told(ps, i))
                        /\ ps[i].secret \/ text = ps[i].value \/ Total(ps[i].value) >= MinEmbedded
TakenForUrl(ps, text, isUrl) == isUrl /\ Cardinality({i \in DOMAIN ps : ps[i].url}) = 1 /\ UsesNone(ps, text)

\* The last of some parameters is one of them.
LEMMA LastOfIs ==
  ASSUME NEW ps, ToldApart(ps), NEW S \in SUBSET DOMAIN ps, S # {}
  PROVE  LastOf(S) \in S
  <1>1. PICK n \in Nat : n = Len(ps) /\ DOMAIN ps = 1..n
    BY LenIs, Zenon DEF ToldApart, IsParameters
  <1>2. IsFiniteSet(S)
    <2>1. IsFiniteSet(1..n)
      BY FS_Interval
    <2> QED
      BY <1>1, <2>1, FS_Subset
  <1>3. PICK f \in [1..n -> Nat] : f = [i \in 1..n |-> i]
    <2>1. [i \in 1..n |-> i] \in [1..n -> Nat]
      OBVIOUS
    <2> QED
      BY <2>1, Zenon
  <1>4. S \in SUBSET (1..n)
    BY <1>1
  <1>5. PICK t \in S : \A m \in S : f[m] <= f[t]
    BY <1>2, <1>4, GreatestExists
  <1>6. \A m \in S : f[m] = m
    BY <1>3, <1>4
  <1>7. \A m \in S : m <= t
    BY <1>5, <1>6
  <1> QED
    BY <1>7, Zenon DEF LastOf

\* In a text without tags in which no value was found the agent used no parameter.
LEMMA UsesNoneIs ==
  ASSUME NEW ps, ToldApart(ps), NEW v \in Seq(Frag), Without(v, "<secret>"), Exact(ps, v) = {},
         \A i \in DOMAIN ps : ~(Total(ps[i].value) < MinEmbedded) => ~Within(v, ps[i].value)
  PROVE  UsesNone(ps, v)
  <1> SUFFICES ASSUME NEW i \in DOMAIN ps, Within(v, Told(ps, i)),
                      ps[i].secret \/ v = ps[i].value \/ Total(ps[i].value) >= MinEmbedded
               PROVE  FALSE
    BY Zenon DEF UsesNone
  <1>1. CASE ps[i].secret
    <2>1. i \in Secrets(ps)
      BY <1>1 DEF Secrets
    <2>2. PICK alias \in Seq(Frag) : alias = <<AliasOf(ps, i)>>
      BY <2>1, SecretIs DEF IsName
    <2>3. PICK tag \in Seq(Frag) : tag = Marked("<secret>", alias, "</secret>")
      BY BracketsAre, MarkedType
    <2>4. Told(ps, i) = tag
      BY <1>1, <2>2, <2>3, TagIs DEF Told
    <2>5. Without(tag, "<secret>")
      BY <2>4, WithinWithout
    <2> QED
      BY <2>3, <2>5, WithoutMarked, BracketsAre
  <1>2. CASE ~ps[i].secret
    <2>1. Told(ps, i) = ps[i].value
      BY <1>2 DEF Told
    <2>2. v # ps[i].value
      BY DEF Exact
    <2>3. Total(ps[i].value) < MinEmbedded
      BY <2>1
    <2>4. Total(ps[i].value) \in Nat
      <3>1. ps[i].value \in Seq(Frag)
        BY ParameterIs
      <3>2. \A k \in DOMAIN ps[i].value : Size[ps[i].value[k]] \in Nat
        BY Zenon DEF ToldApart, IsParameters
      <3> QED
        BY <3>1, <3>2, TotalIs
    <2> QED
      BY <1>2, <2>2, <2>3, <2>4 DEF MinEmbedded
  <1> QED
    BY <1>1, <1>2

\* What is left of a text that is not a number in the parameterized workflow stands for what is
\* typed, or it was taken for the url.
LEMMA ParameterizedIs ==
  ASSUME NEW ps, ToldApart(ps), NEW us \in Seq(Units(ps)), NEW isUrl \in BOOLEAN
  PROVE  \/ StandsFor(ps, Parameterized(ps, Text(ps, AsNamed(ps), us), FALSE, isUrl), Text(ps, AsTyped(ps), us))
         \/ TakenForUrl(ps, Text(ps, AsTold(ps), us), isUrl)
  <1>1. PICK t, x, v : t = Text(ps, AsTold(ps), us) /\ x = Text(ps, AsNamed(ps), us) /\ v = Text(ps, AsTyped(ps), us)
    OBVIOUS
  <1>2. PICK w : w = Parameterized(ps, x, FALSE, isUrl)
    OBVIOUS
  <1>3. w = IF EmbeddedSecrets(ps, x) # x THEN EmbeddedSecrets(ps, x)
            ELSE IF Exact(ps, x) # {} THEN Placeholder(ps[LastOf(Exact(ps, x))].name)
            ELSE IF EmbeddedValues(ps, x) # x THEN EmbeddedValues(ps, x)
            ELSE Inferred(ps, x, isUrl)
    BY <1>2, Zenon DEF Parameterized
  <1>4. EmbeddedSecrets(ps, x) = Text(ps, AsMixed(ps), us)
    BY <1>1, EmbeddedIs
  <1>5. CASE EmbeddedSecrets(ps, x) # x
    <2>1. w = Text(ps, AsMixed(ps), us)
      BY <1>3, <1>4, <1>5
    <2>2. StandsFor(ps, w, v)
      BY <1>1, <2>1, RenderingsStand
    <2> QED
      BY <1>1, <1>2, <2>2
  <1>6. CASE EmbeddedSecrets(ps, x) = x
    <2>1. Without(x, "<secret>")
      BY <1>4, <1>6, MixedWithout
    <2>2. x = v /\ t = v
      BY <1>1, <2>1, UntaggedIs
    <2>3. \A mark \in Brackets : Without(v, mark)
      BY <1>1, TypedWithout
    <2>4. v \in Seq(Frag)
      <3>1. Render(ps, AsTyped(ps)) \in [Units(ps) -> Seq(Frag)]
        BY RenderingsAre, RenderIs
      <3> QED
        BY <1>1, <3>1, FlatMapType DEF Text
    <2>5. w = IF Exact(ps, v) # {} THEN Placeholder(ps[LastOf(Exact(ps, v))].name)
              ELSE IF EmbeddedValues(ps, v) # v THEN EmbeddedValues(ps, v)
              ELSE Inferred(ps, v, isUrl)
      BY <1>3, <1>6, <2>2
    <2>6. CASE Exact(ps, v) # {}
      <3>1. PICK i : i = LastOf(Exact(ps, v))
        OBVIOUS
      <3>2. Exact(ps, v) \in SUBSET DOMAIN ps
        BY DEF Exact
      <3>3. i \in Exact(ps, v)
        BY <2>6, <3>1, <3>2, LastOfIs
      <3>4. i \in DOMAIN ps /\ ps[i].value = v
        BY <3>3 DEF Exact
      <3>5. w = Placeholder(ps[i].name)
        BY <2>5, <2>6, <3>1
      <3>6. StandsFor(ps, w, v)
        BY <3>4, <3>5, PlaceholderStands
      <3> QED
        BY <1>1, <1>2, <3>6
    <2>7. CASE Exact(ps, v) = {} /\ EmbeddedValues(ps, v) # v
      <3>1. w = EmbeddedValues(ps, v)
        BY <2>5, <2>7
      <3>2. StandsFor(ps, w, v)
        BY <2>3, <2>4, <3>1, EmbeddedStands
      <3> QED
        BY <1>1, <1>2, <3>2
    <2>8. CASE Exact(ps, v) = {} /\ EmbeddedValues(ps, v) = v
      <3>1. w = Inferred(ps, v, isUrl)
        BY <2>5, <2>8
      <3>2. \A i \in DOMAIN ps : ~(Total(ps[i].value) < MinEmbedded) => ~Within(v, ps[i].value)
        BY <2>3, <2>4, <2>8, EmbeddedStands
      <3>3. UsesNone(ps, v)
        BY <2>1, <2>2, <2>4, <2>8, <3>2, UsesNoneIs
      <3>4. CASE isUrl /\ Cardinality({i \in DOMAIN ps : ps[i].url}) = 1
        BY <1>1, <2>2, <3>3, <3>4 DEF TakenForUrl
      <3>5. CASE ~(isUrl /\ Cardinality({i \in DOMAIN ps : ps[i].url}) = 1)
        <4>1. w = v
          BY <3>1, <3>5, Zenon DEF Inferred
        <4>2. Without(v, Opened)
          BY <2>3, BracketsAre
        <4>3. StandsFor(ps, w, v)
          BY <2>4, <4>1, <4>2, PlainStands
        <4> QED
          BY <1>1, <1>2, <4>3
      <3> QED
        BY <3>4, <3>5
    <2> QED
      BY <2>6, <2>7, <2>8
  <1> QED
    BY <1>5, <1>6
-----------------------------------------------------------------------------
\* What a text without brackets and blanks at its ends becomes in a workflow resolves to it.
LEMMA BareComesBack ==
  ASSUME NEW ps, ToldApart(ps), NEW x \in Seq(Frag), Bare(x), NEW isNumber \in BOOLEAN
  PROVE  Resolved(ps, Parameterized(ps, RestoreAliases(ps, x), isNumber, FALSE)) = x
  <1>1. \A mark \in Brackets : Without(x, mark)
    BY Zenon DEF Bare, Without
  <1>2. RestoreAliases(ps, x) = x
    <2>1. PICK us \in Seq(Units(ps)) : Text(ps, AsTold(ps), us) = x /\ Text(ps, AsNamed(ps), us) = x
      BY <1>1, LiteralsAre, RenderingsAre
    <2> QED
      BY <2>1, RestoredTextIs
  <1>3. StandsFor(ps, Parameterized(ps, x, isNumber, FALSE), x)
    <2>1. CASE ~isNumber
      <3>1. PICK us \in Seq(Units(ps)) : Text(ps, AsNamed(ps), us) = x /\ Text(ps, AsTyped(ps), us) = x
        BY <1>1, LiteralsAre, RenderingsAre
      <3>2. ~TakenForUrl(ps, Text(ps, AsTold(ps), us), FALSE)
        BY DEF TakenForUrl
      <3>3. isNumber = FALSE
        BY <2>1
      <3>4. FALSE \in BOOLEAN
        OBVIOUS
      <3> QED
        BY <3>1, <3>2, <3>3, <3>4, ParameterizedIs
    <2>2. CASE isNumber
      <3>1. PICK w : w = Parameterized(ps, x, isNumber, FALSE)
        OBVIOUS
      <3>2. w = IF Exact(ps, x) # {} THEN Placeholder(ps[LastOf(Exact(ps, x))].name) ELSE Inferred(ps, x, FALSE)
        BY <2>2, <3>1, Zenon DEF Parameterized
      <3>3. CASE Exact(ps, x) # {}
        <4>1. PICK i : i = LastOf(Exact(ps, x))
          OBVIOUS
        <4>2. Exact(ps, x) \in SUBSET DOMAIN ps
          BY DEF Exact
        <4>3. i \in Exact(ps, x)
          BY <3>3, <4>1, <4>2, LastOfIs
        <4>4. i \in DOMAIN ps /\ ps[i].value = x
          BY <4>3 DEF Exact
        <4>5. w = Placeholder(ps[i].name)
          BY <3>2, <3>3, <4>1
        <4> QED
          BY <3>1, <4>4, <4>5, PlaceholderStands
      <3>4. CASE Exact(ps, x) = {}
        <4>1. w = x
          BY <3>2, <3>4, Zenon DEF Inferred
        <4> QED
          BY <1>1, <3>1, <4>1, BracketsAre, PlainStands
      <3> QED
        BY <3>3, <3>4
    <2> QED
      BY <2>1, <2>2
  <1> QED
    BY <1>2, <1>3, BareResolved

\* A text that the agent wrote, and what it becomes in a workflow.
Becomes(ps, us, isUrl, t, w) ==
  t = Text(ps, AsTold(ps), us) /\ w = Parameterized(ps, RestoreAliases(ps, t), FALSE, isUrl)

\* This resolves to what was typed, but for the only url parameter, and for the blanks around a
\* value.
LEMMA TextComesBack ==
  ASSUME NEW ps, ToldApart(ps), NEW us \in Seq(Units(ps)), NEW isUrl \in BOOLEAN, NEW t, NEW w,
         Becomes(ps, us, isUrl, t, w)
  PROVE  \/ Resolved(ps, w) = Typed(ps, t)
         \/ TakenForUrl(ps, t, isUrl)
         \/ \E k \in DOMAIN ps : Resolved(ps, w) = ps[k].value /\ Around(Typed(ps, t), ps[k].value)
  <1> t = Text(ps, AsTold(ps), us) /\ w = Parameterized(ps, RestoreAliases(ps, t), FALSE, isUrl)
    BY DEF Becomes
  <1>1. PICK v : v = Text(ps, AsTyped(ps), us) /\ v = Typed(ps, t)
    BY TypedIs
  <1>2. RestoreAliases(ps, t) = Text(ps, AsNamed(ps), us)
    BY RestoredTextIs
  <1>3. StandsFor(ps, w, v) \/ TakenForUrl(ps, t, isUrl)
    BY <1>1, <1>2, ParameterizedIs
  <1> QED
    BY <1>1, <1>3, ResolvedIs
-----------------------------------------------------------------------------
\* A text without a tag is left as it is when aliases are replaced by names.
LEMMA RestoreIs ==
  ASSUME NEW ps, IsParameters(ps), NEW V, NEW text \in Seq(V), "<secret>" \notin ToSet(text)
  PROVE  RestoreAliases(ps, text) = text
  <1>1. PICK W : W = V \cup STRING \cup {"<secret>", "</secret>"}
    OBVIOUS
  <1>2. PICK D, by : D = Aliased(ps) /\ by = [alias \in D |-> Tag(SecretOf(ps, alias).name)]
    OBVIOUS
  <1>3. ASSUME NEW alias \in D PROVE by[alias] \in Seq(W)
    <2>1. \E i \in Secrets(ps) : <<AliasOf(ps, i)>> = alias
      BY <1>2, Zenon DEF Aliased
    <2>2. PICK i : i = CHOOSE j \in Secrets(ps) : <<AliasOf(ps, j)>> = alias
      OBVIOUS
    <2>3. i \in Secrets(ps)
      BY <2>1, <2>2, Zenon
    <2>4. i \in DOMAIN ps /\ SecretOf(ps, alias) = ps[i]
      BY <2>2, <2>3, Zenon DEF Secrets, SecretOf
    <2>5. PICK p \in Parameter : p = ps[i]
      <3>1. \A s \in Seq(Parameter) : \A k \in DOMAIN s : s[k] \in Parameter
        OBVIOUS
      <3> QED
        BY <2>4, <3>1, Zenon DEF IsParameters
    <2>6. p.name \in Seq(STRING)
      BY DEF Parameter
    <2>7. p.name \in Seq(W)
      <3>1. \A A, B : A \subseteq B => Seq(A) \subseteq Seq(B)
        OBVIOUS
      <3>2. STRING \subseteq W
        BY <1>1
      <3> QED
        BY <2>6, <3>1, <3>2, Zenon
    <2>8. by[alias] = Marked("<secret>", p.name, "</secret>")
      BY <1>2, <2>4, <2>5, TagIs, Zenon
    <2>9. "<secret>" \in W /\ "</secret>" \in W
      BY <1>1
    <2> QED
      BY <2>7, <2>8, <2>9, MarkedType
  <1>4. by \in [D -> Seq(W)]
    BY <1>2, <1>3, Zenon
  <1>5. Rewriting(W, "<secret>", "</secret>", D, by)
    BY <1>1, <1>4, BracketsAre DEF Rewriting
  <1>6. text \in Seq(W)
    <2>1. \A A, B : A \subseteq B => Seq(A) \subseteq Seq(B)
      OBVIOUS
    <2>2. V \subseteq W
      BY <1>1
    <2> QED
      BY <2>1, <2>2, Zenon
  <1>7. Without(text, "<secret>")
    BY Zenon DEF ToSet, Without
  <1>8. Rewrite(text, "<secret>", "</secret>", by) = text
    BY <1>5, <1>6, <1>7, PlainRewritten
  <1> QED
    BY <1>2, <1>8, Zenon DEF RestoreAliases
-----------------------------------------------------------------------------
\* What an element offers a selector: its attributes that can be relied on, its classes that were
\* not generated, and its paths.
Lasting(el) == ToSet(el.classes) \ Dynamic
Reliable(el) ==
  {<<key, el.attributes[key]>> : key \in {k \in DOMAIN el.attributes : Robust(k, el.attributes[k])}}
Tails(el) ==
  {path \in Seq(STRING) :
     \/ path = <<>> \/ path = <<el.xpath>>
     \/ Len(path) <= Len(el.css)
        /\ \A i \in DOMAIN path : path[i] = el.css[Len(el.css) - Len(path) + i].text}
SelectorsOf(el) ==
  [tag : {"", el.tag}, classes : Seq(Lasting(el)), attributes : Seq(Reliable(el)), path : Tails(el)]

\* The first of a sequence are a sequence of the same things.
LEMMA UptoIs ==
  ASSUME NEW V, NEW s \in Seq(V), NEW n \in Nat
  PROVE  Upto(n, s) \in Seq(V)
  BY DEF Upto

\* Only returns members of the set.
LEMMA OnlyNarrows ==
  ASSUME NEW V, NEW s \in Seq(V), NEW S
  PROVE  Only(s, S) \in Seq(S)
  <1>1. PICK n \in Nat : n = Len(s) /\ DOMAIN s = 1..n
    BY LenIs, Zenon
  <1>2. PICK ss : ss = [i \in 1..n |-> IF s[i] \in S THEN <<s[i]>> ELSE <<>>]
    OBVIOUS
  <1>3. ss \in Seq(Seq(S))
    <2>1. ASSUME NEW i \in 1..n PROVE ss[i] \in Seq(S)
      BY <1>2
    <2> QED
      BY <1>2, <2>1
  <1>4. Only(s, S) = FlattenSeq(ss)
    BY <1>1, <1>2, Zenon DEF Only
  <1> QED
    BY <1>3, <1>4, FlattenType

\* Pairs returns attributes that can be relied on.
LEMMA PairsAre ==
  ASSUME NEW el, NEW V, NEW names \in Seq(V)
  PROVE  Pairs(el, names) \in Seq(Reliable(el))
  <1>1. PICK K : K = {k \in DOMAIN el.attributes : Robust(k, el.attributes[k])}
    OBVIOUS
  <1>2. PICK keys \in Seq(K) : keys = Only(names, K)
    BY OnlyNarrows, Zenon
  <1>3. PICK n \in Nat : n = Len(keys) /\ DOMAIN keys = 1..n
    BY LenIs, Zenon
  <1>4. Pairs(el, names) = [i \in 1..n |-> <<keys[i], el.attributes[keys[i]]>>]
    BY <1>1, <1>2, <1>3, Zenon DEF Pairs
  <1>5. \A i \in 1..n : keys[i] \in K
    BY <1>3
  <1>6. Reliable(el) = {<<key, el.attributes[key]>> : key \in K}
    BY <1>1, Zenon DEF Reliable
  <1>7. \A i \in 1..n : <<keys[i], el.attributes[keys[i]]>> \in Reliable(el)
    BY <1>5, <1>6, Zenon
  <1> QED
    BY <1>4, <1>7

\* The attributes that are looked at for generated values.
Judged == TestIds \cup {"id", "value", "src", "target"}

\* An attribute that can be relied on is one of the element, and its value no generated one
\* where that is looked at.
LEMMA ReliableIs ==
  ASSUME NEW el, NEW p \in Reliable(el)
  PROVE  /\ p[1] \in DOMAIN el.attributes /\ el.attributes[p[1]] = p[2]
         /\ p[1] \in Judged => p[2] \notin Dynamic
  <1>1. PICK key \in DOMAIN el.attributes :
          Robust(key, el.attributes[key]) /\ p = <<key, el.attributes[key]>>
    BY DEF Reliable
  <1>2. key \in Judged => el.attributes[key] \notin Dynamic
    BY <1>1 DEF Robust, TestIds, Judged
  <1> QED
    BY <1>1, <1>2

\* The class tokens of a selector are classes of the element, and no generated ones.
LEMMA ClassTokensAre ==
  ASSUME NEW el, IsElement(el)
  PROVE  ClassTokens(el) \in Seq(Lasting(el))
  <1>1. PICK S : S = ToSet(el.classes) \ (Generic \cup Dynamic)
    OBVIOUS
  <1>2. Only(el.classes, S) \in Seq(S)
    BY OnlyNarrows DEF IsElement
  <1>3. Only(el.classes, S) \in Seq(Lasting(el))
    <2>1. S \subseteq Lasting(el)
      BY <1>1 DEF Lasting
    <2> QED
      BY <1>2, <2>1
  <1> QED
    BY <1>1, <1>3, UptoIs DEF ClassTokens

\* A selector made of a path of the element.
LEMMA PathSelectorIs ==
  ASSUME NEW el, NEW path \in Tails(el)
  PROVE  PathSelector(path) \in SelectorsOf(el) /\ <<PathSelector(path)>> \in Seq(SelectorsOf(el))
  BY DEF PathSelector, SelectorsOf

\* _short_css_selector returns an end of the element's css path.
LEMMA ShortCssIs ==
  ASSUME NEW el, IsElement(el)
  PROVE  ShortCss(el.css) \in Seq(SelectorsOf(el))
  <1>1. PICK css \in Seq([text : STRING, nth : BOOLEAN]) : css = el.css
    BY DEF IsElement
  <1>2. PICK n \in Nat : n = Len(css) /\ DOMAIN css = 1..n
    BY LenIs, Zenon
  <1> DEFINE Texts(tail) == [i \in DOMAIN tail |-> tail[i].text]
  <1>3. \A i \in 1..n : css[i].text \in STRING
    <2>1. ASSUME NEW r \in [text : STRING, nth : BOOLEAN]
          PROVE  r.text \in STRING
      BY Zenon
    <2>2. \A i \in 1..n : css[i] \in [text : STRING, nth : BOOLEAN]
      <3>1. PICK S : S = [text : STRING, nth : BOOLEAN]
        OBVIOUS
      <3>2. css \in Seq(S)
        BY <1>1, <3>1, Zenon
      <3>3. \A i \in 1..n : css[i] \in S
        BY <1>2, <3>2
      <3> QED
        BY <3>1, <3>3, Zenon
    <2> QED
      BY <2>1, <2>2, Zenon
  <1>4. ASSUME NEW path \in Tails(el)
        PROVE  <<PathSelector(path)>> \in Seq(SelectorsOf(el))
    BY PathSelectorIs
  <1>5. ASSUME NEW k \in {1, 2}, k <= n
        PROVE  Texts(SubSeq(css, n - k + 1, n)) \in Tails(el)
    <2>1. PICK tail : tail = SubSeq(css, n - k + 1, n)
      OBVIOUS
    <2>2. DOMAIN tail = 1..k /\ \A i \in 1..k : tail[i] = css[n - k + i] /\ n - k + i \in 1..n
      BY <1>2, <1>5, <2>1
    <2>3. PICK path : path = [i \in 1..k |-> css[n - k + i].text]
      OBVIOUS
    <2>4. Texts(tail) = path
      BY <2>2, <2>3
    <2>5. path \in Seq(STRING) /\ Len(path) = k /\ DOMAIN path = 1..k
      BY <1>3, <2>2, <2>3
    <2>6. path \in Tails(el)
      BY <1>1, <1>2, <1>5, <2>3, <2>5 DEF Tails
    <2> QED
      BY <2>1, <2>4, <2>6
  <1>6. CASE n = 0
    BY <1>1, <1>2, <1>6 DEF ShortCss
  <1>7. CASE n = 1
    <2>1. SubSeq(css, 1, 1) = css
      BY <1>2, <1>7
    <2>2. Texts(css) \in Tails(el)
      <3>1. Texts(SubSeq(css, n - 1 + 1, n)) \in Tails(el) /\ n - 1 + 1 = 1
        BY <1>5, <1>7
      <3> QED
        BY <1>7, <2>1, <3>1
    <2>3. ShortCss(css) = <<PathSelector(Texts(css))>>
      <3>1. Len(css) = 1 /\ Len(css) # 0
        BY <1>2, <1>7
      <3>2. PICK one : one = <<PathSelector(Texts(css))>>
        OBVIOUS
      <3>3. ShortCss(css) = one
        BY <3>1, <3>2 DEF ShortCss
      <3> QED
        BY <3>2, <3>3
    <2> HIDE DEF Texts
    <2> QED
      BY <1>1, <1>4, <2>2, <2>3
  <1>8. CASE n \notin {0, 1}
    <2>1. /\ n - 2 + 1 = n - 1 /\ n - 1 + 1 = n
          /\ Texts(SubSeq(css, n - 2 + 1, n)) \in Tails(el)
          /\ Texts(SubSeq(css, n - 1 + 1, n)) \in Tails(el)
      BY <1>5, <1>8
    <2>2. ShortCss(css) \in {<<>>, <<PathSelector(Texts(SubSeq(css, n - 1, n)))>>,
                             <<PathSelector(Texts(SubSeq(css, n, n)))>>}
      BY <1>2, <1>8 DEF ShortCss
    <2>3. /\ Texts(SubSeq(css, n - 1, n)) \in Tails(el) /\ Texts(SubSeq(css, n, n)) \in Tails(el)
          /\ <<>> \in Seq(SelectorsOf(el))
      BY <2>1
    <2>4. /\ <<PathSelector(Texts(SubSeq(css, n - 1, n)))>> \in Seq(SelectorsOf(el))
          /\ <<PathSelector(Texts(SubSeq(css, n, n)))>> \in Seq(SelectorsOf(el))
      <3> HIDE DEF Texts
      <3> QED
        BY <1>4, <2>3
    <2> HIDE DEF Texts
    <2> QED
      BY <1>1, <2>2, <2>3, <2>4
  <1> QED
    BY <1>6, <1>7, <1>8

\* A selector made of the tag, classes and attributes of the element.
LEMMA SelectorIs ==
  ASSUME NEW el, NEW classes \in Seq(Lasting(el)), NEW attributes \in Seq(Reliable(el))
  PROVE  /\ Selector(el.tag, classes, attributes) \in SelectorsOf(el)
         /\ <<Selector(el.tag, classes, attributes)>> \in Seq(SelectorsOf(el))
  <1>1. <<>> \in Tails(el)
    BY DEF Tails
  <1>2. Selector(el.tag, classes, attributes) \in SelectorsOf(el)
    BY <1>1 DEF Selector, SelectorsOf
  <1> QED
    BY <1>2

\* _build_enhanced_css_selector uses what the element has.
LEMMA EnhancedIs ==
  ASSUME NEW el, IsElement(el)
  PROVE  Enhanced(el) \in Seq(SelectorsOf(el))
  <1>1. /\ Primary \in Seq({Primary[i] : i \in DOMAIN Primary})
        /\ Fallback \in Seq({Fallback[i] : i \in DOMAIN Fallback})
    BY DEF Primary, Fallback
  <1>2. /\ Upto(2, Pairs(el, Primary)) \in Seq(Reliable(el))
        /\ Upto(1, Pairs(el, Fallback)) \in Seq(Reliable(el))
    BY <1>1, PairsAre, UptoIs
  <1>3. /\ <<Selector(el.tag, ClassTokens(el), Upto(2, Pairs(el, Primary)))>> \in Seq(SelectorsOf(el))
        /\ <<Selector(el.tag, ClassTokens(el), Upto(1, Pairs(el, Fallback)))>> \in Seq(SelectorsOf(el))
    BY <1>2, ClassTokensAre, SelectorIs, Zenon
  <1>4. \/ Enhanced(el) = <<>>
        \/ Enhanced(el) = <<Selector(el.tag, ClassTokens(el), Upto(2, Pairs(el, Primary)))>>
        \/ Enhanced(el) = <<Selector(el.tag, ClassTokens(el), Upto(1, Pairs(el, Fallback)))>>
    BY DEF Enhanced
  <1>5. <<>> \in Seq(SelectorsOf(el))
    OBVIOUS
  <1> QED
    BY <1>3, <1>4, <1>5, Zenon

\* What is left of a sequence without its repetitions.
LEMMA DistinctIs ==
  ASSUME NEW V, NEW s \in Seq(V)
  PROVE  Distinct(s) \in Seq(V)
  <1>1. PICK n \in Nat : n = Len(s) /\ DOMAIN s = 1..n
    BY LenIs, Zenon
  <1>2. [k \in 1..n |-> k] \in Seq(1..n)
    OBVIOUS
  <1>3. PICK p : p = Only([k \in 1..n |-> k], {k \in 1..n : \A j \in 1..k - 1 : s[j] # s[k]})
    OBVIOUS
  <1>4. p \in Seq(1..n)
    BY <1>2, <1>3, OnlyIs
  <1>5. PICK m \in Nat : m = Len(p) /\ DOMAIN p = 1..m
    BY <1>4, LenIs, Zenon
  <1>6. Distinct(s) = [i \in 1..m |-> s[p[i]]]
    BY <1>1, <1>3, <1>5, Zenon DEF Distinct
  <1>7. \A i \in 1..m : s[p[i]] \in V
    BY <1>1, <1>4, <1>5
  <1>8. [i \in 1..m |-> s[p[i]]] \in [1..m -> V]
    BY <1>7, Zenon
  <1>9. \A P : [1..m -> P] \subseteq Seq(P)
    OBVIOUS
  <1> QED
    BY <1>6, <1>8, <1>9, Zenon

\* Every selector generated for an element is made of what the element has.
LEMMA GeneratedSelectors ==
  ASSUME NEW el, IsElement(el)
  PROVE  generate_selectors(el) \in Seq(SelectorsOf(el))
  <1> DEFINE meaningful == Pairs(el, Priority)
             FirstOf(keys) == Upto(1, Only(meaningful, {p \in ToSet(meaningful) : p[1] \in keys}))
             strong == FirstOf(TestIds \cup {"id", "name"})
             described == FirstOf(Descriptive)
             shown == Only(described, {p \in ToSet(described) : p[1] \notin {"href", "title"}})
             classes == ClassTokens(el)
             strongs == IF strong = <<>> THEN <<>>
                        ELSE <<Selector(el.tag, <<>>, strong)>>
                             \o (IF shown = <<>> THEN <<>> ELSE <<Selector(el.tag, <<>>, strong \o shown)>>)
             three == Upto(3, meaningful)
             first3 == [i \in DOMAIN three |-> Selector(el.tag, <<>>, <<three[i]>>)]
             classy == classes # <<>> /\ el.tag # ""
             shownOnes == IF classy /\ shown # <<>> THEN <<Selector(el.tag, classes, shown)>> ELSE <<>>
             classOnes == IF classy THEN <<Selector(el.tag, classes, <<>>)>> ELSE <<>>
             xpathOnes == IF el.xpath = "" THEN <<>> ELSE <<PathSelector(<<el.xpath>>)>>
             all == Enhanced(el) \o strongs \o shownOnes \o first3 \o classOnes
                    \o ShortCss(el.css) \o xpathOnes
  <1>1. generate_selectors(el) = Distinct(all)
    BY DEF generate_selectors
  <1>2. meaningful \in Seq(Reliable(el))
    <2>1. Priority \in Seq({Priority[i] : i \in DOMAIN Priority})
      BY DEF Priority
    <2> QED
      BY <2>1, PairsAre
  <1>3. ASSUME NEW keys PROVE FirstOf(keys) \in Seq(Reliable(el))
    <2> HIDE DEF meaningful
    <2> QED
      BY <1>2, OnlyIs, UptoIs
  <1>4. strong \in Seq(Reliable(el)) /\ described \in Seq(Reliable(el))
    <2> HIDE DEF FirstOf
    <2> QED
      BY <1>3
  <1>5. shown \in Seq(Reliable(el))
    <2> HIDE DEF described
    <2> QED
      BY <1>4, OnlyIs
  <1>6. classes \in Seq(Lasting(el))
    BY ClassTokensAre
  <1>7. PICK V : V = SelectorsOf(el)
    OBVIOUS
  <1>8. /\ <<>> \in Seq(V) /\ <<>> \in Seq(Reliable(el)) /\ <<>> \in Seq(Lasting(el))
        /\ \A s, t \in Seq(V) : s \o t \in Seq(V)
        /\ \A s, t \in Seq(Reliable(el)) : s \o t \in Seq(Reliable(el))
    OBVIOUS
  <1>9. \A cs \in Seq(Lasting(el)), as \in Seq(Reliable(el)) :
          Selector(el.tag, cs, as) \in V /\ <<Selector(el.tag, cs, as)>> \in Seq(V)
    BY <1>7, SelectorIs, Zenon
  <1> HIDE DEF strong, shown, classes, three
  <1>10. strongs \in Seq(V) /\ shownOnes \in Seq(V) /\ classOnes \in Seq(V)
    BY <1>4, <1>5, <1>6, <1>8, <1>9, Zenon
  <1>11. first3 \in Seq(V)
    <2>1. PICK t \in Seq(Reliable(el)) : t = three
      <3> HIDE DEF meaningful
      <3>1. three \in Seq(Reliable(el))
        BY <1>2, UptoIs DEF three
      <3> QED
        BY <3>1, Zenon
    <2>2. PICK n \in Nat : n = Len(t) /\ DOMAIN t = 1..n
      BY LenIs, Zenon
    <2>3. \A i \in 1..n : <<t[i]>> \in Seq(Reliable(el))
      BY <2>2
    <2>4. PICK f : f = [i \in 1..n |-> Selector(el.tag, <<>>, <<t[i]>>)]
      OBVIOUS
    <2>5. \A i \in 1..n : f[i] \in V
      BY <1>8, <1>9, <2>3, <2>4, Zenon
    <2>6. first3 = f
      BY <2>1, <2>2, <2>4, Zenon
    <2>7. f \in Seq(V)
      BY <2>4, <2>5
    <2> QED
      BY <2>6, <2>7, Zenon
  <1>12. all \in Seq(V)
    <2>1. Enhanced(el) \in Seq(V) /\ ShortCss(el.css) \in Seq(V)
      BY <1>7, EnhancedIs, ShortCssIs
    <2>2. xpathOnes \in Seq(V)
      <3>1. <<el.xpath>> \in Tails(el)
        BY DEF IsElement, Tails
      <3>2. <<PathSelector(<<el.xpath>>)>> \in Seq(V)
        BY <1>7, <3>1, PathSelectorIs, Zenon
      <3> QED
        BY <1>8, <3>2, Zenon
    <2> HIDE DEF strongs, shownOnes, first3, classOnes, xpathOnes
    <2> QED
      BY <1>8, <1>10, <1>11, <2>1, <2>2, Zenon
  <1> QED
    <2> HIDE DEF all
    <2> QED
      BY <1>1, <1>7, <1>12, DistinctIs, Zenon
-----------------------------------------------------------------------------
\* The members of a sequence.
LEMMA Members ==
  ASSUME NEW V, NEW s \in Seq(V)
  PROVE  ToSet(s) \subseteq V
  <1>1. PICK n \in Nat : n = Len(s) /\ DOMAIN s = 1..n
    BY LenIs, Zenon
  <1>2. \A i \in 1..n : s[i] \in V
    BY <1>1
  <1>3. ToSet(s) = {s[i] : i \in 1..n}
    BY <1>1, Zenon DEF ToSet
  <1> QED
    BY <1>2, <1>3

\* A selector made of what the element has finds it.
LEMMA SelectorMatches ==
  ASSUME NEW el, NEW s \in SelectorsOf(el)
  PROVE  /\ Matches(s, el)
         /\ \A p \in ToSet(s.attributes) : p[1] \in Judged => p[2] \notin Dynamic
         /\ ToSet(s.classes) \cap Dynamic = {}
  <1>1. /\ s.tag \in {"", el.tag} /\ s.classes \in Seq(Lasting(el))
        /\ s.attributes \in Seq(Reliable(el)) /\ s.path \in Tails(el)
    BY DEF SelectorsOf
  <1>2. ToSet(s.classes) \subseteq ToSet(el.classes) /\ ToSet(s.classes) \cap Dynamic = {}
    <2>1. ToSet(s.classes) \subseteq Lasting(el)
      BY <1>1, Members, Zenon
    <2> QED
      BY <2>1 DEF Lasting
  <1>3. \A p \in ToSet(s.attributes) : p \in Reliable(el)
    <2>1. ToSet(s.attributes) \subseteq Reliable(el)
      BY <1>1, Members, Zenon
    <2> QED
      BY <2>1
  <1>4. \/ s.path = <<>> \/ s.path = <<el.xpath>>
        \/ Len(s.path) <= Len(el.css)
           /\ \A i \in DOMAIN s.path : s.path[i] = el.css[Len(el.css) - Len(s.path) + i].text
    BY <1>1 DEF Tails
  <1> QED
    BY <1>1, <1>2, <1>3, <1>4, ReliableIs, Zenon DEF Matches

\* What a selector has as text besides what it takes from the element.
Punctuation == {".", "[", "=", "]"}

\* As text it is made of fragments of the element and of punctuation.
LEMMA RenderedIs ==
  ASSUME NEW el, IsElement(el), NEW s \in SelectorsOf(el)
  PROVE  Rendered(s) \in Seq(Fragments(el) \cup Punctuation)
  <1>1. PICK V : V = Fragments(el) \cup Punctuation
    OBVIOUS
  <1>2. /\ s.tag \in {"", el.tag} /\ s.classes \in Seq(Lasting(el))
        /\ s.attributes \in Seq(Reliable(el)) /\ s.path \in Tails(el)
    BY DEF SelectorsOf
  <1>3. {".", "[", "=", "]"} \subseteq V
    BY <1>1 DEF Punctuation
  <1>4. /\ el.tag \in V /\ el.xpath \in V /\ Lasting(el) \subseteq V
        /\ \A i \in DOMAIN el.css : el.css[i].text \in V
        /\ \A key \in DOMAIN el.attributes : key \in V /\ el.attributes[key] \in V
    BY <1>1 DEF Fragments, Lasting
  <1>5. (IF s.tag = "" THEN <<>> ELSE <<s.tag>>) \in Seq(V)
    <2>1. <<>> \in Seq(V) /\ <<el.tag>> \in Seq(V)
      BY <1>4
    <2>2. s.tag # "" => s.tag = el.tag
      BY <1>2, Zenon
    <2> QED
      BY <2>1, <2>2, Zenon
  <1>6. FlattenSeq([i \in DOMAIN s.classes |-> <<".", s.classes[i]>>]) \in Seq(V)
    <2>1. PICK cs \in Seq(Lasting(el)) : cs = s.classes
      BY <1>2
    <2>2. PICK n \in Nat : n = Len(cs) /\ DOMAIN cs = 1..n
      BY LenIs, Zenon
    <2>3. \A i \in 1..n : <<".", cs[i]>> \in Seq(V)
      <3>1. \A i \in 1..n : cs[i] \in V
        BY <1>4, <2>1, <2>2
      <3> QED
        BY <1>3, <3>1
    <2>4. [i \in 1..n |-> <<".", cs[i]>>] \in Seq(Seq(V))
      BY <2>3
    <2> QED
      BY <2>1, <2>2, <2>4, FlattenType, Zenon
  <1>7. FlattenSeq([i \in DOMAIN s.attributes |->
                      <<"[", s.attributes[i][1], "=", s.attributes[i][2], "]">>]) \in Seq(V)
    <2>1. PICK as \in Seq(Reliable(el)) : as = s.attributes
      BY <1>2
    <2>2. PICK n \in Nat : n = Len(as) /\ DOMAIN as = 1..n
      BY LenIs, Zenon
    <2>3. ASSUME NEW i \in 1..n PROVE <<"[", as[i][1], "=", as[i][2], "]">> \in Seq(V)
      <3>1. as[i] \in Reliable(el)
        BY <2>1, <2>2
      <3>2. as[i][1] \in V /\ as[i][2] \in V
        BY <1>4, <3>1, ReliableIs
      <3>3. \A a, b, c, d, e \in V : <<a, b, c, d, e>> \in Seq(V)
        OBVIOUS
      <3>4. "[" \in V /\ "=" \in V /\ "]" \in V
        BY <1>3
      <3> QED
        BY <3>2, <3>3, <3>4, Zenon
    <2>4. PICK f : f = [i \in 1..n |-> <<"[", as[i][1], "=", as[i][2], "]">>]
      OBVIOUS
    <2>5. \A i \in 1..n : f[i] \in Seq(V)
      BY <2>3, <2>4, Zenon
    <2>6. f \in Seq(Seq(V))
      <3>1. f \in [1..n -> Seq(V)]
        BY <2>4, <2>5, Zenon
      <3> QED
        BY <3>1
    <2> QED
      BY <2>1, <2>2, <2>4, <2>6, FlattenType, Zenon
  <1>8. s.path \in Seq(V)
    <2>1. PICK path \in Seq(STRING) : path = s.path /\
            \/ path = <<>> \/ path = <<el.xpath>>
            \/ Len(path) <= Len(el.css)
               /\ \A i \in DOMAIN path : path[i] = el.css[Len(el.css) - Len(path) + i].text
      BY <1>2 DEF Tails
    <2>2. CASE path = <<>> \/ path = <<el.xpath>>
      <3>1. el.xpath \in V
        BY <1>4, Zenon
      <3>2. <<>> \in Seq(V) /\ \A v \in V : <<v>> \in Seq(V)
        OBVIOUS
      <3> QED
        BY <2>1, <2>2, <3>1, <3>2, Zenon
    <2>3. CASE Len(path) <= Len(el.css)
               /\ \A i \in DOMAIN path : path[i] = el.css[Len(el.css) - Len(path) + i].text
      <3>1. PICK n \in Nat : n = Len(path) /\ DOMAIN path = 1..n
        BY <2>1, LenIs, Zenon
      <3>2. PICK m \in Nat : m = Len(el.css) /\ DOMAIN el.css = 1..m
        BY LenIs, Zenon DEF IsElement
      <3>3. \A i \in 1..n : path[i] \in V
        <4>1. \A i \in 1..n : m - n + i \in 1..m
          BY <2>3, <3>1, <3>2
        <4> QED
          BY <1>4, <2>3, <3>1, <3>2, <4>1
      <3> QED
        BY <2>1, <3>1, <3>3
    <2> QED
      BY <2>1, <2>2, <2>3
  <1>9. \A a, b \in Seq(V) : a \o b \in Seq(V)
    OBVIOUS
  <1> QED
    BY <1>1, <1>5, <1>6, <1>7, <1>8, <1>9, Zenon DEF Rendered
-----------------------------------------------------------------------------
\* The elements of actions are those there are, or none.
LEMMA PerformedOn == \A a \in Performed : a.el \in DOMAIN ElementOf \cup {"none"}
  <1> SUFFICES ASSUME NEW a \in Performed PROVE a.el \in DOMAIN ElementOf \cup {"none"}
    OBVIOUS
  <1>1. PICK turn \in Turns : a \in ToSet(Did(StepOf(turn)))
    BY Zenon DEF Performed, Step
  <1>2. PICK E : E = DOMAIN ElementOf \cup {"none"}
    OBVIOUS
  <1>3. PICK elements \in Seq(E) : elements = turn.elements
    BY <1>2, GenerationAssumption, Zenon DEF Turn
  <1>4. PICK step : step = StepOf(turn)
    OBVIOUS
  <1>5. step.elements = elements
    BY <1>3, <1>4 DEF StepOf
  <1>6. PICK k, type, text :
          a = [type |-> type, text |-> text, el |-> IF k \in DOMAIN elements THEN elements[k] ELSE "none"]
    BY <1>1, <1>4, <1>5, Zenon DEF Did, ToSet
  <1>7. \A i \in DOMAIN elements : elements[i] \in E
    OBVIOUS
  <1>8. "none" \in E
    BY <1>2
  <1>9. PICK el : el = IF k \in DOMAIN elements THEN elements[k] ELSE "none"
    OBVIOUS
  <1>10. el \in E
    BY <1>7, <1>8, <1>9, Zenon
  <1>11. a.el = el
    BY <1>6, <1>9
  <1> QED
    BY <1>2, <1>10, <1>11, Zenon

\* What the selector of an element is, and as text.
LEMMA ChosenSelector ==
  ASSUME NEW el \in DOMAIN ElementOf, SelectorOf[el] # <<>>
  PROVE  /\ SelectorOf[el][1] \in SelectorsOf(ElementOf[el])
         /\ \E V : Rendered(SelectorOf[el][1]) \in Seq(V) /\ "<secret>" \notin V
  <1>1. el # "none" /\ IsElement(ElementOf[el]) /\ "<secret>" \notin Fragments(ElementOf[el])
    BY GenerationAssumption
  <1>2. SelectorOf[el] = Upto(1, generate_selectors(ElementOf[el]))
    BY <1>1 DEF SelectorOf
  <1>3. SelectorOf[el] \in Seq(SelectorsOf(ElementOf[el]))
    BY <1>1, <1>2, GeneratedSelectors, UptoIs
  <1>4. SelectorOf[el][1] \in SelectorsOf(ElementOf[el])
    BY <1>3
  <1>5. "<secret>" \notin Punctuation
    BY DEF Punctuation
  <1>6. Rendered(SelectorOf[el][1]) \in Seq(Fragments(ElementOf[el]) \cup Punctuation)
    BY <1>1, <1>4, RenderedIs, Zenon
  <1>7. "<secret>" \notin Fragments(ElementOf[el]) \cup Punctuation
    BY <1>1, <1>5, Zenon
  <1> QED
    BY <1>4, <1>6, <1>7, Zenon

\* What an action becomes: an action of its type, with the selector of its element or with none.
Converted(a, w) ==
  /\ w.type = WorkflowType(a.type)
  /\ \/ w.selector = <<>>
     \/ /\ a.el \in DOMAIN ElementOf /\ SelectorOf[a.el] # <<>>
        /\ w.selector = Rendered(SelectorOf[a.el][1])
  /\ "selector" \in DOMAIN w /\ "text" \in DOMAIN w

\* _convert_action leaves an action out or converts it.
LEMMA ConvertIs ==
  ASSUME NEW a \in Performed
  PROVE  \/ _convert_action(a) = <<>>
         \/ \E w : _convert_action(a) = <<w>> /\ Converted(a, w)
  <1>1. PICK taken, text : \/ _convert_action(a) = <<>>
                           \/ /\ _convert_action(a) =
                                 <<[type |-> WorkflowType(a.type), selector |-> taken, text |-> text]>>
                              /\ \/ taken = <<>>
                                 \/ SelectorOf[a.el] # <<>> /\ taken = Rendered(SelectorOf[a.el][1])
    BY Zenon DEF _convert_action
  <1>2. ASSUME taken = <<>> \/ (SelectorOf[a.el] # <<>> /\ taken = Rendered(SelectorOf[a.el][1]))
        PROVE  Converted(a, [type |-> WorkflowType(a.type), selector |-> taken, text |-> text])
    <2>1. PICK w : w = [type |-> WorkflowType(a.type), selector |-> taken, text |-> text]
      OBVIOUS
    <2>2. /\ w.type = WorkflowType(a.type) /\ w.selector = taken
          /\ "selector" \in DOMAIN w /\ "text" \in DOMAIN w
      BY <2>1
    <2>3. a.el = "none" => SelectorOf[a.el] = <<>>
      BY Zenon DEF SelectorOf
    <2>4. a.el \in DOMAIN ElementOf \cup {"none"}
      BY PerformedOn
    <2> QED
      BY <1>2, <2>1, <2>2, <2>3, <2>4, Zenon DEF Converted
  <1> QED
    BY <1>1, <1>2, Zenon

\* The actions of a generated workflow.
LEMMA GeneratedIs ==
  ASSUME NEW h \in History
  PROVE  LET actions == gen_workflow(parse_agent_history(h)) IN
         \A i \in DOMAIN actions : \E a \in ToSet(RelevantOf(h)) : a \in Performed /\ Converted(a, actions[i])
  <1>1. h.steps \in Seq(Step)
    BY DEF History
  <1>2. PICK parsed \in Seq(Performed) : parsed = RelevantOf(h)
    BY <1>1, RelevantOfIs
  <1>3. PICK n \in Nat : n = Len(parsed) /\ DOMAIN parsed = 1..n
    BY LenIs, Zenon
  <1>4. \A i \in 1..n : parsed[i] \in Performed
    BY <1>3
  <1>5. PICK cs : cs = [i \in 1..n |-> _convert_action(parsed[i])]
    OBVIOUS
  <1>6. PICK W : W = {w \in UNION {ToSet(cs[i]) : i \in 1..n} :
                        \E a \in ToSet(parsed) : a \in Performed /\ Converted(a, w)}
    OBVIOUS
  <1>7. ASSUME NEW i \in 1..n PROVE cs[i] \in Seq(W)
    <2>1. PICK a : a = parsed[i] /\ a \in Performed /\ a \in ToSet(parsed)
      <3>1. parsed[i] \in {parsed[k] : k \in DOMAIN parsed}
        BY <1>3
      <3> QED
        BY <1>4, <3>1, Zenon DEF ToSet
    <2>2. cs[i] = _convert_action(a)
      BY <1>5, <2>1, Zenon
    <2>3. CASE cs[i] = <<>>
      BY <2>3
    <2>4. CASE \E w : cs[i] = <<w>> /\ Converted(a, w)
      <3>1. PICK w : cs[i] = <<w>> /\ Converted(a, w)
        BY <2>4
      <3>2. w \in ToSet(cs[i])
        <4>1. DOMAIN cs[i] = {1} /\ cs[i][1] = w
          BY <3>1
        <4> QED
          BY <4>1 DEF ToSet
      <3>3. w \in W
        BY <1>6, <2>1, <3>1, <3>2, Zenon
      <3> QED
        BY <3>1, <3>3
    <2> QED
      BY <2>1, <2>2, <2>3, <2>4, ConvertIs, Zenon
  <1>8. cs \in Seq(Seq(W))
    <2>1. cs \in [1..n -> Seq(W)]
      BY <1>5, <1>7, Zenon
    <2> QED
      BY <2>1
  <1>9. PICK actions : actions = gen_workflow(parse_agent_history(h))
    OBVIOUS
  <1>10. actions = FlattenSeq(cs)
    BY <1>2, <1>3, <1>5, <1>9, Zenon DEF gen_workflow, parse_agent_history
  <1>11. actions \in Seq(W)
    BY <1>8, <1>10, FlattenType, Zenon
  <1>12. \A i \in DOMAIN actions : actions[i] \in W
    BY <1>11
  <1> QED
    BY <1>2, <1>6, <1>9, <1>12, Zenon
-----------------------------------------------------------------------------
\* A call begins with no round and nothing chosen.
LEMMA InitIInv == Init => IInv
  <1> SUFFICES ASSUME Init PROVE IInv
    OBVIOUS
  <1>1. /\ pc = "prepare" /\ steps = <<>> /\ histories = <<>> /\ evolution = Fresh /\ chosen = 0
        /\ params \in ParameterSets
    BY DEF Init
  <1>2. TypeOk /\ ProgressOk /\ FailuresComeFirst /\ SelectorsMatchTheirElements
    BY <1>1 DEF TypeOk, ProgressOk, FailuresComeFirst, SelectorsMatchTheirElements
  <1>3. Summarizes(Fresh, <<>>)
    <2>1. /\ Won(<<>>) = {} /\ SeenIn(<<>>, FALSE) = {} /\ SeenIn(<<>>, TRUE) = {}
          /\ UrlsIn(<<>>) = {} /\ ErrorsIn(<<>>) = {}
      BY DEF Won, SeenIn, UrlsIn, ErrorsIn
    <2>2. IsCounter(<<>>, {})
      <3>1. <<>> \in [{} -> Nat]
        OBVIOUS
      <3> QED
        BY <3>1, FS_EmptySet, Zenon DEF IsCounter
    <2>3. Cardinality({}) = 0 /\ Len(<<>>) = 0
      BY FS_EmptySet
    <2>4. /\ Fresh.runs = 0 /\ Fresh.successes = 0 /\ Fresh.best = 0
          /\ Fresh.good = <<>> /\ Fresh.bad = <<>> /\ Fresh.urls = <<>> /\ Fresh.messages = <<>>
      BY DEF Fresh
    <2> QED
      BY <2>1, <2>2, <2>3, <2>4, Zenon DEF Summarizes
  <1> QED
    BY <1>1, <1>2, <1>3, Zenon DEF IInv

\* What the agent can perform depends on the parameters, which no step changes.
LEMMA SameTypes ==
  ASSUME UNCHANGED params
  PROVE  Performed' = Performed /\ Step' = Step /\ History' = History
  <1>1. params' = params
    OBVIOUS
  <1>2. ASSUME NEW wanted PROVE Written(wanted)' = Written(wanted)
    <2>1. [k \in DOMAIN wanted |-> IF wanted[k].param = 0 THEN <<wanted[k].word>> ELSE Told(params', wanted[k].param)]
          = [k \in DOMAIN wanted |-> IF wanted[k].param = 0 THEN <<wanted[k].word>> ELSE Told(params, wanted[k].param)]
      BY <1>1, Zenon
    <2> QED
      BY <2>1, Zenon DEF Written
  <1>3. ASSUME NEW plan PROVE Acts(plan)' = Acts(plan)
    <2>1. \A k : Written(plan[k].wanted)' = Written(plan[k].wanted)
      BY <1>2, Zenon
    <2> QED
      BY <2>1, Zenon DEF Acts
  <1>4. ASSUME NEW turn PROVE (Possible(turn)' <=> Possible(turn)) /\ StepOf(turn)' = StepOf(turn)
    BY <1>1, <1>3, Zenon DEF Possible, StepOf
  <1>5. {t \in Turns : Possible(t)}' = {t \in Turns : Possible(t)}
    BY <1>4, Zenon
  <1>7. Step' = Step
    BY <1>4, <1>5, Zenon DEF Step
  <1>6. Performed' = Performed
    BY <1>7, Zenon DEF Performed
  <1> QED
    BY <1>6, <1>7, Zenon DEF History

\* A step that changes neither the rounds nor what was chosen.
LEMMA Quiet ==
  ASSUME IInv, UNCHANGED <<params, steps, histories, evolution, chosen>>, pc' # "parameterize",
         pc' \in {"prepare", "agent", "generate"} => chosen = 0,
         pc' = "prepare" => pc = "prepare", pc' = "generate" => histories # <<>>
  PROVE  IInv'
  <1>1. TypeOk'
    BY SameTypes, Zenon DEF IInv, TypeOk
  <1>2. ProgressOk'
    BY Zenon DEF IInv, ProgressOk
  <1>3. Summarizes(evolution, histories)'
    BY Zenon DEF IInv
  <1>4. FailuresComeFirst'
    BY Zenon DEF IInv, FailuresComeFirst
  <1>5. SelectorsMatchTheirElements'
    BY DEF SelectorsMatchTheirElements
  <1> QED
    BY <1>1, <1>2, <1>3, <1>4, <1>5, Zenon DEF IInv

\* The steps of the call, one by one. Parameters that are refused end it.
LEMMA PrepareStep == IInv /\ Prepare => IInv'
  BY Quiet DEF Prepare, IInv, ProgressOk

\* A round that raises ends the call, which has chosen nothing.
LEMMA RoundRaisesStep == IInv /\ RoundRaises => IInv'
  BY Quiet DEF RoundRaises

\* Placeholders come after the choice and leave the rounds alone.
LEMMA ParameterizeStep == IInv /\ Parameterize => IInv'
  BY Quiet DEF Parameterize

\* One more step of the agent does not touch the rounds that ended.
LEMMA AgentStepsStep == IInv /\ AgentSteps => IInv'
  <1> SUFFICES ASSUME IInv, AgentSteps PROVE IInv'
    OBVIOUS
  <1>1. /\ pc = "agent" /\ UNCHANGED <<pc, params, histories, evolution, chosen>>
    BY DEF AgentSteps
  <1>2. PICK turn \in Turns : Possible(turn) /\ steps' = Append(steps, StepOf(turn))
    BY Zenon DEF AgentSteps, StepOf
  <1>4. steps \in Seq(Step) /\ histories \in Seq(History) /\ params \in ParameterSets
    BY DEF IInv, TypeOk
  <1>5. steps' \in Seq(Step)
    <2>1. PICK s \in Step : s = StepOf(turn)
      BY <1>2, Zenon DEF Step
    <2>2. Append(steps, s) \in Seq(Step)
      BY <1>4
    <2> QED
      BY <1>2, <2>1, <2>2, Zenon
  <1>6. TypeOk'
    BY <1>1, <1>4, <1>5, SameTypes, Zenon DEF TypeOk
  <1>7. ProgressOk' /\ Summarizes(evolution, histories)' /\ FailuresComeFirst'
    BY <1>1, Zenon DEF IInv, ProgressOk, FailuresComeFirst
  <1>8. SelectorsMatchTheirElements'
    BY <1>1 DEF SelectorsMatchTheirElements
  <1> QED
    BY <1>6, <1>7, <1>8, Zenon DEF IInv

\* A round that ends is one more history, and the evolution summarizes it too.
LEMMA RoundEndsStep == IInv /\ RoundEnds => IInv'
  <1> SUFFICES ASSUME IInv, RoundEnds PROVE IInv'
    OBVIOUS
  <1>1. /\ pc = "agent" /\ steps # <<>> /\ steps' = <<>> /\ pc' \in {"agent", "generate"}
        /\ UNCHANGED <<params, chosen>>
    BY DEF RoundEnds
  <1>2. PICK verdict \in {"yes", "no", "unknown"} :
          /\ histories' = Append(histories, [steps |-> steps, verdict |-> verdict])
          /\ evolution' = update_evolution(evolution, [steps |-> steps, verdict |-> verdict])
    BY DEF RoundEnds
  <1>3. PICK h : h = [steps |-> steps, verdict |-> verdict]
    OBVIOUS
  <1>4. /\ steps \in Seq(Step) /\ histories \in Seq(History) /\ params \in ParameterSets
        /\ \A i \in DOMAIN histories : histories[i].steps # <<>>
        /\ chosen = 0 /\ Summarizes(evolution, histories)
    BY <1>1 DEF IInv, TypeOk, ProgressOk
  <1>5. h \in History /\ h.steps # <<>>
    BY <1>1, <1>3, <1>4 DEF History
  <1>6. histories' = Append(histories, h) /\ evolution' = update_evolution(evolution, h)
    BY <1>2, <1>3
  <1>7. Summarizes(evolution, histories)'
    <2>1. Summarizes(update_evolution(evolution, h), Append(histories, h))
      BY <1>4, <1>5, UpdateIs
    <2> QED
      BY <1>6, <2>1, Zenon
  <1>8. PICK n \in Nat : n = Len(histories) /\ DOMAIN histories = 1..n
    BY <1>4, LenIs, Zenon
  <1>9. /\ histories' \in Seq(History) /\ DOMAIN histories' = 1..n + 1
        /\ histories'[n + 1] = h /\ \A i \in 1..n : histories'[i] = histories[i]
    BY <1>4, <1>5, <1>6, <1>8
  <1>10. TypeOk'
    <2>1. <<>> \in Seq(Step)
      OBVIOUS
    <2> QED
      BY <1>1, <1>4, <1>9, <2>1, SameTypes, Zenon DEF TypeOk
  <1>11. ProgressOk'
    <2>1. histories' # <<>>
      BY <1>9
    <2>2. \A i \in DOMAIN histories' : histories'[i].steps # <<>>
      BY <1>4, <1>5, <1>8, <1>9
    <2> QED
      BY <1>1, <1>4, <2>1, <2>2 DEF ProgressOk
  <1>12. FailuresComeFirst'
    BY <1>1, <1>4 DEF FailuresComeFirst
  <1>13. SelectorsMatchTheirElements'
    BY <1>1 DEF SelectorsMatchTheirElements
  <1> QED
    BY <1>7, <1>10, <1>11, <1>12, <1>13, Zenon DEF IInv

\* An action of the workflow with names of parameters for their aliases.
Restored(w) ==
  [w EXCEPT !.selector = RestoreAliases(params, @), !.text = RestoreAliases(params, @)]

\* The exchange of aliases leaves a selector as it is, and the type.
LEMMA RestoredIs ==
  ASSUME params \in ParameterSets, NEW a \in Performed, NEW w, Converted(a, w)
  PROVE  Restored(w).type = WorkflowType(a.type) /\ Restored(w).selector = w.selector
  <1>0. PICK v : v = Restored(w)
    OBVIOUS
  <1>1. w.type = WorkflowType(a.type) /\ "selector" \in DOMAIN w /\ "text" \in DOMAIN w
    BY Zenon DEF Converted
  <1>2. PICK x, y : x = RestoreAliases(params, w.selector) /\ y = RestoreAliases(params, w.text)
    OBVIOUS
  <1>3. v = [w EXCEPT !.selector = x, !.text = y]
    BY <1>0, <1>2, Zenon DEF Restored
  <1>4. v.type = w.type
    BY <1>3
  <1>5. v.selector = x
    BY <1>1, <1>3
  <1>6. x = w.selector
    <2>0. IsParameters(params)
      BY GenerationAssumption
    <2>1. CASE w.selector = <<>>
      <3>1. <<>> \in Seq({}) /\ "<secret>" \notin ToSet(<<>>)
        BY DEF ToSet
      <3> QED
        BY <1>2, <2>0, <2>1, <3>1, RestoreIs, Zenon
    <2>2. CASE a.el \in DOMAIN ElementOf /\ SelectorOf[a.el] # <<>>
               /\ w.selector = Rendered(SelectorOf[a.el][1])
      <3>1. PICK V : w.selector \in Seq(V) /\ "<secret>" \notin V
        BY <2>2, ChosenSelector, Zenon
      <3>2. "<secret>" \notin ToSet(w.selector)
        BY <3>1, Members
      <3> QED
        BY <1>2, <2>0, <3>1, <3>2, RestoreIs, Zenon
    <2> QED
      BY <2>1, <2>2, Zenon DEF Converted
  <1> QED
    BY <1>0, <1>1, <1>4, <1>5, <1>6, Zenon

\* The choice of a history and its conversion, where both properties of the workflow are
\* established.
LEMMA GenerateStep == IInv /\ Generate => IInv'
  <1> SUFFICES ASSUME IInv, Generate PROVE IInv'
    OBVIOUS
  <1>1. /\ pc = "generate" /\ pc' = "parameterize"
        /\ UNCHANGED <<params, steps, histories, evolution>>
    BY DEF Generate
  <1>2. /\ steps \in Seq(Step) /\ histories \in Seq(History) /\ histories # <<>>
        /\ params \in ParameterSets
        /\ \A i \in DOMAIN histories : histories[i].steps # <<>>
        /\ Summarizes(evolution, histories)
    BY <1>1 DEF IInv, TypeOk, ProgressOk
  <1>3. PICK first \in DOMAIN histories :
          /\ first = prune_agenthistorylist(histories, 1)[1]
          /\ chosen' = first
          /\ LET actions == gen_workflow(parse_agent_history(histories[first])) IN
             workflow' = [i \in DOMAIN actions |-> [actions[i] EXCEPT
               !.selector = RestoreAliases(params, @), !.text = RestoreAliases(params, @)]]
    BY Zenon DEF Generate
  <1>4. PICK actions : actions = gen_workflow(parse_agent_history(histories[first]))
    OBVIOUS
  <1>5. workflow' = [i \in DOMAIN actions |-> [actions[i] EXCEPT
               !.selector = RestoreAliases(params, @), !.text = RestoreAliases(params, @)]]
    BY <1>3, <1>4, Zenon
  <1>6. PICK h \in History : h = histories[first]
    BY <1>2
  <1>7. TypeOk'
    BY <1>1, <1>2, SameTypes, Zenon DEF TypeOk
  <1>8. ProgressOk'
    BY <1>1, <1>2, Zenon DEF ProgressOk
  <1>9. Summarizes(evolution, histories)'
    BY <1>1, <1>2, Zenon
  <1>10. FailuresComeFirst'
    <2>1. /\ (\E i \in DOMAIN histories : Failed(histories[i])) => Failed(histories[first])
          /\ \A i \in DOMAIN histories : (Failed(histories[i]) <=> Failed(histories[first])) =>
               Len(RelevantOf(histories[first])) <= Len(RelevantOf(histories[i]))
      BY <1>2, <1>3, PruneFirst, Zenon
    <2>2. \A i \in DOMAIN histories :
            (Failed(histories[i]) = Failed(histories[first])) => (Failed(histories[i]) <=> Failed(histories[first]))
      OBVIOUS
    <2>3. histories' = histories /\ chosen' = first
      BY <1>1, <1>3
    <2> QED
      BY <2>1, <2>2, <2>3, Zenon DEF FailuresComeFirst
  <1>11. SelectorsMatchTheirElements'
    <2> SUFFICES ASSUME NEW i \in DOMAIN workflow', workflow'[i].selector # <<>>
                 PROVE  \E a \in ToSet(RelevantOf(h)) :
                          /\ WorkflowType(a.type) = workflow'[i].type /\ a.el # "none"
                          /\ Rendered(SelectorOf[a.el][1]) = workflow'[i].selector
                          /\ Matches(SelectorOf[a.el][1], ElementOf[a.el])
                          /\ \A p \in ToSet(SelectorOf[a.el][1].attributes) :
                               p[1] \in Judged => p[2] \notin Dynamic
                          /\ ToSet(SelectorOf[a.el][1].classes) \cap Dynamic = {}
      BY <1>1, <1>3, <1>6, Zenon DEF SelectorsMatchTheirElements, Judged
    <2>1. i \in DOMAIN actions
      BY <1>5, Zenon
    <2>2. PICK w, v : w = actions[i] /\ v = workflow'[i] /\ v = Restored(w)
      BY <1>5, <2>1, Zenon DEF Restored
    <2>3. PICK a \in ToSet(RelevantOf(h)) : a \in Performed /\ Converted(a, w)
      BY <1>4, <1>6, <2>1, <2>2, GeneratedIs, Zenon
    <2>4. v.type = WorkflowType(a.type) /\ v.selector = w.selector
      BY <1>2, <2>2, <2>3, RestoredIs, ZenonT(40)
    <2>5. /\ a.el \in DOMAIN ElementOf /\ SelectorOf[a.el] # <<>>
          /\ w.selector = Rendered(SelectorOf[a.el][1])
      BY <2>2, <2>3, <2>4, Zenon DEF Converted
    <2>6. a.el # "none"
      BY <2>5, GenerationAssumption, Zenon
    <2>7. SelectorOf[a.el][1] \in SelectorsOf(ElementOf[a.el])
      BY <2>5, ChosenSelector, Zenon
    <2>8. /\ Matches(SelectorOf[a.el][1], ElementOf[a.el])
          /\ \A p \in ToSet(SelectorOf[a.el][1].attributes) :
               p[1] \in Judged => p[2] \notin Dynamic
          /\ ToSet(SelectorOf[a.el][1].classes) \cap Dynamic = {}
      BY <2>7, SelectorMatches, Zenon
    <2> QED
      BY <2>2, <2>3, <2>4, <2>5, <2>6, <2>8, Zenon
  <1> QED
    BY <1>7, <1>8, <1>9, <1>10, <1>11, Zenon DEF IInv

\* A step that changes nothing.
LEMMA FinishedStep == IInv /\ UNCHANGED vars => IInv'
  <1> SUFFICES ASSUME IInv, UNCHANGED vars PROVE IInv'
    OBVIOUS
  <1>1. UNCHANGED <<pc, params, steps, histories, evolution, chosen, workflow>>
    BY DEF vars
  <1>2. TypeOk'
    BY <1>1, SameTypes, Zenon DEF IInv, TypeOk
  <1>3. ProgressOk'
    BY <1>1, Zenon DEF IInv, ProgressOk
  <1>4. Summarizes(evolution, histories)'
    BY <1>1, Zenon DEF IInv
  <1>5. FailuresComeFirst'
    BY <1>1, Zenon DEF IInv, FailuresComeFirst
  <1>6. SelectorsMatchTheirElements'
    BY <1>1, Zenon DEF IInv, SelectorsMatchTheirElements
  <1> QED
    BY <1>2, <1>3, <1>4, <1>5, <1>6, Zenon DEF IInv

\* No step breaks the invariant.
LEMMA StepIInv == IInv /\ [Next]_vars => IInv'
  BY PrepareStep, AgentStepsStep, RoundRaisesStep, RoundEndsStep, GenerateStep, ParameterizeStep, FinishedStep
     DEF Next, Finished

\* The invariant holds in every reachable state.
THEOREM SpecIInv == Spec => []IInv
  BY InitIInv, StepIInv, PTL DEF Spec

\* In every state the rounds hold what the agent can perform, for any turns, elements and
\* parameters.
THEOREM TypeCorrect == Spec => []TypeOk
  <1>1. IInv => TypeOk
    BY DEF IInv
  <1> QED
    BY <1>1, SpecIInv, PTL

\* A failed round is preferred, and of the rounds of its kind a shortest is chosen, for any
\* number of rounds and any turns (prune_agenthistorylist, generate_workflow).
THEOREM FailedFirst == Spec => []FailuresComeFirst
  <1>1. IInv => FailuresComeFirst
    BY DEF IInv
  <1> QED
    BY <1>1, SpecIInv, PTL

\* For any elements the selector of a generated action matches the element that was recorded with
\* the agent's action, and no class token, id, test id, value, src or target in it looks generated
\* for that one page (generate_selectors, _convert_action).
THEOREM SelectorsAreSound == Spec => []SelectorsMatchTheirElements
  <1>1. IInv => SelectorsMatchTheirElements
    BY DEF IInv
  <1> QED
    BY <1>1, SpecIInv, PTL

\* The steps of these rounds.
StepsIn(hs) == UNION {ToSet(hs[i].steps) : i \in DOMAIN hs}

\* A label that an evolution counts occurred in a step of that kind.
LEMMA CountedOccurred ==
  ASSUME NEW hs, NEW failed, NEW l \in SeenIn(hs, failed)
  PROVE  \E s \in StepsIn(hs) : HasError(s) = failed /\ l \in ToSet(LabelsOf(<<s>>))
  <1>1. PICK i \in DOMAIN hs :
          l \in UNION {ToSet(LabelsOf(<<s>>)) : s \in {t \in ToSet(hs[i].steps) : HasError(t) = failed}}
    BY Zenon DEF SeenIn
  <1>2. PICK s \in {t \in ToSet(hs[i].steps) : HasError(t) = failed} : l \in ToSet(LabelsOf(<<s>>))
    BY <1>1, Zenon
  <1>3. s \in StepsIn(hs)
    BY <1>1, <1>2, Zenon DEF StepsIn
  <1> QED
    BY <1>2, <1>3, Zenon

\* A page or an error that it counts is that of a step.
LEMMA CountedMet ==
  ASSUME NEW hs \in Seq(History)
  PROVE  /\ \A url \in UrlsIn(hs) : url \notin IgnoredUrls /\ \E s \in StepsIn(hs) : s.url = url
         /\ \A error \in ErrorsIn(hs) : \E s \in StepsIn(hs) : error \in ToSet(s.errors)
  <1>1. \A i \in DOMAIN hs : hs[i].steps \in Seq(Step) /\ ToSet(hs[i].steps) \subseteq StepsIn(hs)
    <2>1. \A i \in DOMAIN hs : hs[i] \in History
      OBVIOUS
    <2>2. \A i \in DOMAIN hs : hs[i].steps \in Seq(Step)
      BY <2>1, Zenon DEF History
    <2> QED
      BY <2>2, Zenon DEF StepsIn
  <1>2. ASSUME NEW url \in UrlsIn(hs)
        PROVE  url \notin IgnoredUrls /\ \E s \in StepsIn(hs) : s.url = url
    <2>1. PICK i \in DOMAIN hs : url \in ToSet(UrlsOf(hs[i].steps))
      BY Zenon DEF UrlsIn
    <2>2. url \notin IgnoredUrls /\ \E s \in ToSet(hs[i].steps) : s.url = url
      BY <1>1, <2>1, MetAre, Zenon
    <2> QED
      BY <1>1, <2>2, Zenon
  <1>3. ASSUME NEW error \in ErrorsIn(hs)
        PROVE  \E s \in StepsIn(hs) : error \in ToSet(s.errors)
    <2>1. PICK i \in DOMAIN hs : error \in ToSet(ErrorsOf(hs[i].steps))
      BY Zenon DEF ErrorsIn
    <2>2. \E s \in ToSet(hs[i].steps) : error \in ToSet(s.errors)
      BY <1>1, <2>1, MetAre, Zenon
    <2> QED
      BY <1>1, <2>2, Zenon
  <1> QED
    BY <1>2, <1>3, Zenon

\* What a prompt may say of these rounds.
Guides(g, hs) ==
  LET won == {i \in DOMAIN hs : hs[i].verdict = "yes"}
      all == UNION {ToSet(hs[i].steps) : i \in DOMAIN hs}
      Occurred(l, failed) == \E s \in all : HasError(s) = failed /\ l \in ToSet(LabelsOf(<<s>>))
  IN /\ g.runs = Len(hs) /\ g.successes = Cardinality(won)
     /\ g.best = 0 <=> won = {}
     /\ won # {} => /\ \A i \in won : g.best <= Len(hs[i].steps)
                    /\ \E i \in won : /\ Len(hs[i].steps) = g.best
                                      /\ g.sequence = Upto(MaxActions, LabelsOf(hs[i].steps))
     /\ \A l \in g.prefer : Occurred(l, FALSE)
     /\ \A l \in g.avoid : Occurred(l, TRUE)
     /\ \A url \in g.urls : url \notin IgnoredUrls /\ \E s \in all : s.url = url
     /\ \A error \in g.errors : \E s \in all : error \in ToSet(s.errors)

\* The guidance is a part of what the evolution says.
LEMMA GuidanceOf ==
  ASSUME NEW e, NEW hs \in Seq(History), Summarizes(e, hs), build_evolutionary_prompt(e) # NoGuidance
  PROVE  Guides(build_evolutionary_prompt(e), hs)
  <1>2. Summarizes(e, hs)
    OBVIOUS
  <1>3. PICK g : g = build_evolutionary_prompt(e)
    OBVIOUS
  <1>4. e.runs # 0
    BY Zenon DEF build_evolutionary_prompt
  <1>5. g = [runs |-> e.runs, successes |-> e.successes, best |-> e.best, sequence |-> Upto(MaxActions, e.sequence),
             prefer |-> MostCommon(e.good, MaxActions), avoid |-> MostCommon(e.bad, MaxActions),
             urls |-> MostCommon(e.urls, MaxUrls), errors |-> MostCommon(e.messages, MaxErrors)]
    BY <1>3, <1>4, Zenon DEF build_evolutionary_prompt
  <1>6. /\ g.runs = e.runs /\ g.successes = e.successes /\ g.best = e.best
        /\ g.sequence = Upto(MaxActions, e.sequence)
        /\ g.prefer = MostCommon(e.good, MaxActions) /\ g.avoid = MostCommon(e.bad, MaxActions)
        /\ g.urls = MostCommon(e.urls, MaxUrls) /\ g.errors = MostCommon(e.messages, MaxErrors)
    BY <1>5
  <1>7. /\ e.runs = Len(hs) /\ e.successes = Cardinality(Won(hs)) /\ (e.best = 0 <=> Won(hs) = {})
        /\ \A i \in Won(hs) : e.best <= Len(hs[i].steps)
        /\ Won(hs) # {} => \E i \in Won(hs) : Len(hs[i].steps) = e.best /\ e.sequence = LabelsOf(hs[i].steps)
    BY <1>2, Zenon DEF Summarizes
  <1>8. /\ g.prefer \subseteq SeenIn(hs, FALSE) /\ g.avoid \subseteq SeenIn(hs, TRUE)
        /\ g.urls \subseteq UrlsIn(hs) /\ g.errors \subseteq ErrorsIn(hs)
    <2>1. /\ IsCounter(e.good, SeenIn(hs, FALSE)) /\ IsCounter(e.bad, SeenIn(hs, TRUE))
          /\ IsCounter(e.urls, UrlsIn(hs)) /\ IsCounter(e.messages, ErrorsIn(hs))
      BY <1>2, Zenon DEF Summarizes
    <2>2. MaxActions \in Nat /\ MaxUrls \in Nat /\ MaxErrors \in Nat
      BY GenerationAssumption, Zenon
    <2>3. /\ MostCommon(e.good, MaxActions) \in SUBSET SeenIn(hs, FALSE)
          /\ MostCommon(e.bad, MaxActions) \in SUBSET SeenIn(hs, TRUE)
          /\ MostCommon(e.urls, MaxUrls) \in SUBSET UrlsIn(hs)
          /\ MostCommon(e.messages, MaxErrors) \in SUBSET ErrorsIn(hs)
      BY <2>1, <2>2, MostCommonIs, Zenon
    <2> QED
      BY <1>6, <2>3, Zenon
  <1>9. \A l \in g.prefer : \E s \in StepsIn(hs) : HasError(s) = FALSE /\ l \in ToSet(LabelsOf(<<s>>))
    BY <1>8, CountedOccurred, Zenon
  <1>10. \A l \in g.avoid : \E s \in StepsIn(hs) : HasError(s) = TRUE /\ l \in ToSet(LabelsOf(<<s>>))
    BY <1>8, CountedOccurred, Zenon
  <1>13. /\ \A url \in g.urls : url \notin IgnoredUrls /\ \E s \in StepsIn(hs) : s.url = url
         /\ \A error \in g.errors : \E s \in StepsIn(hs) : error \in ToSet(s.errors)
    BY <1>8, CountedMet, Zenon
  <1>11. Won(hs) # {} =>
           /\ \A i \in Won(hs) : g.best <= Len(hs[i].steps)
           /\ \E i \in Won(hs) : Len(hs[i].steps) = g.best /\ g.sequence = Upto(MaxActions, LabelsOf(hs[i].steps))
    BY <1>6, <1>7, Zenon
  <1>12. /\ g.runs = Len(hs) /\ g.successes = Cardinality(Won(hs)) /\ (g.best = 0 <=> Won(hs) = {})
    BY <1>6, <1>7, Zenon
  <1>14. Guides(g, hs)
    BY <1>9, <1>10, <1>11, <1>12, <1>13, Zenon DEF Guides, Won, StepsIn
  <1> QED
    BY <1>3, <1>14, Zenon

\* So it is true of the rounds of a call.
LEMMA GuidanceFollows == IInv => GuidanceIsTrue
  <1> SUFFICES ASSUME IInv, build_evolutionary_prompt(evolution) # NoGuidance PROVE GuidanceIsTrue
    BY Zenon DEF GuidanceIsTrue
  <1>1. Summarizes(evolution, histories) /\ histories \in Seq(History)
    BY Zenon DEF IInv, TypeOk
  <1>2. Guides(build_evolutionary_prompt(evolution), histories)
    BY <1>1, GuidanceOf, Zenon
  <1> QED
    BY <1>2, Zenon DEF Guides, GuidanceIsTrue

\* What the prompt says of the rounds before is true of them, for any number of rounds and any
\* limits of what it names (update_evolution, build_evolutionary_prompt).
THEOREM TrueGuidance == Spec => []GuidanceIsTrue
  BY GuidanceFollows, SpecIInv, PTL
-----------------------------------------------------------------------------
\* Two sequences of the same length with related elements.
Aligned(s, t, R) == Len(s) = Len(t) /\ \A i \in DOMAIN s : <<s[i], t[i]>> \in R

\* One more pair in front.
LEMMA AlignedCons ==
  ASSUME NEW V, NEW W, NEW s \in Seq(V), NEW t \in Seq(W), NEW R, Aligned(s, t, R),
         NEW v \in V, NEW w \in W, <<v, w>> \in R
  PROVE  Aligned(<<v>> \o s, <<w>> \o t, R)
  <1>1. PICK n \in Nat : n = Len(s) /\ DOMAIN s = 1..n
    BY LenIs, Zenon
  <1>2. Len(t) = n /\ \A i \in 1..n : <<s[i], t[i]>> \in R
    BY <1>1 DEF Aligned
  <1>3. PICK p \in Seq(V), q \in Seq(W) : p = <<v>> \o s /\ q = <<w>> \o t
    <2>1. <<v>> \o s \in Seq(V) /\ <<w>> \o t \in Seq(W)
      OBVIOUS
    <2> QED
      BY <2>1, Zenon
  <1>4. /\ Len(p) = n + 1 /\ Len(q) = n + 1 /\ DOMAIN p = 1..n + 1 /\ p[1] = v /\ q[1] = w
        /\ \A i \in 1..n : p[i + 1] = s[i] /\ q[i + 1] = t[i]
    BY <1>1, <1>2, <1>3
  <1>5. \A i \in 1..n + 1 : i = 1 \/ \E k \in 1..n : i = k + 1
    <2>1. \A i \in 1..n + 1 : i # 1 => i - 1 \in 1..n /\ i = (i - 1) + 1
      OBVIOUS
    <2> QED
      BY <2>1
  <1>6. ASSUME NEW i \in 1..n + 1 PROVE <<p[i], q[i]>> \in R
    <2>1. CASE i = 1
      BY <1>4, <2>1
    <2>2. CASE \E k \in 1..n : i = k + 1
      <3>1. PICK k \in 1..n : i = k + 1
        BY <2>2
      <3>2. p[i] = s[k] /\ q[i] = t[k]
        BY <1>4, <3>1
      <3> QED
        BY <1>2, <3>2, Zenon
    <2> QED
      BY <1>5, <2>1, <2>2
  <1> QED
    BY <1>3, <1>4, <1>6 DEF Aligned

\* Two replacements of each element by nothing or by one, where the ones are related.
Pairing(U, V, W, f, g, R) ==
  /\ f \in [U -> Seq(V)] /\ g \in [U -> Seq(W)]
  /\ \A u \in U : \/ f[u] = <<>> /\ g[u] = <<>>
                  \/ \E v \in V, w \in W : f[u] = <<v>> /\ g[u] = <<w>> /\ <<v, w>> \in R

\* What becomes of a sequence under them is aligned.
LEMMA Parallel ==
  ASSUME NEW U, NEW V, NEW W, NEW f, NEW g, NEW R, Pairing(U, V, W, f, g, R)
  PROVE  \A s \in Seq(U) : Aligned(FlatMap(f, s), FlatMap(g, s), R)
  <1>0. f \in [U -> Seq(V)] /\ g \in [U -> Seq(W)]
    BY DEF Pairing
  <1> DEFINE S == {s \in Seq(U) : Aligned(FlatMap(f, s), FlatMap(g, s), R)}
  <1>1. <<>> \in S
    <2>1. <<>> \in Seq(U) /\ Aligned(<<>>, <<>>, R)
      BY DEF Aligned
    <2> QED
      BY <2>1, FlatMapEmpty
  <1>2. ASSUME NEW s \in Seq(U), NEW u \in U, s \in S PROVE <<u>> \o s \in S
    <2>1. <<u>> \o s \in Seq(U)
      OBVIOUS
    <2>2. PICK p \in Seq(V), q \in Seq(W) : p = FlatMap(f, s) /\ q = FlatMap(g, s)
      BY <1>0, FlatMapIs
    <2>3. FlatMap(f, <<u>> \o s) = f[u] \o p /\ FlatMap(g, <<u>> \o s) = g[u] \o q
      BY <1>0, <2>2, FlatMapCons, ZenonT(60)
    <2>4. Aligned(p, q, R)
      BY <1>2, <2>2
    <2>5. CASE f[u] = <<>> /\ g[u] = <<>>
      <3>1. <<>> \o p = p /\ <<>> \o q = q
        OBVIOUS
      <3> QED
        BY <2>1, <2>3, <2>4, <2>5, <3>1
    <2>6. CASE \E v \in V, w \in W : f[u] = <<v>> /\ g[u] = <<w>> /\ <<v, w>> \in R
      <3>1. PICK v \in V, w \in W : f[u] = <<v>> /\ g[u] = <<w>> /\ <<v, w>> \in R
        BY <2>6
      <3>2. Aligned(<<v>> \o p, <<w>> \o q, R)
        BY <2>4, <3>1, AlignedCons
      <3> QED
        BY <2>1, <2>3, <3>1, <3>2, Zenon
    <2> QED
      BY <2>5, <2>6 DEF Pairing
  <1>3. Seq(U) \subseteq S
    <2> HIDE DEF S
    <2> QED
      BY <1>1, <1>2, ConsInduction
  <1> QED
    BY <1>3

\* Each element of U by itself when it is in P, and nothing for the others.
Picked(U, P) == [u \in U |-> IF u \in P THEN <<u>> ELSE <<>>]
SameFor(s, S, P) == \A u \in ToSet(s) : u \in S <=> u \in P

\* What Only leaves of a sequence, element by element.
LEMMA OnlyMaps ==
  ASSUME NEW U, NEW s \in Seq(U), NEW P, NEW S, SameFor(s, S, P)
  PROVE  Only(s, S) = FlatMap(Picked(U, P), s)
  <1>0. PICK f : f = [u \in U |-> IF u \in P THEN <<u>> ELSE <<>>] /\ f = Picked(U, P)
    BY DEF Picked
  <1>1. PICK n \in Nat : n = Len(s) /\ DOMAIN s = 1..n
    BY LenIs, Zenon
  <1>2. \A i \in 1..n : s[i] \in U /\ s[i] \in ToSet(s)
    <2>1. \A i \in 1..n : s[i] \in U
      BY <1>1
    <2> QED
      BY <1>1, <2>1 DEF ToSet
  <1>3. [i \in 1..n |-> IF s[i] \in S THEN <<s[i]>> ELSE <<>>] = [i \in 1..n |-> f[s[i]]]
    <2>1. \A i \in 1..n : (IF s[i] \in S THEN <<s[i]>> ELSE <<>>) = f[s[i]]
      BY <1>0, <1>2 DEF SameFor
    <2> QED
      BY <2>1, Zenon
  <1> QED
    BY <1>0, <1>1, <1>3, Zenon DEF Only, FlatMap

\* A sequence of one element is replaced by what is there for it.
LEMMA FlatMapOne ==
  ASSUME NEW U, NEW V, NEW f \in [U -> Seq(V)], NEW u \in U
  PROVE  FlatMap(f, <<u>>) = f[u]
  <1>1. <<>> \in Seq(U) /\ <<u>> \o <<>> = <<u>>
    OBVIOUS
  <1>2. FlatMap(f, <<u>> \o <<>>) = f[u] \o FlatMap(f, <<>>)
    BY <1>1, FlatMapCons
  <1>3. f[u] \in Seq(V) /\ \A x \in Seq(V) : x \o <<>> = x
    OBVIOUS
  <1> QED
    BY <1>1, <1>2, <1>3, FlatMapEmpty
-----------------------------------------------------------------------------
\* The actions of a round, and those of them that become actions of a workflow.
AllOf(h) == FlattenSeq([i \in DOMAIN h.steps |-> Did(h.steps[i])])
RunOf(h) == Only(AllOf(h), {a \in ToSet(AllOf(h)) : Kept(a)})

\* What _convert_action can make of what the agent may do.
Convertible == UNION {ToSet(_convert_action(a)) : a \in Performed}
Conversions == {r \in Performed \X Convertible : Kept(r[1]) /\ _convert_action(r[1]) = <<r[2]>>}

\* Those actions, and no others, are converted.
LEMMA ConvertsKept ==
  ASSUME NEW a \in Performed
  PROVE  /\ _convert_action(a) \in Seq(Convertible)
         /\ Kept(a) => \E w \in Convertible : _convert_action(a) = <<w>> /\ <<a, w>> \in Conversions
         /\ ~Kept(a) => a.type \in Ignored \/ _convert_action(a) = <<>>
  <1>1. PICK c : c = _convert_action(a)
    OBVIOUS
  <1>2. c = <<>> \/ \E w : c = <<w>>
    BY <1>1, ConvertIs, Zenon
  <1>3. ASSUME NEW w, c = <<w>> PROVE w \in Convertible /\ c \in Seq(Convertible)
    <2>1. w \in ToSet(c)
      <3>1. DOMAIN c = {1} /\ c[1] = w
        BY <1>3
      <3> QED
        BY <3>1 DEF ToSet
    <2>2. w \in Convertible
      BY <1>1, <2>1, Zenon DEF Convertible
    <2> QED
      BY <1>3, <2>2
  <1>4. <<>> \in Seq(Convertible)
    OBVIOUS
  <1>5. (\/ WorkflowType(a.type) = "none"
         \/ WorkflowType(a.type) \in NeedsSelector /\ SelectorOf[a.el] = <<>>
         \/ WorkflowType(a.type) \in NeedsText /\ Blank(a.text)) <=> c = <<>>
    <2>1. \A x : <<x>> # <<>>
      OBVIOUS
    <2> QED
      BY <1>1, <2>1, Zenon DEF _convert_action
  <1>6. ASSUME Kept(a)
        PROVE  \E w \in Convertible : c = <<w>> /\ <<a, w>> \in Conversions
    <2>1. c # <<>>
      BY <1>5, <1>6, Zenon DEF Kept
    <2>2. PICK w : c = <<w>>
      BY <1>2, <2>1
    <2>3. PICK r : r = <<a, w>>
      OBVIOUS
    <2>4. r[1] = a /\ r[2] = w /\ r \in Performed \X Convertible
      BY <1>3, <2>2, <2>3
    <2>5. r \in Conversions
      BY <1>1, <1>6, <2>2, <2>4, Zenon DEF Conversions
    <2> QED
      BY <1>3, <2>2, <2>3, <2>5, Zenon
  <1>7. ASSUME ~Kept(a) PROVE a.type \in Ignored \/ c = <<>>
    BY <1>5, <1>7, Zenon DEF Kept
  <1> QED
    BY <1>1, <1>2, <1>3, <1>4, <1>6, <1>7, Zenon

\* Actions are picked and then converted, or both at once.
LEMMA ConvertTwice ==
  ASSUME NEW rel, NEW conv, InTurn(Performed, Performed, Convertible, rel, conv), NEW s \in Seq(Performed)
  PROVE  FlatMap(conv, FlatMap(rel, s)) = FlatMap(Composed(Performed, rel, conv), s)
  BY FlatMapTwice

\* The workflow of a round has an action for each of those, in their order.
LEMMA GeneratedAligned ==
  ASSUME NEW h \in History
  PROVE  /\ Aligned(RunOf(h), gen_workflow(parse_agent_history(h)), Conversions)
         /\ RunOf(h) \in Seq(Performed) /\ gen_workflow(parse_agent_history(h)) \in Seq(Convertible)
  <1>1. h.steps \in Seq(Step)
    BY DEF History
  <1>2. PICK ss \in Seq(Step) : ss = h.steps
    BY <1>1, Zenon
  <1>3. PICK acts \in [Step -> Seq(Performed)] : acts = [s \in Step |-> Did(s)]
    <2>1. \A s \in Step : Did(s) \in Seq(Performed)
      BY StepIs, Zenon
    <2>2. [s \in Step |-> Did(s)] \in [Step -> Seq(Performed)]
      BY <2>1, Zenon
    <2> QED
      BY <2>2, Zenon
  <1>4. PICK n \in Nat : n = Len(ss) /\ DOMAIN ss = 1..n
    BY LenIs, Zenon
  <1>5. \A i \in 1..n : ss[i] \in Step
    BY <1>4
  <1>6. PICK all \in Seq(Performed) : all = AllOf(h) /\ all = FlatMap(acts, ss)
    <2>1. [i \in 1..n |-> Did(ss[i])] = [i \in 1..n |-> acts[ss[i]]]
      BY <1>3, <1>5, Zenon
    <2>2. AllOf(h) = FlatMap(acts, ss)
      BY <1>2, <1>4, <2>1, Zenon DEF AllOf, FlatMap
    <2>3. FlatMap(acts, ss) \in Seq(Performed)
      BY FlatMapIs
    <2> QED
      BY <2>2, <2>3, Zenon
  <1>7. PICK P : P = {a \in Performed : a.type \notin Ignored}
    OBVIOUS
  <1>8. PICK rel \in [Performed -> Seq(Performed)] : rel = [a \in Performed |-> IF a \in P THEN <<a>> ELSE <<>>]
    <2>1. \A a \in Performed : <<a>> \in Seq(Performed) /\ <<>> \in Seq(Performed)
      OBVIOUS
    <2>2. [a \in Performed |-> IF a \in P THEN <<a>> ELSE <<>>] \in [Performed -> Seq(Performed)]
      BY <2>1, Zenon
    <2> QED
      BY <2>2, Zenon
  <1>9. PICK rs : rs = [s \in Step |-> FlatMap(rel, acts[s])]
    OBVIOUS
  <1>10. ASSUME NEW s \in Step PROVE Relevant(s) = rs[s]
    <2>1. PICK as \in Seq(Performed) : as = Did(s) /\ as = acts[s]
      BY <1>3, StepIs, Zenon
    <2>2. \A a \in ToSet(as) : a \in Performed
      BY Members
    <2>3. PICK S : S = {b \in ToSet(as) : b.type \notin Ignored}
      OBVIOUS
    <2>4. SameFor(as, S, P)
      BY <1>7, <2>2, <2>3, Zenon DEF SameFor
    <2>5. Only(as, S) = FlatMap(Picked(Performed, P), as)
      BY <2>4, OnlyMaps
    <2> QED
      BY <1>8, <1>9, <2>1, <2>3, <2>5, Zenon DEF Relevant, Picked
  <1>11. RelevantOf(h) = FlatMap(rel, all)
    <2>1. [i \in 1..n |-> Relevant(ss[i])] = [i \in 1..n |-> rs[ss[i]]]
      BY <1>5, <1>10, Zenon
    <2>2. RelevantOf(h) = FlatMap(rs, ss)
      BY <1>2, <1>4, <2>1, Zenon DEF RelevantOf, FlatMap
    <2>3. FlatMap(rel, FlatMap(acts, ss)) = FlatMap(Composed(Step, acts, rel), ss)
      <3>1. InTurn(Step, Performed, Performed, acts, rel)
        BY Zenon DEF InTurn
      <3>2. \A s \in Seq(Step) : FlatMap(rel, FlatMap(acts, s)) = FlatMap(Composed(Step, acts, rel), s)
        BY <3>1, FlatMapTwice
      <3> QED
        BY <3>2, Zenon
    <2> QED
      BY <1>6, <1>9, <2>2, <2>3, Zenon DEF Composed
  <1>12. PICK conv \in [Performed -> Seq(Convertible)] : conv = [a \in Performed |-> _convert_action(a)]
    <2>1. [a \in Performed |-> _convert_action(a)] \in [Performed -> Seq(Convertible)]
      BY ConvertsKept, Zenon
    <2> QED
      BY <2>1, Zenon
  <1>13. PICK both : both = [a \in Performed |-> FlatMap(conv, rel[a])]
    OBVIOUS
  <1>14. gen_workflow(parse_agent_history(h)) = FlatMap(both, all)
    <2>1. PICK parsed \in Seq(Performed) : parsed = RelevantOf(h)
      BY <1>2, RelevantOfIs
    <2>2. PICK m \in Nat : m = Len(parsed) /\ DOMAIN parsed = 1..m
      BY LenIs, Zenon
    <2>3. \A i \in 1..m : parsed[i] \in Performed
      BY <2>2
    <2>4. [i \in 1..m |-> _convert_action(parsed[i])] = [i \in 1..m |-> conv[parsed[i]]]
      BY <1>12, <2>3, Zenon
    <2>5. gen_workflow(parse_agent_history(h)) = FlatMap(conv, parsed)
      BY <2>1, <2>2, <2>4, Zenon DEF gen_workflow, parse_agent_history, FlatMap
    <2>6. FlatMap(conv, FlatMap(rel, all)) = FlatMap(Composed(Performed, rel, conv), all)
      <3>1. InTurn(Performed, Performed, Convertible, rel, conv)
        BY Zenon DEF InTurn
      <3> QED
        BY <3>1, ConvertTwice, Zenon
    <2> QED
      BY <1>11, <1>13, <2>1, <2>5, <2>6, Zenon DEF Composed
  <1>15. PICK K : K = {a \in Performed : Kept(a)}
    OBVIOUS
  <1>16. PICK keep \in [Performed -> Seq(Performed)] : keep = [a \in Performed |-> IF a \in K THEN <<a>> ELSE <<>>]
    <2>1. \A a \in Performed : <<a>> \in Seq(Performed) /\ <<>> \in Seq(Performed)
      OBVIOUS
    <2>2. [a \in Performed |-> IF a \in K THEN <<a>> ELSE <<>>] \in [Performed -> Seq(Performed)]
      BY <2>1, Zenon
    <2> QED
      BY <2>2, Zenon
  <1>17. RunOf(h) = FlatMap(keep, all)
    <2>1. \A a \in ToSet(all) : a \in Performed
      BY Members
    <2>2. PICK S : S = {b \in ToSet(all) : Kept(b)}
      OBVIOUS
    <2>3. SameFor(all, S, K)
      BY <1>15, <2>1, <2>2, Zenon DEF SameFor
    <2>4. Only(all, S) = FlatMap(Picked(Performed, K), all)
      BY <2>3, OnlyMaps
    <2> QED
      BY <1>6, <1>16, <2>2, <2>4, Zenon DEF RunOf, Picked
  <1>18. ASSUME NEW a \in Performed
         PROVE  both[a] = IF a.type \in Ignored THEN <<>> ELSE _convert_action(a)
    <2>1. CASE a.type \in Ignored
      <3>1. rel[a] = <<>>
        BY <1>7, <1>8, <2>1, Zenon
      <3> QED
        BY <1>13, <2>1, <3>1, FlatMapEmpty, Zenon
    <2>2. CASE a.type \notin Ignored
      <3>1. rel[a] = <<a>>
        BY <1>7, <1>8, <2>2, Zenon
      <3>2. FlatMap(conv, <<a>>) = conv[a]
        BY FlatMapOne
      <3> QED
        BY <1>12, <1>13, <2>2, <3>1, <3>2, Zenon
    <2> QED
      BY <2>1, <2>2
  <1>19. Pairing(Performed, Performed, Convertible, keep, both, Conversions)
    <2>1. both \in [Performed -> Seq(Convertible)]
      <3>1. <<>> \in Seq(Convertible)
        OBVIOUS
      <3>2. \A a \in Performed : both[a] \in Seq(Convertible)
        BY <1>18, <3>1, ConvertsKept, Zenon
      <3> QED
        BY <1>13, <3>2, Zenon
    <2>2. ASSUME NEW a \in Performed, Kept(a)
          PROVE  \E v \in Performed, w \in Convertible :
                   keep[a] = <<v>> /\ both[a] = <<w>> /\ <<v, w>> \in Conversions
      <3>1. PICK w \in Convertible : _convert_action(a) = <<w>> /\ <<a, w>> \in Conversions
        BY <2>2, ConvertsKept, Zenon
      <3>2. keep[a] = <<a>>
        BY <1>15, <1>16, <2>2, Zenon
      <3>3. both[a] = <<w>>
        BY <1>18, <2>2, <3>1, Zenon DEF Kept
      <3> QED
        BY <3>1, <3>2, <3>3, Zenon
    <2>3. ASSUME NEW a \in Performed, ~Kept(a)
          PROVE  keep[a] = <<>> /\ both[a] = <<>>
      <3>1. keep[a] = <<>>
        BY <1>15, <1>16, <2>3, Zenon
      <3>2. a.type \in Ignored \/ _convert_action(a) = <<>>
        BY <2>3, ConvertsKept, Zenon
      <3> QED
        BY <1>18, <3>1, <3>2, Zenon
    <2> QED
      BY <2>1, <2>2, <2>3, Zenon DEF Pairing
  <1>20. Aligned(FlatMap(keep, all), FlatMap(both, all), Conversions)
    BY <1>19, Parallel
  <1>21. FlatMap(keep, all) \in Seq(Performed)
    BY FlatMapIs
  <1>22. FlatMap(both, all) \in Seq(Convertible)
    <2>1. both \in [Performed -> Seq(Convertible)]
      BY <1>19, Zenon DEF Pairing
    <2> QED
      BY <2>1, FlatMapIs
  <1> QED
    BY <1>14, <1>17, <1>20, <1>21, <1>22, Zenon
-----------------------------------------------------------------------------
\* What the agent writes in an action is a text of units, told as it was told the parameters.
LEMMA WrittenIs ==
  ASSUME PlainInputs, params \in ParameterSets, NEW a \in Performed
  PROVE  \E us \in Seq(Units(params)) : a.text = Text(params, AsTold(params), us)
  <1>1. PICK turn \in Turns : Possible(turn) /\ a \in ToSet(Did(StepOf(turn)))
    BY Zenon DEF Performed, Step
  <1>2. PICK plan \in Seq(Planned) : plan = turn.plan
    BY GenerationAssumption, Zenon DEF Turn
  <1>3. PICK n \in Nat : n = Len(plan) /\ DOMAIN plan = 1..n
    BY LenIs, Zenon
  <1>4. PICK k \in 1..n : a.text = Written(plan[k].wanted)
    <2>1. PICK step : step = StepOf(turn)
      OBVIOUS
    <2>2. step.actions = Acts(plan)
      BY <1>2, <2>1 DEF StepOf
    <2>3. PICK done : done = Acts(plan)
      OBVIOUS
    <2>4. done = [k \in 1..n |-> [type |-> plan[k].type, text |-> Written(plan[k].wanted)]]
      BY <1>3, <2>3, Zenon DEF Acts
    <2>5. DOMAIN done = 1..n
      BY <2>4, Zenon
    <2>6. PICK k, type, el : k \in 1..n /\ a = [type |-> type, text |-> done[k].text, el |-> el]
      BY <1>1, <2>1, <2>2, <2>3, <2>5, Zenon DEF Did, ToSet
    <2>7. PICK r : r = [type |-> plan[k].type, text |-> Written(plan[k].wanted)]
      OBVIOUS
    <2>8. done[k] = r /\ r.text = Written(plan[k].wanted)
      BY <2>4, <2>6, <2>7
    <2>9. a.text = done[k].text
      BY <2>6
    <2> QED
      BY <2>6, <2>8, <2>9, Zenon
  <1>5. PICK p \in Planned : p = plan[k] /\ p \in ToSet(plan)
    <2>1. plan[k] \in Planned /\ k \in DOMAIN plan
      BY <1>3
    <2> QED
      BY <2>1, Zenon DEF ToSet
  <1>6. a.text = Written(p.wanted)
    BY <1>4, <1>5, Zenon
  <1>7. PICK wanted \in Seq([word : STRING, param : Nat]) : wanted = p.wanted
    BY Zenon DEF Planned
  <1>8. PICK m \in Nat : m = Len(wanted) /\ DOMAIN wanted = 1..m
    BY LenIs, Zenon
  <1>9. ASSUME NEW i \in 1..m PROVE wanted[i] \in Units(params)
    <2>1. PICK u \in [word : STRING, param : Nat] : u = wanted[i]
      <3>1. \A V : \A s \in Seq(V) : \A j \in DOMAIN s : s[j] \in V
        OBVIOUS
      <3>2. wanted[i] \in [word : STRING, param : Nat]
        BY <1>8, <3>1, Zenon
      <3> QED
        BY <3>2, Zenon
    <2>2. u \in ToSet(wanted)
      BY <1>8, <2>1, Zenon DEF ToSet
    <2>3. u.param <= Len(params)
      BY <1>1, <1>2, <1>5, <1>7, <2>2, Zenon DEF Possible
    <2>4. u.param = 0 => u.word \notin Brackets
      BY <1>1, <1>2, <1>5, <1>7, <2>2, Zenon DEF PlainInputs
    <2>5. u.param \in {0} \cup DOMAIN params
      <3>1. params \in Seq(Parameter)
        BY GenerationAssumption, Zenon DEF IsParameters
      <3>2. DOMAIN params = 1..Len(params) /\ Len(params) \in Nat
        BY <3>1
      <3>3. u.param \in Nat
        OBVIOUS
      <3> QED
        BY <2>3, <3>2, <3>3
    <2>6. u \in [word : Frag, param : Nat]
      <3>1. STRING \subseteq Frag
        BY DEF Frag
      <3> QED
        BY <3>1
    <2> QED
      BY <2>1, <2>4, <2>5, <2>6, Zenon DEF Units
  <1>10. wanted \in Seq(Units(params))
    <2>1. wanted \in [1..m -> Units(params)]
      <3>1. wanted = [i \in 1..m |-> wanted[i]]
        BY <1>8
      <3> QED
        BY <1>9, <3>1, Zenon
    <2>2. \A U : [1..m -> U] \subseteq Seq(U)
      OBVIOUS
    <2> QED
      BY <2>1, <2>2, Zenon
  <1>11. PICK f : f = Render(params, AsTold(params))
    OBVIOUS
  <1>12. ASSUME NEW i \in 1..m
         PROVE  f[wanted[i]] = IF wanted[i].param = 0 THEN <<wanted[i].word>> ELSE Told(params, wanted[i].param)
    <2>1. wanted[i].param # 0 => wanted[i].param \in DOMAIN params
      BY <1>9, Zenon DEF Units
    <2>2. f[wanted[i]] = IF wanted[i].param = 0 THEN <<wanted[i].word>> ELSE AsTold(params)[wanted[i].param]
      BY <1>9, <1>11, Zenon DEF Render
    <2> QED
      BY <2>1, <2>2, Zenon DEF AsTold
  <1>13. [i \in 1..m |-> IF wanted[i].param = 0 THEN <<wanted[i].word>> ELSE Told(params, wanted[i].param)]
         = [i \in 1..m |-> f[wanted[i]]]
    BY <1>12, Zenon
  <1>14. Written(wanted) = Text(params, AsTold(params), wanted)
    BY <1>8, <1>11, <1>13, Zenon DEF Written, Text, FlatMap
  <1> QED
    BY <1>6, <1>7, <1>10, <1>14, Zenon

\* Such a text is made of fragments.
LEMMA TextType ==
  ASSUME NEW ps, NEW r, IsRendering(ps, r), NEW us \in Seq(Units(ps))
  PROVE  Text(ps, r, us) \in Seq(Frag)
  <1>1. Render(ps, r) \in [Units(ps) -> Seq(Frag)]
    BY RenderIs
  <1> QED
    BY <1>1, FlatMapIs DEF Text

\* The seconds to wait are a text without brackets.
LEMMA SecondsAre ==
  ASSUME NEW text \in Seq(Frag)
  PROVE  Seconds(text) \in Seq(Frag) /\ Bare(Seconds(text))
  <1>1. CASE text \in Numerals
    BY <1>1, GenerationAssumption, Zenon DEF Seconds
  <1>2. CASE text \notin Numerals
    <2>1. PICK three \in Frag : three = "3"
      BY Zenon DEF Frag
    <2>2. \A V : \A v \in V : <<v>> \in Seq(V) /\ <<v>> # <<>> /\ DOMAIN <<v>> = {1} /\ <<v>>[1] = v /\ Len(<<v>>) = 1
      OBVIOUS
    <2>3. PICK s \in Seq(Frag) : s = <<three>> /\ s # <<>> /\ DOMAIN s = {1} /\ s[1] = three /\ Len(s) = 1
      BY <2>2, Zenon
    <2>4. three \notin Brackets /\ three # " "
      BY <2>1, Zenon DEF Brackets
    <2>5. Bare(s)
      BY <2>3, <2>4, Zenon DEF Bare
    <2>6. Seconds(text) = s
      BY <1>2, <2>1, <2>3, Zenon DEF Seconds
    <2> QED
      BY <2>3, <2>5, <2>6
  <1> QED
    BY <1>1, <1>2

\* What the agent waits is what it wrote, unless that is no number: then the workflow waits three
\* seconds.
LEMMA NoSecretSeconds ==
  ASSUME ToldApart(params), NEW t \in Seq(Frag)
  PROVE  Typed(params, t) = t \/ Seconds(t) = <<"3">>
  <1>1. PICK D, by : D = Aliased(params) /\ by = [alias \in D |-> SecretOf(params, alias).value]
    OBVIOUS
  <1>2. CASE t \in Numerals
    <2>1. Without(t, "<secret>")
      <3>1. \A k \in DOMAIN t : t[k] \notin Brackets
        BY <1>2, GenerationAssumption, Zenon DEF Bare
      <3>2. "<secret>" \in Brackets
        BY Zenon DEF Brackets
      <3> QED
        BY <3>1, <3>2, Zenon DEF Without
    <2>2. Rewriting(Frag, "<secret>", "</secret>", D, by)
      BY <1>1, TypingIs
    <2>3. Rewrite(t, "<secret>", "</secret>", by) = t
      BY <2>1, <2>2, PlainRewritten
    <2> QED
      BY <1>1, <2>3, Zenon DEF Typed
  <1>3. CASE t \notin Numerals
    BY <1>3, Zenon DEF Seconds
  <1> QED
    BY <1>2, <1>3

\* A selector as text is made of fragments, too.
LEMMA SelectorText ==
  ASSUME PlainInputs, NEW el \in DOMAIN ElementOf, SelectorOf[el] # <<>>
  PROVE  Rendered(SelectorOf[el][1]) \in Seq(Frag) /\ Bare(Rendered(SelectorOf[el][1]))
  <1>1. IsElement(ElementOf[el])
    BY GenerationAssumption
  <1>2. SelectorOf[el][1] \in SelectorsOf(ElementOf[el])
    BY ChosenSelector
  <1>3. Rendered(SelectorOf[el][1]) \in Seq(Fragments(ElementOf[el]) \cup Punctuation)
    BY <1>1, <1>2, RenderedIs, Zenon
  <1>4. Fragments(ElementOf[el]) \subseteq STRING
    <2>1. PICK e : e = ElementOf[el]
      OBVIOUS
    <2>2. /\ {e.tag, e.xpath} \cup DOMAIN e.attributes \subseteq STRING
          /\ \A key \in DOMAIN e.attributes : e.attributes[key] \in STRING
          /\ e.classes \in Seq(STRING) /\ e.css \in Seq([text : STRING, nth : BOOLEAN])
      BY <1>1, <2>1, Zenon DEF IsElement
    <2>3. \A V : \A s \in Seq(V) : \A k \in DOMAIN s : s[k] \in V
      OBVIOUS
    <2>4. \A r \in [text : STRING, nth : BOOLEAN] : r.text \in STRING
      OBVIOUS
    <2>5. \A i \in DOMAIN e.css : e.css[i].text \in STRING
      BY <2>2, <2>3, <2>4, Zenon
    <2>6. ToSet(e.classes) \subseteq STRING
      BY <2>2, Members, Zenon
    <2>7. {e.css[i].text : i \in DOMAIN e.css} \subseteq STRING
      BY <2>5
    <2>8. {e.attributes[key] : key \in DOMAIN e.attributes} \subseteq STRING
      BY <2>2
    <2> QED
      BY <2>1, <2>2, <2>6, <2>7, <2>8, Zenon DEF Fragments
  <1>5. Fragments(ElementOf[el]) \cup Punctuation \subseteq Frag
    BY <1>4 DEF Punctuation, Frag
  <1>6. Rendered(SelectorOf[el][1]) \in Seq(Frag)
    <2>1. \A A, B : A \subseteq B => Seq(A) \subseteq Seq(B)
      OBVIOUS
    <2> QED
      BY <1>3, <1>5, <2>1, Zenon
  <1> QED
    BY <1>6, Zenon DEF PlainInputs

\* An action of the workflow that is made of an action of the agent.
LEMMA ConversionIs ==
  ASSUME NEW a \in Performed, Kept(a), NEW w, _convert_action(a) = <<w>>
  PROVE  /\ w.type = WorkflowType(a.type) /\ "selector" \in DOMAIN w /\ "text" \in DOMAIN w
         /\ w.type \in NeedsSelector \cup {"scroll"} /\ SelectorOf[a.el] # <<>> =>
              a.el \in DOMAIN ElementOf /\ w.selector = Rendered(SelectorOf[a.el][1])
         /\ w.type = "wait" => w.text = Seconds(a.text)
         /\ w.type \in NeedsText \cup {"input_text"} => w.text = a.text
  <1>1. PICK type, selector : type = WorkflowType(a.type) /\ selector = SelectorOf[a.el]
    OBVIOUS
  <1>2. PICK taken : taken = IF selector = <<>> \/ type \notin NeedsSelector \cup {"scroll"} THEN <<>>
                             ELSE Rendered(selector[1])
    OBVIOUS
  <1>3. PICK text : text = CASE type = "wait" -> Seconds(a.text)
                             [] type \in NeedsText \cup {"input_text"} -> a.text
                             [] OTHER -> <<>>
    OBVIOUS
  <1>4. PICK made : made = [type |-> type, selector |-> taken, text |-> text]
    OBVIOUS
  <1>5. _convert_action(a) = <<>> \/ _convert_action(a) = <<made>>
    BY <1>1, <1>2, <1>3, <1>4, Zenon DEF _convert_action
  <1>6. w = made
    <2>1. \A x, y : <<x>> # <<>> /\ (<<x>> = <<y>> => x = y)
      OBVIOUS
    <2> QED
      BY <1>5, <2>1, Zenon
  <1>7. w.type = type /\ w.selector = taken /\ w.text = text /\ "selector" \in DOMAIN w /\ "text" \in DOMAIN w
    BY <1>4, <1>6
  <1>8. type = "wait" => text = Seconds(a.text)
    BY <1>3 DEF NeedsText
  <1>9. type \in NeedsText \cup {"input_text"} => text = a.text
    BY <1>3 DEF NeedsText
  <1>10. ASSUME type \in NeedsSelector \cup {"scroll"}, SelectorOf[a.el] # <<>>
         PROVE  a.el \in DOMAIN ElementOf /\ taken = Rendered(SelectorOf[a.el][1])
    <2>1. a.el = "none" => SelectorOf[a.el] = <<>>
      BY Zenon DEF SelectorOf
    <2>2. a.el \in DOMAIN ElementOf \cup {"none"}
      BY PerformedOn
    <2>3. taken = Rendered(SelectorOf[a.el][1])
      BY <1>1, <1>2, <1>10, Zenon
    <2> QED
      BY <1>10, <2>1, <2>2, <2>3, Zenon
  <1> QED
    BY <1>1, <1>7, <1>8, <1>9, <1>10, Zenon
-----------------------------------------------------------------------------
\* An action of the workflow with placeholders for the values of parameters.
Substituted(w) ==
  [w EXCEPT !.selector = Parameterized(params, @, FALSE, FALSE),
            !.text = Parameterized(params, @, w.type = "wait", w.type = "go_to_url")]

\* A replay of this action of the workflow does what the agent did in that action of the run.
Repeats(a, w) ==
  /\ w.type = WorkflowType(a.type)
  /\ w.type \in NeedsSelector \cup {"scroll"} /\ SelectorOf[a.el] # <<>> =>
       Resolved(params, w.selector) = Rendered(SelectorOf[a.el][1])
  /\ w.type = "wait" =>
       \/ Resolved(params, w.text) = Seconds(Typed(params, a.text))
       \/ Typed(params, a.text) # a.text /\ Resolved(params, w.text) = <<"3">>
  /\ w.type \in NeedsText \cup {"input_text"} =>
       \/ Resolved(params, w.text) = Typed(params, a.text)
       \/ w.type = "go_to_url" /\ TakenForUrl(params, a.text, TRUE)
       \/ \E k \in DOMAIN params : /\ Resolved(params, w.text) = params[k].value
                                   /\ Around(Typed(params, a.text), Resolved(params, w.text))

\* What becomes of an action of the agent repeats it.
LEMMA ActionRepeats ==
  ASSUME PlainInputs, params \in ParameterSets, ToldApart(params), NEW r \in Conversions
  PROVE  Repeats(r[1], Substituted(Restored(r[2])))
  <1>0. PICK w : w = r[2]
    OBVIOUS
  <1>1. PICK a \in Performed : a = r[1] /\ w = r[2] /\ Kept(a) /\ _convert_action(a) = <<w>>
    BY <1>0 DEF Conversions
  <1>2. PICK v : v = Substituted(Restored(w))
    OBVIOUS
  <1>3. PICK type : type = w.type /\ type = WorkflowType(a.type)
    BY <1>1, ConversionIs
  <1>4. PICK isNumber \in BOOLEAN, isUrl \in BOOLEAN :
          (isNumber <=> type = "wait") /\ (isUrl <=> type = "go_to_url")
    OBVIOUS
  <1>5. /\ v.type = type
        /\ v.selector = Parameterized(params, RestoreAliases(params, w.selector), FALSE, FALSE)
        /\ v.text = Parameterized(params, RestoreAliases(params, w.text), isNumber, isUrl)
    <2>1. "selector" \in DOMAIN w /\ "text" \in DOMAIN w
      BY <1>1, ConversionIs
    <2>2. PICK x, y : x = RestoreAliases(params, w.selector) /\ y = RestoreAliases(params, w.text)
      OBVIOUS
    <2>3. PICK u : u = Restored(w)
      OBVIOUS
    <2>4. u = [w EXCEPT !.selector = x, !.text = y]
      BY <2>2, <2>3, Zenon DEF Restored
    <2>5. /\ u.type = type /\ u.selector = x /\ u.text = y
          /\ "selector" \in DOMAIN u /\ "text" \in DOMAIN u
      <3>1. u.type = w.type
        BY <2>4
      <3>2. u.selector = x
        BY <2>1, <2>4
      <3>3. u.text = y
        BY <2>1, <2>4
      <3>4. "selector" \in DOMAIN u /\ "text" \in DOMAIN u
        BY <2>1, <2>4
      <3> QED
        BY <1>3, <3>1, <3>2, <3>3, <3>4, Zenon
    <2>6. PICK p, q : /\ p = Parameterized(params, x, FALSE, FALSE)
                      /\ q = Parameterized(params, y, u.type = "wait", u.type = "go_to_url")
      OBVIOUS
    <2>7. v = [u EXCEPT !.selector = p, !.text = q]
      BY <1>2, <2>3, <2>5, <2>6, Zenon DEF Substituted
    <2>8. v.type = type /\ v.selector = p /\ v.text = q
      BY <2>5, <2>7
    <2>9. (u.type = "wait") = isNumber /\ (u.type = "go_to_url") = isUrl
      BY <1>4, <2>5
    <2> QED
      BY <2>2, <2>6, <2>8, <2>9, Zenon
  <1>6. v.type \in NeedsSelector \cup {"scroll"} /\ SelectorOf[a.el] # <<>> =>
          Resolved(params, v.selector) = Rendered(SelectorOf[a.el][1])
    <2> SUFFICES ASSUME type \in NeedsSelector \cup {"scroll"}, SelectorOf[a.el] # <<>>
                 PROVE  Resolved(params, v.selector) = Rendered(SelectorOf[a.el][1])
      BY <1>5
    <2>1. a.el \in DOMAIN ElementOf /\ w.selector = Rendered(SelectorOf[a.el][1])
      BY <1>1, <1>3, ConversionIs
    <2>2. PICK x \in Seq(Frag) : x = w.selector /\ Bare(x)
      BY <2>1, SelectorText
    <2>3. FALSE \in BOOLEAN
      OBVIOUS
    <2>4. Resolved(params, Parameterized(params, RestoreAliases(params, x), FALSE, FALSE)) = x
      BY <2>2, <2>3, BareComesBack
    <2> QED
      BY <1>5, <2>1, <2>2, <2>4, Zenon
  <1>7. PICK us \in Seq(Units(params)) : a.text = Text(params, AsTold(params), us)
    BY WrittenIs
  <1>8. PICK t \in Seq(Frag) : t = a.text
    <2>1. Text(params, AsTold(params), us) \in Seq(Frag)
      BY RenderingsAre, TextType
    <2> QED
      BY <1>7, <2>1, Zenon
  <1>9. v.type = "wait" =>
          \/ Resolved(params, v.text) = Seconds(Typed(params, a.text))
          \/ Typed(params, a.text) # a.text /\ Resolved(params, v.text) = <<"3">>
    <2> SUFFICES ASSUME type = "wait"
                 PROVE  \/ Resolved(params, v.text) = Seconds(Typed(params, t))
                        \/ Typed(params, t) # t /\ Resolved(params, v.text) = <<"3">>
      BY <1>5, <1>8, Zenon
    <2>1. w.text = Seconds(t)
      BY <1>1, <1>3, <1>8, ConversionIs
    <2>2. PICK s \in Seq(Frag) : s = Seconds(t) /\ Bare(s)
      BY SecondsAre
    <2>3. isNumber = TRUE /\ isUrl = FALSE
      BY <1>4
    <2>4. Resolved(params, Parameterized(params, RestoreAliases(params, s), isNumber, FALSE)) = s
      BY <2>2, BareComesBack
    <2>5. Resolved(params, v.text) = Seconds(t)
      BY <1>5, <2>1, <2>2, <2>3, <2>4, Zenon
    <2>6. Typed(params, t) = t \/ Seconds(t) = <<"3">>
      BY NoSecretSeconds, Zenon
    <2> QED
      BY <2>5, <2>6, Zenon
  <1>10. ASSUME type \in NeedsText \cup {"input_text"}
         PROVE  \/ Resolved(params, v.text) = Typed(params, t)
                \/ type = "go_to_url" /\ TakenForUrl(params, t, TRUE)
                \/ \E k \in DOMAIN params : /\ Resolved(params, v.text) = params[k].value
                                            /\ Around(Typed(params, t), Resolved(params, v.text))
    <2>1. w.text = t
      BY <1>1, <1>3, <1>8, <1>10, ConversionIs
    <2>2. isNumber = FALSE
      BY <1>4, <1>10 DEF NeedsText
    <2>3. PICK z : z = Parameterized(params, RestoreAliases(params, t), FALSE, isUrl)
      OBVIOUS
    <2>4. v.text = z
      BY <1>5, <2>1, <2>2, <2>3, Zenon
    <2>5. \/ Resolved(params, z) = Typed(params, t)
          \/ TakenForUrl(params, t, isUrl)
          \/ \E k \in DOMAIN params : Resolved(params, z) = params[k].value /\ Around(Typed(params, t), params[k].value)
      <3>1. Becomes(params, us, isUrl, t, z)
        BY <1>7, <1>8, <2>3, Zenon DEF Becomes
      <3> QED
        BY <3>1, TextComesBack
    <2>6. TakenForUrl(params, t, isUrl) => type = "go_to_url" /\ TakenForUrl(params, t, TRUE)
      BY <1>4, Zenon DEF TakenForUrl
    <2> QED
      BY <2>4, <2>5, <2>6, Zenon
  <1> QED
    BY <1>1, <1>2, <1>3, <1>5, <1>6, <1>8, <1>9, <1>10, Zenon DEF Repeats

\* The actions of the workflow of this history, before parameters are looked for.
MadeOf(h) == gen_workflow(parse_agent_history(h))

\* What is known of the workflow. It is said action by action what was made of the history that
\* was chosen, as nothing that is said of the actions themselves would tell their order.
WorkflowOk ==
  /\ pc \notin {"prepare", "raised"} => Valid(params)
  /\ pc \in {"parameterize", "done"} => chosen \in DOMAIN histories
  /\ pc = "parameterize" =>
       workflow = [i \in DOMAIN MadeOf(histories[chosen]) |-> Restored(MadeOf(histories[chosen])[i])]
  /\ pc = "done" =>
       workflow = [i \in DOMAIN MadeOf(histories[chosen]) |-> Substituted(Restored(MadeOf(histories[chosen])[i]))]

\* It holds when the call begins, and no step breaks it.
LEMMA InitWorkflow == Init => WorkflowOk
  BY DEF Init, WorkflowOk

\* A step into a state in which there is no workflow.
LEMMA NoWorkflow ==
  ASSUME pc' \notin {"parameterize", "done"}, pc' \notin {"prepare", "raised"} => Valid(params')
  PROVE  WorkflowOk'
  BY DEF WorkflowOk

\* No step breaks it.
LEMMA StepWorkflow == WorkflowOk /\ [Next]_vars => WorkflowOk'
  <1> SUFFICES ASSUME WorkflowOk, [Next]_vars PROVE WorkflowOk'
    OBVIOUS
  <1>1. CASE Prepare
    BY <1>1, NoWorkflow DEF Prepare
  <1>2. CASE AgentSteps
    BY <1>2, NoWorkflow DEF AgentSteps, WorkflowOk
  <1>3. CASE RoundRaises
    BY <1>3, NoWorkflow DEF RoundRaises
  <1>4. CASE RoundEnds
    BY <1>4, NoWorkflow DEF RoundEnds, WorkflowOk
  <1>5. CASE Generate
    <2>1. pc = "generate" /\ pc' = "parameterize" /\ UNCHANGED <<params, histories>>
      BY <1>5 DEF Generate
    <2>2. PICK first \in DOMAIN histories :
            /\ chosen' = first
            /\ LET actions == gen_workflow(parse_agent_history(histories[first])) IN
               workflow' = [i \in DOMAIN actions |-> [actions[i] EXCEPT
                 !.selector = RestoreAliases(params, @), !.text = RestoreAliases(params, @)]]
      BY <1>5, Zenon DEF Generate
    <2>3. PICK made : made = MadeOf(histories[first])
      OBVIOUS
    <2>4. workflow' = [i \in DOMAIN made |-> Restored(made[i])]
      BY <2>2, <2>3, Zenon DEF MadeOf, Restored
    <2>5. workflow' = [i \in DOMAIN made |-> Restored(made[i])']
      BY <2>1, <2>4, Zenon DEF Restored
    <2>6. MadeOf(histories[chosen])' = made
      BY <2>1, <2>2, <2>3, Zenon DEF MadeOf
    <2>7. Valid(params') /\ chosen' \in DOMAIN histories'
      BY <2>1, <2>2 DEF WorkflowOk
    <2> QED
      BY <2>1, <2>5, <2>6, <2>7, Zenon DEF WorkflowOk
  <1>6. CASE Parameterize
    <2>1. pc = "parameterize" /\ pc' = "done" /\ UNCHANGED <<params, histories, chosen>>
      BY <1>6 DEF Parameterize
    <2>2. workflow' = [i \in DOMAIN workflow |-> Substituted(workflow[i])]
      BY <1>6, Zenon DEF Parameterize, Substituted
    <2>3. PICK made : made = MadeOf(histories[chosen])
      OBVIOUS
    <2>4. workflow = [i \in DOMAIN made |-> Restored(made[i])] /\ chosen \in DOMAIN histories /\ Valid(params)
      BY <2>1, <2>3 DEF WorkflowOk
    <2>5. workflow' = [i \in DOMAIN made |-> Substituted(Restored(made[i]))]
      BY <2>2, <2>4, Zenon
    <2>6. workflow' = [i \in DOMAIN made |-> Substituted(Restored(made[i]))']
      BY <2>1, <2>5, Zenon DEF Substituted, Restored
    <2>7. MadeOf(histories[chosen])' = made
      BY <2>1, <2>3, Zenon DEF MadeOf
    <2> QED
      BY <2>1, <2>4, <2>6, <2>7, Zenon DEF WorkflowOk
  <1>7. CASE UNCHANGED vars
    <2>1. UNCHANGED <<pc, params, histories, chosen, workflow>>
      BY <1>7 DEF vars
    <2> QED
      BY <2>1, Zenon DEF WorkflowOk, MadeOf, Restored, Substituted
  <1> QED
    BY <1>1, <1>2, <1>3, <1>4, <1>5, <1>6, <1>7 DEF Next, Finished

\* In a workflow that is done there is an action for each that is kept, and it repeats it.
LEMMA WorkflowRepeats ==
  ASSUME PlainInputs, \A ps \in ParameterSets : Valid(ps) => Separable(ps), IInv, WorkflowOk
  PROVE  KeptActionsAreRepeated
  <1> SUFFICES ASSUME pc = "done" PROVE KeptActionsAreRepeated
    BY Zenon DEF KeptActionsAreRepeated
  <1>1. params \in ParameterSets /\ histories \in Seq(History)
    BY DEF IInv, TypeOk
  <1>2. Valid(params) /\ chosen \in DOMAIN histories
    BY DEF WorkflowOk
  <1>3. ToldApart(params)
    BY <1>1, <1>2, GenerationAssumption, Zenon DEF ToldApart
  <1>4. PICK h \in History : h = histories[chosen]
    BY <1>1, <1>2
  <1>5. PICK made : made = MadeOf(h)
    OBVIOUS
  <1>6. workflow = [i \in DOMAIN made |-> Substituted(Restored(made[i]))]
    BY <1>4, <1>5, Zenon DEF WorkflowOk
  <1>7. PICK run \in Seq(Performed) : run = RunOf(h) /\ Aligned(run, made, Conversions)
    BY <1>5, GeneratedAligned, Zenon DEF MadeOf
  <1>8. PICK n \in Nat : n = Len(run) /\ DOMAIN run = 1..n /\ n = Len(made) /\ DOMAIN made = 1..n
    <2>1. made \in Seq(Convertible)
      BY <1>5, GeneratedAligned, Zenon DEF MadeOf
    <2>2. DOMAIN run = 1..Len(run) /\ Len(run) \in Nat /\ DOMAIN made = 1..Len(made)
      BY <2>1
    <2>3. Len(run) = Len(made)
      BY <1>7, Zenon DEF Aligned
    <2> QED
      BY <2>2, <2>3, Zenon
  <1>9. Len(workflow) = n
    BY <1>6, <1>8
  <1>10. ASSUME NEW i \in 1..n PROVE Repeats(run[i], workflow[i])
    <2>1. PICK r \in Conversions : r = <<run[i], made[i]>>
      BY <1>7, <1>8, Zenon DEF Aligned
    <2>2. r[1] = run[i] /\ r[2] = made[i]
      BY <2>1
    <2>3. Repeats(r[1], Substituted(Restored(r[2])))
      BY <1>1, <1>3, ActionRepeats
    <2>4. workflow[i] = Substituted(Restored(made[i]))
      BY <1>6, <1>8, Zenon
    <2> QED
      BY <2>2, <2>3, <2>4, Zenon
  <1> QED
    BY <1>4, <1>7, <1>8, <1>9, <1>10, ZenonT(60) DEF KeptActionsAreRepeated, RunOf, AllOf, Kept, Repeats, TakenForUrl, UsesNone

\* A replay with the same parameters repeats the actions of the chosen round that are kept (Kept
\* says which are dropped), up to the three exceptions KeptActionsAreRepeated names, for any turns,
\* elements, parameters and number of rounds. It does when what the agent writes itself and what the
\* page is made of looks like neither a tag nor a placeholder, and the values of the parameters can
\* be told from their names (generate_workflow, _restore_secret_aliases,
\* _parameterize_browser_workflow, _resolve_params).
THEOREM ReplaysRepeat ==
  ASSUME PlainInputs, \A ps \in ParameterSets : Valid(ps) => Separable(ps)
  PROVE  Spec => []KeptActionsAreRepeated
  <1>1. Spec => []WorkflowOk
    BY InitWorkflow, StepWorkflow, PTL DEF Spec
  <1>2. IInv /\ WorkflowOk => KeptActionsAreRepeated
    BY WorkflowRepeats
  <1> QED
    BY <1>1, <1>2, SpecIInv, PTL
=============================================================================
