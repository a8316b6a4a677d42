--------------------------- MODULE SequenceLemmas ---------------------------
(***************************************************************************)
(* Facts about flattened sequences. FlattenSeq is a recursive function: the *)
(* first lemmas say that it is the function it is defined to be, the others *)
(* what it makes of a sequence that grows. Inductions are over sets of      *)
(* natural numbers.                                                         *)
(***************************************************************************)
EXTENDS Naturals, Sequences, SequencesExt, TLAPS

LOCAL Founded == INSTANCE WellFoundedInduction

\* A set of natural numbers has a least one.
LEMMA LeastNatural ==
  ASSUME NEW S \in SUBSET Nat, S # {}
  PROVE  \E m \in S : \A k \in S : m <= k
  <1>1. Founded!IsWellFoundedOn(Founded!OpToRel(<, Nat), Nat)
    BY Founded!NatLessThanWellFounded
  <1>2. PICK R : R = Founded!OpToRel(<, Nat)
    OBVIOUS
  <1>3. Founded!IsWellFoundedOn(R, Nat)
    BY <1>1, <1>2, Zenon
  <1>4. PICK m \in S : \A k \in S : ~ (<<k, m>> \in R)
    BY <1>3, Founded!WFMin
  <1>5. ASSUME NEW k \in S, k < m
        PROVE  FALSE
    <2>1. <<k, m>> \in R
      BY <1>2, <1>5 DEF Founded!OpToRel
    <2> QED
      BY <2>1, <1>4
  <1> QED
    BY <1>4, <1>5

\* A set that holds zero and with every number the next one holds them all.
LEMMA SetInduction ==
  ASSUME NEW S, 0 \in S, \A n \in Nat : n \in S => n + 1 \in S
  PROVE  Nat \subseteq S
  <1>1. SUFFICES ASSUME Nat \ S # {} PROVE FALSE
    OBVIOUS
  <1>2. PICK m \in Nat \ S : \A k \in Nat \ S : m <= k
    BY <1>1, LeastNatural
  <1>3. m - 1 \in Nat
    BY <1>2
  <1>4. m - 1 \in S
    BY <1>2, <1>3
  <1>5. (m - 1) + 1 \in S
    BY <1>3, <1>4
  <1> QED
    BY <1>2, <1>5

\* What the function inside FlattenSeq is defined to be, on the first n sequences.
Flattens(f, n, ss) ==
  f = [i \in 1..n |-> IF i = 1 THEN ss[i] ELSE f[i - 1] \o ss[i]]

\* The next value of the recursion.
LEMMA FlattensStep ==
  ASSUME NEW f, NEW n \in Nat, NEW ss, Flattens(f, n, ss), NEW i \in Nat, i + 1 <= n
  PROVE  f[i + 1] = IF i = 0 THEN ss[1] ELSE f[i] \o ss[i + 1]
  <1>1. i + 1 \in 1..n /\ (i + 1) - 1 = i /\ (i + 1 = 1 <=> i = 0)
    OBVIOUS
  <1> QED
    BY <1>1 DEF Flattens

\* Its values are sequences.
LEMMA FlattensType ==
  ASSUME NEW V, NEW ss \in Seq(Seq(V)), NEW n \in Nat, n <= Len(ss),
         NEW f, Flattens(f, n, ss)
  PROVE  \A i \in 1..n : f[i] \in Seq(V)
  <1> DEFINE S == {i \in Nat : 1 <= i /\ i <= n => f[i] \in Seq(V)}
  <1>1. 0 \in S
    OBVIOUS
  <1>2. ASSUME NEW i \in Nat, i \in S
        PROVE  i + 1 \in S
    <2> SUFFICES ASSUME i + 1 <= n
                 PROVE  f[i + 1] \in Seq(V)
      OBVIOUS
    <2>1. f[i + 1] = IF i = 0 THEN ss[1] ELSE f[i] \o ss[i + 1]
      BY FlattensStep
    <2>2. ss[i + 1] \in Seq(V)
      OBVIOUS
    <2>3. CASE i = 0
      BY <2>1, <2>2, <2>3
    <2>4. CASE i # 0
      <3>1. f[i] \in Seq(V)
        BY <1>2, <2>4
      <3>2. f[i] \o ss[i + 1] \in Seq(V)
        BY <3>1, <2>2
      <3> QED
        BY <2>1, <2>4, <3>2
    <2> QED
      BY <2>3, <2>4
  <1>3. Nat \subseteq S
    <2> HIDE DEF S
    <2> QED
      BY <1>1, <1>2, SetInduction
  <1> QED
    BY <1>3

\* Two functions that satisfy the recursion agree.
LEMMA FlattensUnique ==
  ASSUME NEW ss, NEW n \in Nat, NEW m \in Nat, m <= n,
         NEW f, NEW g, Flattens(f, m, ss), Flattens(g, n, ss)
  PROVE  \A i \in 1..m : f[i] = g[i]
  <1> DEFINE S == {i \in Nat : 1 <= i /\ i <= m => f[i] = g[i]}
  <1>1. 0 \in S
    OBVIOUS
  <1>2. ASSUME NEW i \in Nat, i \in S
        PROVE  i + 1 \in S
    <2> SUFFICES ASSUME i + 1 <= m
                 PROVE  f[i + 1] = g[i + 1]
      OBVIOUS
    <2>1. f[i + 1] = IF i = 0 THEN ss[1] ELSE f[i] \o ss[i + 1]
      BY FlattensStep
    <2>2. g[i + 1] = IF i = 0 THEN ss[1] ELSE g[i] \o ss[i + 1]
      BY FlattensStep
    <2> QED
      BY <2>1, <2>2, <1>2
  <1>3. Nat \subseteq S
    <2> HIDE DEF S
    <2> QED
      BY <1>1, <1>2, SetInduction
  <1> QED
    BY <1>3

\* There is a function that satisfies it.
LEMMA FlattensExists ==
  ASSUME NEW ss, NEW n \in Nat
  PROVE  \E f : Flattens(f, n, ss)
  <1> DEFINE S == {i \in Nat : \E f : Flattens(f, i, ss)}
  <1>1. 0 \in S
    <2> DEFINE f == [i \in 1..0 |-> ss]
    <2>1. f = [i \in 1..0 |-> IF i = 1 THEN ss[i] ELSE f[i - 1] \o ss[i]]
      OBVIOUS
    <2> QED
      BY <2>1 DEF Flattens
  <1>2. ASSUME NEW i \in Nat, i \in S
        PROVE  i + 1 \in S
    <2>1. PICK f : Flattens(f, i, ss)
      BY <1>2
    <2> DEFINE last == IF i = 0 THEN ss[1] ELSE f[i] \o ss[i + 1]
               g == [k \in 1..i + 1 |-> IF k = i + 1 THEN last ELSE f[k]]
               h == [k \in 1..i + 1 |-> IF k = 1 THEN ss[k] ELSE g[k - 1] \o ss[k]]
    <2>2. ASSUME NEW k \in 1..i + 1
          PROVE  g[k] = h[k]
      <3>1. CASE k = i + 1
        BY <3>1
      <3>2. CASE k # i + 1
        <4>1. k \in 1..i
          BY <3>2
        <4>2. f[k] = IF k = 1 THEN ss[k] ELSE f[k - 1] \o ss[k]
          BY <2>1, <4>1 DEF Flattens
        <4>3. k # 1 => k - 1 \in 1..i + 1 /\ k - 1 # i + 1
          BY <4>1
        <4> QED
          BY <4>1, <4>2, <4>3
      <3> QED
        BY <3>1, <3>2
    <2>3. g = h
      BY <2>2
    <2>4. Flattens(g, i + 1, ss)
      BY <2>3 DEF Flattens
    <2> QED
      BY <2>4
  <1>3. Nat \subseteq S
    <2> HIDE DEF S
    <2> QED
      BY <1>1, <1>2, SetInduction
  <1> QED
    BY <1>3

\* FlattenSeq is the last value of the recursion.
LEMMA FlattenIs ==
  ASSUME NEW ss, Len(ss) \in Nat, NEW f, Flattens(f, Len(ss), ss)
  PROVE  FlattenSeq(ss) = IF Len(ss) = 0 THEN ss ELSE f[Len(ss)]
  <1> DEFINE flatten == CHOOSE g : Flattens(g, Len(ss), ss)
  <1>1. FlattenSeq(ss) = IF Len(ss) = 0 THEN ss ELSE flatten[Len(ss)]
    BY Zenon DEF FlattenSeq, Flattens
  <1>2. Flattens(flatten, Len(ss), ss)
    BY Zenon
  <1>3. \A i \in 1..Len(ss) : flatten[i] = f[i]
    <2> HIDE DEF flatten
    <2>1. Len(ss) <= Len(ss)
      OBVIOUS
    <2> QED
      BY <1>2, <2>1, FlattensUnique
  <1> QED
    BY <1>1, <1>3
-----------------------------------------------------------------------------
\* Nothing to flatten.
LEMMA FlattenEmpty == FlattenSeq(<<>>) = <<>>
  BY DEF FlattenSeq

\* A flattened sequence is a sequence.
LEMMA FlattenType ==
  ASSUME NEW V, NEW ss \in Seq(Seq(V))
  PROVE  FlattenSeq(ss) \in Seq(V)
  <1>0. Len(ss) \in Nat
    OBVIOUS
  <1>1. PICK f : Flattens(f, Len(ss), ss)
    BY <1>0, FlattensExists, Zenon
  <1>2. FlattenSeq(ss) = IF Len(ss) = 0 THEN ss ELSE f[Len(ss)]
    BY <1>0, <1>1, FlattenIs, Zenon
  <1>3. CASE Len(ss) = 0
    <2>1. ss = <<>>
      BY <1>3
    <2> QED
      BY <1>2, <1>3, <2>1
  <1>4. CASE Len(ss) # 0
    <2>1. \A i \in 1..Len(ss) : f[i] \in Seq(V)
      BY <1>0, <1>1, FlattensType
    <2> QED
      BY <1>0, <1>2, <1>4, <2>1
  <1> QED
    BY <1>3, <1>4

\* One more sequence is concatenated.
LEMMA FlattenAppend ==
  ASSUME NEW V, NEW ss \in Seq(Seq(V)), NEW s \in Seq(V)
  PROVE  FlattenSeq(Append(ss, s)) = FlattenSeq(ss) \o s
  <1>0. PICK n \in Nat, tt \in Seq(Seq(V)) : n = Len(ss) /\ tt = Append(ss, s)
    <2>1. Len(ss) \in Nat /\ Append(ss, s) \in Seq(Seq(V))
      OBVIOUS
    <2> QED
      BY <2>1, Zenon
  <1>1. /\ Len(tt) = n + 1 /\ Len(tt) \in Nat
        /\ tt[n + 1] = s /\ \A i \in 1..n : tt[i] = ss[i]
    BY <1>0
  <1>2. PICK f : Flattens(f, n, ss)
    BY FlattensExists, Zenon
  <1>3. PICK g : Flattens(g, Len(tt), tt)
    BY <1>1, FlattensExists, Zenon
  <1>4. FlattenSeq(tt) = IF Len(tt) = 0 THEN tt ELSE g[Len(tt)]
    BY <1>1, <1>3, FlattenIs, Zenon
  <1>5. FlattenSeq(ss) = IF n = 0 THEN ss ELSE f[n]
    BY <1>0, <1>2, FlattenIs, Zenon
  <1>6. g[n + 1] = IF n = 0 THEN tt[1] ELSE g[n] \o tt[n + 1]
    <2>1. n + 1 <= n + 1 /\ n + 1 \in Nat
      OBVIOUS
    <2>2. Flattens(g, n + 1, tt)
      BY <1>1, <1>3
    <2> QED
      BY <2>1, <2>2, FlattensStep
  <1>7. CASE n = 0
    <2>1. Len(ss) = 0
      BY <1>0, <1>7
    <2>2. ss = <<>>
      BY <2>1
    <2>3. FlattenSeq(tt) = s
      BY <1>1, <1>4, <1>6, <1>7
    <2> QED
      BY <1>0, <1>5, <1>7, <2>2, <2>3
  <1>8. CASE n # 0
    <2>1. Flattens(f, n, tt)
      <3>1. \A i \in 1..n : i # 1 => i - 1 \in 1..n
        OBVIOUS
      <3>2. [i \in 1..n |-> IF i = 1 THEN ss[i] ELSE f[i - 1] \o ss[i]]
              = [i \in 1..n |-> IF i = 1 THEN tt[i] ELSE f[i - 1] \o tt[i]]
        BY <1>1
      <3> QED
        BY <1>2, <3>2 DEF Flattens
    <2>2. n <= n + 1 /\ n + 1 \in Nat /\ n \in 1..n
      BY <1>8
    <2>3. Flattens(g, n + 1, tt)
      BY <1>1, <1>3
    <2>4. \A i \in 1..n : f[i] = g[i]
      BY <2>1, <2>2, <2>3, FlattensUnique
    <2>5. FlattenSeq(tt) = g[n] \o s
      BY <1>1, <1>4, <1>6, <1>8
    <2>6. g[n] = f[n] /\ FlattenSeq(ss) = f[n]
      BY <1>5, <1>8, <2>2, <2>4
    <2> QED
      BY <1>0, <2>5, <2>6
  <1> QED
    BY <1>7, <1>8

\* Every sequence but the empty one is another one with something added.
LEMMA FrontAndLast ==
  ASSUME NEW V, NEW s \in Seq(V), s # <<>>
  PROVE  \E t \in Seq(V), v \in V : s = Append(t, v) /\ Len(t) + 1 = Len(s)
  <1>0. PICK n \in Nat : n + 1 = Len(s)
    <2>1. Len(s) \in Nat /\ Len(s) # 0
      OBVIOUS
    <2>2. Len(s) - 1 \in Nat /\ (Len(s) - 1) + 1 = Len(s)
      BY <2>1
    <2> QED
      BY <2>2
  <1>1. PICK t : t = [i \in 1..n |-> s[i]]
    OBVIOUS
  <1>2. t \in Seq(V) /\ Len(t) = n /\ s[n + 1] \in V
    <2>1. \A i \in 1..n : s[i] \in V
      BY <1>0
    <2> QED
      BY <1>0, <1>1, <2>1
  <1>3. s = Append(t, s[n + 1])
    BY <1>0, <1>1, <1>2
  <1> QED
    BY <1>0, <1>2, <1>3

\* The first sequence comes first.
LEMMA FlattenCons ==
  ASSUME NEW V, NEW s \in Seq(V), NEW ss \in Seq(Seq(V))
  PROVE  FlattenSeq(<<s>> \o ss) = s \o FlattenSeq(ss)
  <1> DEFINE Holds(tt) == FlattenSeq(<<s>> \o tt) = s \o FlattenSeq(tt)
             S == {n \in Nat : \A tt \in Seq(Seq(V)) : Len(tt) = n => Holds(tt)}
  <1>1. ASSUME NEW tt \in Seq(Seq(V)), Len(tt) = 0
        PROVE  Holds(tt)
    <2>1. tt = <<>> /\ <<s>> \o tt = Append(<<>>, s)
      BY <1>1
    <2>2. FlattenSeq(Append(<<>>, s)) = <<>> \o s
      <3>1. <<>> \in Seq(Seq(V))
        OBVIOUS
      <3>2. FlattenSeq(Append(<<>>, s)) = FlattenSeq(<<>>) \o s
        BY <3>1, FlattenAppend
      <3> QED
        BY <3>2, FlattenEmpty
    <2> QED
      BY <2>1, <2>2, FlattenEmpty
  <1>2. ASSUME NEW n \in Nat, n \in S, NEW tt \in Seq(Seq(V)), Len(tt) = n + 1
        PROVE  Holds(tt)
    <2>1. PICK uu \in Seq(Seq(V)), v \in Seq(V) : tt = Append(uu, v) /\ Len(uu) + 1 = Len(tt)
      <3>1. tt # <<>>
        BY <1>2
      <3> QED
        BY <3>1, FrontAndLast
    <2>2. Len(uu) = n /\ <<s>> \o uu \in Seq(Seq(V))
      BY <1>2, <2>1
    <2>3. FlattenSeq(<<s>> \o uu) = s \o FlattenSeq(uu)
      BY <1>2, <2>2
    <2>4. <<s>> \o tt = Append(<<s>> \o uu, v)
      BY <2>1, <2>2
    <2>5. FlattenSeq(Append(<<s>> \o uu, v)) = FlattenSeq(<<s>> \o uu) \o v
      BY <2>2, FlattenAppend
    <2>6. FlattenSeq(tt) = FlattenSeq(uu) \o v
      BY <2>1, FlattenAppend
    <2>7. FlattenSeq(uu) \in Seq(V)
      BY FlattenType
    <2>8. (s \o FlattenSeq(uu)) \o v = s \o (FlattenSeq(uu) \o v)
      BY <2>7
    <2> QED
      BY <2>3, <2>4, <2>5, <2>6, <2>8
  <1>3. 0 \in S /\ \A n \in Nat : n \in S => n + 1 \in S
    <2> HIDE DEF Holds
    <2> QED
      BY <1>1, <1>2
  <1>4. Nat \subseteq S
    <2> HIDE DEF S
    <2> QED
      BY <1>3, SetInduction
  <1>5. Len(ss) \in Nat
    OBVIOUS
  <1> QED
    BY <1>4, <1>5

\* A concatenation holds what its parts hold.
LEMMA ConcatRange ==
  ASSUME NEW V, NEW a \in Seq(V), NEW b \in Seq(V)
  PROVE  ToSet(a \o b) = ToSet(a) \cup ToSet(b)
  <1>0. PICK c \in Seq(V) : c = a \o b
    <2>1. a \o b \in Seq(V)
      OBVIOUS
    <2> QED
      BY <2>1, Zenon
  <1>1. /\ Len(c) = Len(a) + Len(b)
        /\ \A i \in 1..Len(a) : i \in DOMAIN c /\ c[i] = a[i]
        /\ \A i \in 1..Len(b) : Len(a) + i \in DOMAIN c /\ c[Len(a) + i] = b[i]
    BY <1>0
  <1>2. ASSUME NEW i \in DOMAIN c
        PROVE  c[i] \in ToSet(a) \cup ToSet(b)
    <2>1. CASE i <= Len(a)
      BY <1>1, <2>1 DEF ToSet
    <2>2. CASE i > Len(a)
      <3>1. i - Len(a) \in 1..Len(b) /\ i = Len(a) + (i - Len(a))
        BY <1>1, <2>2
      <3>2. c[i] = b[i - Len(a)]
        BY <1>1, <3>1
      <3> QED
        BY <3>1, <3>2 DEF ToSet
    <2> QED
      BY <2>1, <2>2
  <1>3. ToSet(a) \subseteq ToSet(c)
    BY <1>1 DEF ToSet
  <1>4. ToSet(b) \subseteq ToSet(c)
    <2>1. \A i \in DOMAIN b : \E k \in DOMAIN c : c[k] = b[i]
      BY <1>1
    <2> QED
      BY <2>1 DEF ToSet
  <1>5. ToSet(c) \subseteq ToSet(a) \cup ToSet(b)
    BY <1>2 DEF ToSet
  <1> QED
    BY <1>0, <1>3, <1>4, <1>5

\* A flattened sequence holds what the sequences hold.
LEMMA FlattenRange ==
  ASSUME NEW V, NEW ss \in Seq(Seq(V))
  PROVE  ToSet(FlattenSeq(ss)) = UNION {ToSet(ss[i]) : i \in DOMAIN ss}
  <1> DEFINE U(tt) == UNION {ToSet(tt[i]) : i \in DOMAIN tt}
             Holds(tt) == ToSet(FlattenSeq(tt)) = U(tt)
             S == {n \in Nat : \A tt \in Seq(Seq(V)) : Len(tt) = n => Holds(tt)}
  <1>1. ASSUME NEW tt \in Seq(Seq(V)), Len(tt) = 0
        PROVE  Holds(tt)
    <2>1. tt = <<>>
      BY <1>1
    <2> QED
      BY <2>1, FlattenEmpty DEF ToSet
  <1>2. ASSUME NEW n \in Nat, n \in S, NEW tt \in Seq(Seq(V)), Len(tt) = n + 1
        PROVE  Holds(tt)
    <2>1. PICK uu \in Seq(Seq(V)), v \in Seq(V) : tt = Append(uu, v) /\ Len(uu) + 1 = Len(tt)
      <3>1. tt # <<>>
        BY <1>2
      <3> QED
        BY <3>1, FrontAndLast
    <2>2. ToSet(FlattenSeq(uu)) = U(uu)
      BY <1>2, <2>1
    <2>3. FlattenSeq(tt) = FlattenSeq(uu) \o v
      BY <2>1, FlattenAppend
    <2>4. FlattenSeq(uu) \in Seq(V)
      BY FlattenType
    <2>5. ToSet(FlattenSeq(tt)) = ToSet(FlattenSeq(uu)) \cup ToSet(v)
      BY <2>3, <2>4, ConcatRange
    <2>6. /\ DOMAIN tt = DOMAIN uu \cup {Len(uu) + 1}
          /\ \A i \in DOMAIN uu : tt[i] = uu[i]
          /\ tt[Len(uu) + 1] = v
      BY <2>1
    <2>7. U(tt) = U(uu) \cup ToSet(v)
      BY <2>6, Zenon
    <2> QED
      BY <2>2, <2>5, <2>7
  <1>3. 0 \in S /\ \A n \in Nat : n \in S => n + 1 \in S
    <2> HIDE DEF Holds
    <2>1. 0 \in S
      BY <1>1
    <2>2. ASSUME NEW n \in Nat, n \in S
          PROVE  n + 1 \in S
      BY <1>2, <2>2
    <2> QED
      BY <2>1, <2>2
  <1>4. Nat \subseteq S
    <2> HIDE DEF S
    <2> QED
      BY <1>3, SetInduction
  <1>5. Len(ss) \in Nat
    OBVIOUS
  <1> QED
    BY <1>4, <1>5
-----------------------------------------------------------------------------
\* Every sequence but the empty one has a first element.
LEMMA HeadAndTail ==
  ASSUME NEW V, NEW s \in Seq(V), s # <<>>
  PROVE  \E v \in V, t \in Seq(V) : s = <<v>> \o t /\ Len(t) + 1 = Len(s)
  <1>0. PICK n \in Nat : n + 1 = Len(s)
    <2>1. Len(s) \in Nat /\ Len(s) # 0
      OBVIOUS
    <2>2. Len(s) - 1 \in Nat /\ (Len(s) - 1) + 1 = Len(s)
      BY <2>1
    <2> QED
      BY <2>2
  <1>1. PICK t : t = [i \in 1..n |-> s[i + 1]]
    OBVIOUS
  <1>2. t \in Seq(V) /\ Len(t) = n /\ s[1] \in V
    <2>1. \A i \in 1..n : s[i + 1] \in V
      BY <1>0
    <2> QED
      BY <1>0, <1>1, <2>1
  <1>3. s = <<s[1]>> \o t
    BY <1>0, <1>1, <1>2
  <1> QED
    BY <1>0, <1>2, <1>3

\* A set that holds the empty sequence, and with each sequence those that have one more
\* element in front, holds them all.
LEMMA ConsInduction ==
  ASSUME NEW V, NEW S, <<>> \in S,
         \A s \in Seq(V) : \A v \in V : s \in S => <<v>> \o s \in S
  PROVE  Seq(V) \subseteq S
  <1> DEFINE N == {n \in Nat : \A s \in Seq(V) : Len(s) = n => s \in S}
  <1>1. 0 \in N
    <2>1. \A s \in Seq(V) : Len(s) = 0 => s = <<>>
      OBVIOUS
    <2> QED
      BY <2>1
  <1>2. ASSUME NEW n \in Nat, n \in N
        PROVE  n + 1 \in N
    <2> SUFFICES ASSUME NEW s \in Seq(V), Len(s) = n + 1
                 PROVE  s \in S
      OBVIOUS
    <2>1. s # <<>>
      OBVIOUS
    <2>2. PICK v \in V, t \in Seq(V) : s = <<v>> \o t /\ Len(t) + 1 = Len(s)
      BY <2>1, HeadAndTail, Zenon
    <2>3. t \in S
      <3>1. Len(t) = n
        BY <2>2
      <3> QED
        BY <1>2, <3>1
    <2> QED
      BY <2>2, <2>3
  <1>3. Nat \subseteq N
    <2> HIDE DEF N
    <2> QED
      BY <1>1, <1>2, SetInduction
  <1>4. \A s \in Seq(V) : Len(s) \in Nat
    OBVIOUS
  <1> QED
    BY <1>3, <1>4

\* Each element of a sequence replaced by the sequence the function has for it.
FlatMap(f, s) == FlattenSeq([i \in DOMAIN s |-> f[s[i]]])

\* The result is a sequence, and holds what the sequences hold.
LEMMA FlatMapIs ==
  ASSUME NEW U, NEW V, NEW f \in [U -> Seq(V)], NEW s \in Seq(U)
  PROVE  /\ FlatMap(f, s) \in Seq(V)
         /\ ToSet(FlatMap(f, s)) = UNION {ToSet(f[s[i]]) : i \in DOMAIN s}
  <1>1. PICK n \in Nat : n = Len(s) /\ DOMAIN s = 1..n
    <2>1. Len(s) \in Nat /\ DOMAIN s = 1..Len(s)
      OBVIOUS
    <2> QED
      BY <2>1, Zenon
  <1>2. PICK ss : ss = [i \in 1..n |-> f[s[i]]]
    OBVIOUS
  <1>3. FlatMap(f, s) = FlattenSeq(ss)
    BY <1>1, <1>2, Zenon DEF FlatMap
  <1>4. ss \in Seq(Seq(V)) /\ DOMAIN ss = 1..n
    <2>1. \A i \in 1..n : f[s[i]] \in Seq(V)
      BY <1>1
    <2> QED
      BY <1>2, <2>1
  <1>5. ToSet(FlattenSeq(ss)) = UNION {ToSet(ss[i]) : i \in 1..n}
    BY <1>4, FlattenRange
  <1>6. UNION {ToSet(ss[i]) : i \in 1..n} = UNION {ToSet(f[s[i]]) : i \in 1..n}
    BY <1>2, Zenon
  <1> QED
    BY <1>1, <1>3, <1>4, <1>5, <1>6, FlattenType

\* Nothing becomes nothing.
LEMMA FlatMapEmpty == ASSUME NEW f PROVE FlatMap(f, <<>>) = <<>>
  <1>1. [i \in DOMAIN <<>> |-> f[(<<>>)[i]]] = <<>>
    OBVIOUS
  <1> QED
    BY <1>1, FlattenEmpty DEF FlatMap

\* The first element comes first.
LEMMA FlatMapCons ==
  ASSUME NEW U, NEW V, NEW f \in [U -> Seq(V)], NEW s \in Seq(U), NEW u \in U
  PROVE  FlatMap(f, <<u>> \o s) = f[u] \o FlatMap(f, s)
  <1>1. PICK n \in Nat : n = Len(s) /\ DOMAIN s = 1..n
    <2>1. Len(s) \in Nat /\ DOMAIN s = 1..Len(s)
      OBVIOUS
    <2> QED
      BY <2>1, Zenon
  <1>2. PICK t \in Seq(U) : t = <<u>> \o s
    <2>1. <<u>> \o s \in Seq(U)
      OBVIOUS
    <2> QED
      BY <2>1, Zenon
  <1>3. DOMAIN t = 1..n + 1 /\ t[1] = u /\ \A i \in 1..n : t[i + 1] = s[i]
    BY <1>1, <1>2
  <1>4. PICK ss : ss = [i \in 1..n |-> f[s[i]]]
    OBVIOUS
  <1>5. PICK tt : tt = [i \in 1..n + 1 |-> f[t[i]]]
    OBVIOUS
  <1>6. ss \in Seq(Seq(V)) /\ Len(ss) = n
    <2>1. \A i \in 1..n : f[s[i]] \in Seq(V)
      BY <1>1
    <2> QED
      BY <1>4, <2>1
  <1>7. tt = <<f[u]>> \o ss
    <2>1. tt[1] = f[u] /\ \A i \in 1..n : tt[i + 1] = ss[i]
      BY <1>3, <1>4, <1>5
    <2>2. \A i \in 1..n + 1 : i # 1 => i - 1 \in 1..n /\ (i - 1) + 1 = i
      OBVIOUS
    <2>3. f[u] \in Seq(V)
      OBVIOUS
    <2>4. tt \in Seq(Seq(V)) /\ Len(tt) = n + 1
      <3>1. \A i \in 1..n + 1 : tt[i] \in Seq(V)
        BY <1>2, <1>3, <1>5
      <3> QED
        BY <1>5, <3>1
    <2> QED
      BY <1>6, <2>1, <2>2, <2>3, <2>4
  <1>8. FlattenSeq(<<f[u]>> \o ss) = f[u] \o FlattenSeq(ss)
    BY <1>6, FlattenCons
  <1> QED
    BY <1>1, <1>2, <1>3, <1>4, <1>5, <1>7, <1>8, Zenon DEF FlatMap

\* What is put together may be replaced part by part.
LEMMA FlatMapConcat ==
  ASSUME NEW U, NEW V, NEW f \in [U -> Seq(V)], NEW t \in Seq(U)
  PROVE  \A s \in Seq(U) : FlatMap(f, s \o t) = FlatMap(f, s) \o FlatMap(f, t)
  <1> DEFINE S == {s \in Seq(U) : FlatMap(f, s \o t) = FlatMap(f, s) \o FlatMap(f, t)}
  <1>0. FlatMap(f, t) \in Seq(V)
    BY FlatMapIs
  <1>1. <<>> \in S
    <2>1. <<>> \o t = t /\ <<>> \o FlatMap(f, t) = FlatMap(f, t) /\ <<>> \in Seq(U)
      BY <1>0
    <2> QED
      BY <2>1, FlatMapEmpty
  <1>2. ASSUME NEW s \in Seq(U), NEW u \in U, s \in S
        PROVE  <<u>> \o s \in S
    <2>1. <<u>> \o s \in Seq(U) /\ s \o t \in Seq(U) /\ (<<u>> \o s) \o t = <<u>> \o (s \o t)
      OBVIOUS
    <2>2. FlatMap(f, <<u>> \o (s \o t)) = f[u] \o FlatMap(f, s \o t)
      BY <2>1, FlatMapCons
    <2>3. FlatMap(f, <<u>> \o s) = f[u] \o FlatMap(f, s)
      BY FlatMapCons
    <2>4. FlatMap(f, s) \in Seq(V) /\ f[u] \in Seq(V)
      BY FlatMapIs
    <2>5. \A a, b, c \in Seq(V) : a \o (b \o c) = (a \o b) \o c
      OBVIOUS
    <2>6. FlatMap(f, s \o t) = FlatMap(f, s) \o FlatMap(f, t)
      BY <1>2
    <2>7. f[u] \o (FlatMap(f, s) \o FlatMap(f, t)) = (f[u] \o FlatMap(f, s)) \o FlatMap(f, t)
      BY <1>0, <2>4, <2>5, Zenon
    <2>8. FlatMap(f, (<<u>> \o s) \o t) = FlatMap(f, <<u>> \o s) \o FlatMap(f, t)
      BY <2>1, <2>2, <2>3, <2>6, <2>7, Zenon
    <2> QED
      BY <2>1, <2>8
  <1>3. Seq(U) \subseteq S
    <2> HIDE DEF S
    <2> QED
      BY <1>1, <1>2, ConsInduction
  <1> QED
    BY <1>3

\* Two replacements, one after the other.
InTurn(U, V, W, f, g) == f \in [U -> Seq(V)] /\ g \in [V -> Seq(W)]
Composed(U, f, g) == [u \in U |-> FlatMap(g, f[u])]

\* They are one replacement.
LEMMA FlatMapTwice ==
  ASSUME NEW U, NEW V, NEW W, NEW f, NEW g, InTurn(U, V, W, f, g)
  PROVE  \A s \in Seq(U) : FlatMap(g, FlatMap(f, s)) = FlatMap(Composed(U, f, g), s)
  <1> f \in [U -> Seq(V)] /\ g \in [V -> Seq(W)]
    BY DEF InTurn
  <1>0. PICK k \in [U -> Seq(W)] : k = Composed(U, f, g) /\ k = [u \in U |-> FlatMap(g, f[u])]
    <2>1. [u \in U |-> FlatMap(g, f[u])] \in [U -> Seq(W)]
      BY FlatMapIs
    <2> QED
      BY <2>1, Zenon DEF Composed
  <1> DEFINE S == {s \in Seq(U) : FlatMap(g, FlatMap(f, s)) = FlatMap(k, s)}
  <1>1. <<>> \in S
    <2>1. <<>> \in Seq(U)
      OBVIOUS
    <2> QED
      BY <2>1, FlatMapEmpty
  <1>2. ASSUME NEW s \in Seq(U), NEW u \in U, s \in S
        PROVE  <<u>> \o s \in S
    <2>1. FlatMap(f, <<u>> \o s) = f[u] \o FlatMap(f, s)
      BY FlatMapCons
    <2>2. FlatMap(f, s) \in Seq(V) /\ f[u] \in Seq(V)
      BY FlatMapIs
    <2>3. FlatMap(g, f[u] \o FlatMap(f, s)) = FlatMap(g, f[u]) \o FlatMap(g, FlatMap(f, s))
      <3>1. PICK t \in Seq(V) : t = FlatMap(f, s)
        BY <2>2, Zenon
      <3>2. \A x \in Seq(V) : FlatMap(g, x \o t) = FlatMap(g, x) \o FlatMap(g, t)
        BY FlatMapConcat
      <3> QED
        BY <2>2, <3>1, <3>2, Zenon
    <2>4. FlatMap(k, <<u>> \o s) = k[u] \o FlatMap(k, s)
      BY FlatMapCons, Zenon
    <2>5. <<u>> \o s \in Seq(U) /\ k[u] = FlatMap(g, f[u])
      BY <1>0
    <2>6. FlatMap(g, FlatMap(f, s)) = FlatMap(k, s)
      BY <1>2
    <2> QED
      BY <2>1, <2>3, <2>4, <2>5, <2>6, Zenon
  <1>3. Seq(U) \subseteq S
    <2> HIDE DEF S
    <2> QED
      BY <1>1, <1>2, ConsInduction
  <1> QED
    BY <1>0, <1>3
=============================================================================
