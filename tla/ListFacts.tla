------------------------------- MODULE ListFacts -------------------------------
(***************************************************************************)
(* Facts about numbers and sequences, whatever is in them, that the proofs *)
(* about the modules share.                                                *)
(***************************************************************************)
EXTENDS Lists, FiniteSetsExt, FiniteSetTheorems, SequenceTheorems, WellFoundedInduction, TLAPS

\* Every set of numbers that is not empty has a least one: the form of
\* induction that the proofs below use.
LEMMA LeastElement ==
  ASSUME NEW T \in SUBSET Nat, T # {}
  PROVE  \E m \in T : \A n \in T : m <= n
<1>1. IsWellFoundedOn(OpToRel(<, Nat), Nat)
  BY NatLessThanWellFounded
<1>2. PICK m \in T : \A n \in T : ~(<<n, m>> \in OpToRel(<, Nat))
  BY <1>1, WFMin
<1>3. ASSUME NEW n \in T
      PROVE  m <= n
  <2>1. ~(n < m)
    BY <1>2 DEF OpToRel
  <2> QED BY <2>1
<1> QED BY <1>3

\* The greatest of a set, if it is known.
LEMMA GreatestIs ==
  ASSUME NEW S \in SUBSET Int, NEW n \in S, \A i \in S : i <= n
  PROVE  Max(S) = n
<1>1. \A i \in S : n >= i
  OBVIOUS
<1>2. \A m \in S : (\A i \in S : m >= i) => m = n
  OBVIOUS
<1> QED BY <1>1, <1>2 DEF Max

\* Numbers with a bound have a greatest.
LEMMA GreatestExists ==
  ASSUME NEW n \in Nat, NEW S \in SUBSET (1 .. n), S # {}
  PROVE  Max(S) \in S /\ \A i \in S : i <= Max(S)
<1> DEFINE T == {k \in Nat : n - k \in S}
<1>1. T \in SUBSET Nat /\ T # {}
  <2>1. PICK i \in S : TRUE
    OBVIOUS
  <2>2. i \in Int /\ n - i \in Nat /\ n - (n - i) = i
    OBVIOUS
  <2> QED BY <2>2
<1>2. PICK k \in T : \A j \in T : k <= j
  BY <1>1, LeastElement
<1>3. n - k \in S /\ \A i \in S : i <= n - k
  <2>1. \A i \in S : n - i \in Nat /\ n - (n - i) = i
    OBVIOUS
  <2>2. \A i \in S : n - i \in T
    BY <2>1
  <2>3. \A i \in S : k <= n - i
    BY <1>2, <2>2
  <2> QED BY <1>2, <2>1, <2>3
<1>4. S \in SUBSET Int
  OBVIOUS
<1>5. Max(S) = n - k
  BY <1>3, <1>4, GreatestIs
<1> QED BY <1>3, <1>5

\* Numbers have a least.
LEMMA LeastIs ==
  ASSUME NEW S \in SUBSET Nat, NEW n \in S
  PROVE  Min(S) \in S /\ \A i \in S : Min(S) <= i
<1>1. PICK m \in S : \A i \in S : m <= i
  BY LeastElement
<1> QED BY <1>1 DEF Min

-----------------------------------------------------------------------------
(***************************************************************************)
(* Sequences, whatever is in them.                                         *)
(***************************************************************************)
LEMMA SequenceFacts ==
  ASSUME NEW s, IsSequence(s)
  PROVE  Len(s) \in Nat /\ DOMAIN s = 1 .. Len(s) /\ s = [i \in 1 .. Len(s) |-> s[i]]
BY DEF IsSequence

\* What is defined by its elements is a sequence.
LEMMA SequenceOf ==
  ASSUME NEW n \in Nat, NEW f, f = [i \in 1 .. n |-> f[i]]
  PROVE  IsSequence(f) /\ Len(f) = n
<1> DEFINE S == ToSet(f)
<1>1. \A i \in 1 .. n : f[i] \in S
  BY DEF ToSet
<1>2. f \in [1 .. n -> S]
  BY <1>1
<1> HIDE DEF S
<1>3. f \in Seq(S) /\ Len(f) = n
  BY <1>2
<1> QED BY <1>3 DEF S, ToSet, IsSequence

\* A sequence of members of some set.
LEMMA SeqIsSequence ==
  ASSUME NEW S, NEW s \in Seq(S)
  PROVE  IsSequence(s)
<1>1. s \in [1 .. Len(s) -> S] /\ Len(s) \in Nat
  OBVIOUS
<1>2. s = [i \in 1 .. Len(s) |-> s[i]]
  BY <1>1
<1> QED BY <1>1, <1>2, SequenceOf

\* The elements of a concatenation.
LEMMA ConcatFacts ==
  ASSUME NEW s, NEW t, IsSequence(s), IsSequence(t)
  PROVE  /\ IsSequence(s \o t) /\ Len(s \o t) = Len(s) + Len(t)
         /\ \A i \in 1 .. Len(s) + Len(t) : (s \o t)[i] = IF i <= Len(s) THEN s[i] ELSE t[i - Len(s)]
<1> DEFINE S == {s[i] : i \in DOMAIN s} \cup {t[i] : i \in DOMAIN t}
<1>1. s \in Seq(S) /\ t \in Seq(S)
  <2>1. s \in [1 .. Len(s) -> S] /\ t \in [1 .. Len(t) -> S] /\ Len(s) \in Nat /\ Len(t) \in Nat
    BY SequenceFacts
  <2> QED BY <2>1
<1> HIDE DEF S
<1>2. s \o t \in Seq(S)
  BY <1>1
<1> QED BY <1>1, <1>2, ConcatProperties, SeqIsSequence

\* The elements of a sequence that has got one more.
LEMMA AppendFacts ==
  ASSUME NEW s, NEW e, IsSequence(s)
  PROVE  /\ IsSequence(Append(s, e)) /\ Len(Append(s, e)) = Len(s) + 1
         /\ \A i \in 1 .. Len(s) : Append(s, e)[i] = s[i]
         /\ Append(s, e)[Len(s) + 1] = e
<1> DEFINE S == {s[i] : i \in DOMAIN s} \cup {e}
<1>1. s \in Seq(S) /\ e \in S
  <2>1. s \in [1 .. Len(s) -> S] /\ Len(s) \in Nat
    BY SequenceFacts
  <2> QED BY <2>1
<1> HIDE DEF S
<1>2. /\ Append(s, e) \in Seq(S) /\ Len(Append(s, e)) = Len(s) + 1 /\ Len(s) \in Nat
      /\ \A i \in 1 .. Len(s) : Append(s, e)[i] = s[i]
      /\ Append(s, e)[Len(s) + 1] = e
  BY <1>1
<1> QED BY <1>2, SeqIsSequence

\* The empty sequence.
LEMMA EmptyIsSequence == IsSequence(<<>>) /\ Len(<<>>) = 0 /\ DOMAIN <<>> = {}
<1>1. <<>> \in Seq({})
  OBVIOUS
<1>2. Len(<<>>) = 0 /\ DOMAIN <<>> = {}
  OBVIOUS
<1>3. IsSequence(<<>>)
  BY <1>1, SeqIsSequence
<1> QED BY <1>2, <1>3

\* SetToSeq lists all of a finite set.
LEMMA SetToSeqFacts ==
  ASSUME NEW S, IsFiniteSet(S)
  PROVE  /\ SetToSeq(S) \in [1 .. Cardinality(S) -> S] /\ Cardinality(S) \in Nat
         /\ DOMAIN SetToSeq(S) = 1 .. Cardinality(S)
         /\ \A x \in S : \E i \in 1 .. Cardinality(S) : SetToSeq(S)[i] = x
<1> DEFINE n == Cardinality(S)
<1>1. n \in Nat /\ ExistsBijection(1 .. n, S)
  BY FS_CardinalityType
<1>2. PICK f : f \in Bijection(1 .. n, S)
  BY <1>1 DEF ExistsBijection
<1>3. f \in [1 .. n -> S] /\ IsInjective(f)
  BY <1>2 DEF Bijection, Injection
<1> HIDE DEF n
<1>4. SetToSeq(S) \in [1 .. n -> S] /\ IsInjective(SetToSeq(S))
  <2>1. SetToSeq(S) = CHOOSE g \in [1 .. n -> S] : IsInjective(g)
    BY DEF SetToSeq, n
  <2> QED BY <1>3, <2>1
<1>5. SetToSeq(S) \in Injection(1 .. n, S)
  BY <1>4 DEF Injection
<1>6. IsFiniteSet(1 .. n) /\ Cardinality(1 .. n) = n
  <2>1. 1 \in Int /\ n \in Int
    BY <1>1
  <2>2. IsFiniteSet(1 .. n) /\ Cardinality(1 .. n) = IF 1 > n THEN 0 ELSE n - 1 + 1
    BY <2>1, FS_Interval
  <2> QED BY <1>1, <2>2
<1>7. SetToSeq(S) \in Surjection(1 .. n, S)
  BY <1>5, <1>6, FS_Injection DEF n
<1> QED BY <1>1, <1>4, <1>7 DEF Surjection, n

\* Sequences with the same elements are the same.
LEMMA SameSequence ==
  ASSUME NEW s, NEW t, IsSequence(s), IsSequence(t), Len(s) = Len(t), \A i \in 1 .. Len(s) : s[i] = t[i]
  PROVE  s = t
<1>1. s = [i \in 1 .. Len(s) |-> s[i]] /\ t = [i \in 1 .. Len(s) |-> t[i]]
  BY SequenceFacts
<1> QED BY <1>1

\* Only one sequence is empty.
LEMMA OnlyEmpty ==
  ASSUME NEW s, IsSequence(s), Len(s) = 0
  PROVE  s = <<>>
BY EmptyIsSequence, SameSequence

\* A sequence of one element.
LEMMA SingleFacts ==
  ASSUME NEW x
  PROVE  IsSequence(<<x>>) /\ Len(<<x>>) = 1 /\ DOMAIN <<x>> = {1} /\ <<x>>[1] = x
<1>1. <<x>> \in Seq({x}) /\ Len(<<x>>) = 1 /\ <<x>>[1] = x /\ DOMAIN <<x>> = {1}
  OBVIOUS
<1> QED BY <1>1, SeqIsSequence

\* Nothing before or behind.
LEMMA ConcatEmpty ==
  ASSUME NEW s, IsSequence(s)
  PROVE  s \o <<>> = s /\ <<>> \o s = s
BY EmptySeq, ConcatEmptySeq DEF IsSequence

\* Concatenation associates.
LEMMA ConcatAssociates ==
  ASSUME NEW s, NEW t, NEW u, IsSequence(s), IsSequence(t), IsSequence(u)
  PROVE  (s \o t) \o u = s \o (t \o u)
<1> DEFINE S == ToSet(s) \cup ToSet(t) \cup ToSet(u)
<1>1. s \in Seq(S) /\ t \in Seq(S) /\ u \in Seq(S)
  <2>1. s \in Seq(ToSet(s)) /\ t \in Seq(ToSet(t)) /\ u \in Seq(ToSet(u))
    BY DEF IsSequence
  <2> QED BY <2>1, SeqMonotonic
<1> HIDE DEF S
<1> QED BY <1>1, ConcatAssociative

\* The same of three that are named, where the provers would go on rearranging.
Associate(s, t, u) == (s \o t) \o u = s \o (t \o u)

LEMMA TheseAssociate ==
  ASSUME NEW s, NEW t, NEW u, IsSequence(s), IsSequence(t), IsSequence(u)
  PROVE  Associate(s, t, u)
BY SMTT(30), ConcatAssociates DEF Associate

\* Appending is concatenation.
LEMMA AppendConcat ==
  ASSUME NEW s, NEW e, IsSequence(s)
  PROVE  Append(s, e) = s \o <<e>>
<1>1. /\ IsSequence(s \o <<e>>) /\ Len(s \o <<e>>) = Len(s) + 1 /\ Len(s) \in Nat
      /\ \A i \in 1 .. Len(s) + 1 : (s \o <<e>>)[i] = IF i <= Len(s) THEN s[i] ELSE <<e>>[i - Len(s)]
  BY SingleFacts, ConcatFacts, SequenceFacts
<1>2. /\ IsSequence(Append(s, e)) /\ Len(Append(s, e)) = Len(s) + 1
      /\ \A i \in 1 .. Len(s) : Append(s, e)[i] = s[i]
      /\ Append(s, e)[Len(s) + 1] = e
  BY AppendFacts
<1>3. \A i \in 1 .. Len(s) + 1 : Append(s, e)[i] = (s \o <<e>>)[i]
  <2>1. (s \o <<e>>)[Len(s) + 1] = e
    <3>1. Len(s) + 1 - Len(s) = 1 /\ ~(Len(s) + 1 <= Len(s)) /\ Len(s) + 1 \in 1 .. Len(s) + 1
      BY <1>1
    <3> QED BY <1>1, <3>1, SingleFacts
  <2>2. \A i \in 1 .. Len(s) + 1 : i \in 1 .. Len(s) \/ i = Len(s) + 1
    BY <1>1
  <2>3. \A i \in 1 .. Len(s) : i \in 1 .. Len(s) + 1 /\ i <= Len(s)
    BY <1>1
  <2> QED BY <1>1, <1>2, <2>1, <2>2, <2>3
<1> QED BY <1>1, <1>2, <1>3, SameSequence

\* A sequence with something at its head.
LEMMA HeadTailFacts ==
  ASSUME NEW x, NEW s, IsSequence(s)
  PROVE  /\ IsSequence(<<x>> \o s) /\ <<x>> \o s # <<>> /\ Len(<<x>> \o s) = Len(s) + 1
         /\ Head(<<x>> \o s) = x /\ Tail(<<x>> \o s) = s
<1> DEFINE t == <<x>> \o s
<1>1. /\ IsSequence(t) /\ Len(t) = 1 + Len(s) /\ Len(s) \in Nat
      /\ \A i \in 1 .. 1 + Len(s) : t[i] = IF i <= 1 THEN <<x>>[i] ELSE s[i - 1]
  BY SingleFacts, ConcatFacts, SequenceFacts
<1> HIDE DEF t
<1>2. t # <<>> /\ t[1] = x /\ \A i \in 1 .. Len(s) : t[i + 1] = s[i]
  <2>1. t[1] = x
    BY <1>1, SingleFacts
  <2>2. \A i \in 1 .. Len(s) : i + 1 \in 1 .. 1 + Len(s) /\ ~(i + 1 <= 1) /\ i + 1 - 1 = i
    BY <1>1
  <2>3. t # <<>>
    BY <1>1, EmptyIsSequence
  <2> QED BY <1>1, <2>1, <2>2, <2>3
<1>3. t \in Seq(ToSet(t))
  BY <1>1 DEF IsSequence
<1>4. Head(t) = x
  BY <1>2, <1>3
<1>5. /\ Tail(t) \in Seq(ToSet(t)) /\ Len(Tail(t)) = Len(t) - 1
      /\ \A i \in 1 .. Len(Tail(t)) : Tail(t)[i] = t[i + 1]
  BY <1>2, <1>3, HeadTailProperties
<1>6. Len(Tail(t)) = Len(s) /\ \A i \in 1 .. Len(s) : Tail(t)[i] = s[i]
  BY <1>1, <1>2, <1>5
<1>7. Tail(t) = s
  BY <1>5, <1>6, SeqIsSequence, SameSequence
<1> QED BY <1>1, <1>2, <1>4, <1>7 DEF t

\* What is not empty has a head and a tail.
LEMMA HeadAndTail ==
  ASSUME NEW s, IsSequence(s), s # <<>>
  PROVE  s = <<Head(s)>> \o Tail(s) /\ IsSequence(Tail(s)) /\ Len(s) >= 1 /\ Head(s) = s[1]
<1>1. s \in Seq(ToSet(s)) /\ Len(s) \in Nat
  BY SequenceFacts DEF IsSequence
<1>2. /\ Tail(s) \in Seq(ToSet(s)) /\ Len(Tail(s)) = Len(s) - 1
      /\ \A i \in 1 .. Len(Tail(s)) : Tail(s)[i] = s[i + 1]
  BY <1>1, HeadTailProperties
<1>3. IsSequence(Tail(s))
  BY <1>2, SeqIsSequence
<1>4. Len(s) >= 1
  BY <1>1, OnlyEmpty
<1>5. Head(s) = s[1]
  BY <1>1
<1> DEFINE t == <<Head(s)>> \o Tail(s)
<1>6. /\ IsSequence(t) /\ Len(t) = 1 + Len(Tail(s))
      /\ \A i \in 1 .. 1 + Len(Tail(s)) : t[i] = IF i <= 1 THEN <<Head(s)>>[i] ELSE Tail(s)[i - 1]
  BY <1>3, SingleFacts, ConcatFacts
<1> HIDE DEF t
<1>7. Len(t) = Len(s)
  BY <1>1, <1>2, <1>6
<1>8. \A i \in 1 .. Len(s) : t[i] = s[i]
  <2> SUFFICES ASSUME NEW i \in 1 .. Len(s)
               PROVE  t[i] = s[i]
    OBVIOUS
  <2>1. CASE i = 1
    BY <1>1, <1>2, <1>4, <1>5, <1>6, <2>1, SingleFacts
  <2>2. CASE i # 1
    <3>1. i - 1 \in 1 .. Len(Tail(s)) /\ i \in 1 .. 1 + Len(Tail(s)) /\ ~(i <= 1) /\ i - 1 + 1 = i
      BY <1>1, <1>2, <2>2
    <3> QED BY <1>2, <1>6, <3>1
  <2> QED BY <2>1, <2>2
<1> QED BY <1>3, <1>4, <1>5, <1>6, <1>7, <1>8, SameSequence DEF t

\* Two elements.
LEMMA PairIs ==
  ASSUME NEW x, NEW y
  PROVE  <<x, y>> = <<x>> \o <<y>>
<1>1. PICK s, t, u : s = <<x>> /\ t = <<y>> /\ u = <<x, y>>
  OBVIOUS
<1>2. u \in Seq({x, y}) /\ Len(u) = 2 /\ u[1] = x /\ u[2] = y
  BY <1>1
<1>3. IsSequence(s) /\ IsSequence(t) /\ Len(s) = 1 /\ Len(t) = 1 /\ s[1] = x /\ t[1] = y
  BY <1>1, SingleFacts
<1>a. IsSequence(s) /\ IsSequence(t)
  BY <1>3
<1>b. /\ IsSequence(s \o t) /\ Len(s \o t) = Len(s) + Len(t)
      /\ \A i \in 1 .. Len(s) + Len(t) : (s \o t)[i] = IF i <= Len(s) THEN s[i] ELSE t[i - Len(s)]
  BY <1>a, ConcatFacts
<1>4. /\ IsSequence(s \o t) /\ Len(s \o t) = 2
      /\ \A i \in 1 .. 2 : (s \o t)[i] = IF i <= 1 THEN s[i] ELSE t[i - 1]
  BY <1>3, <1>b
<1>5. \A i \in 1 .. 2 : (s \o t)[i] = u[i]
  <2>1. \A i \in 1 .. 2 : i = 1 \/ i = 2
    OBVIOUS
  <2> QED BY <1>2, <1>3, <1>4, <2>1
<1> QED BY <1>1, <1>2, <1>4, <1>5, SameSequence, SeqIsSequence

\* The first elements of a sequence.
LEMMA PrefixFacts ==
  ASSUME NEW s, IsSequence(s), NEW n \in 0 .. Len(s)
  PROVE  /\ IsSequence(SubSeq(s, 1, n)) /\ Len(SubSeq(s, 1, n)) = n
         /\ \A i \in 1 .. n : SubSeq(s, 1, n)[i] = s[i]
<1>1. Len(s) \in Nat /\ s \in Seq(ToSet(s))
  BY SequenceFacts DEF IsSequence
<1>2. SubSeq(s, 1, n) \in Seq(ToSet(s)) /\ Len(SubSeq(s, 1, n)) = n
      /\ \A i \in 1 .. n : SubSeq(s, 1, n)[i] = s[i]
  BY <1>1
<1> QED BY <1>2, SeqIsSequence

\* The elements of a part of a sequence.
LEMMA SubSeqFacts ==
  ASSUME NEW s, IsSequence(s), NEW p \in 1 .. Len(s) + 1, NEW n \in p - 1 .. Len(s)
  PROVE  /\ IsSequence(SubSeq(s, p, n)) /\ Len(SubSeq(s, p, n)) = n - p + 1
         /\ \A i \in 1 .. n - p + 1 : SubSeq(s, p, n)[i] = s[p + i - 1]
<1>1. PICK k \in Nat : k = Len(s) /\ s \in Seq(ToSet(s))
  BY SequenceFacts DEF IsSequence
<1>2. p \in Nat /\ n \in Nat /\ p >= 1 /\ n <= k /\ n - p + 1 \in Nat
  BY <1>1
<1>3. PICK q : q = SubSeq(s, p, n)
  OBVIOUS
<1>4. q = [i \in 1 .. n - p + 1 |-> s[p + i - 1]]
  BY <1>1, <1>2, <1>3
<1>5. PICK l \in Nat : l = n - p + 1
  BY <1>2
<1>6. q = [i \in 1 .. l |-> q[i]] /\ \A i \in 1 .. l : q[i] = s[p + i - 1]
  BY <1>4, <1>5
<1>7. IsSequence(q) /\ Len(q) = l
  BY <1>6, SequenceOf
<1> QED BY <1>3, <1>5, <1>6, <1>7
-----------------------------------------------------------------------------
(***************************************************************************)
(* FlattenSeq.  IsFlat says what its recursive function is.                *)
(***************************************************************************)
IsFlat(f, n, ss) == f = [i \in 1 .. n |-> IF i = 1 THEN ss[i] ELSE f[i - 1] \o ss[i]]

\* The recursive function exists, whatever the length.
LEMMA FlatExists ==
  ASSUME NEW ss
  PROVE  \A n \in Nat : \E f : IsFlat(f, n, ss)
<1> DEFINE T == {n \in Nat : ~\E f : IsFlat(f, n, ss)}
<1> SUFFICES ASSUME T # {}
             PROVE  FALSE
  OBVIOUS
<1>1. PICK m \in T : \A n \in T : m <= n
  BY LeastElement
<1>2. CASE m = 0
  <2> DEFINE f == [i \in 1 .. 0 |-> <<>>]
  <2>1. IsFlat(f, 0, ss)
    BY DEF IsFlat
  <2> QED BY <1>1, <1>2, <2>1
<1>3. CASE m # 0
  <2>1. m - 1 \in Nat /\ m - 1 \notin T
    BY <1>1, <1>3
  <2>2. PICK g : IsFlat(g, m - 1, ss)
    BY <2>1
  <2> DEFINE f == [i \in 1 .. m |-> IF i < m THEN g[i] ELSE IF i = 1 THEN ss[i] ELSE g[i - 1] \o ss[i]]
  <2>3. \A i \in 1 .. m : f[i] = IF i = 1 THEN ss[i] ELSE f[i - 1] \o ss[i]
    <3> SUFFICES ASSUME NEW i \in 1 .. m
                 PROVE  f[i] = IF i = 1 THEN ss[i] ELSE f[i - 1] \o ss[i]
      OBVIOUS
    <3>1. i # 1 => i - 1 \in 1 .. m /\ i - 1 < m /\ f[i - 1] = g[i - 1]
      BY <1>1
    <3>2. CASE i < m
      <4>1. i \in 1 .. m - 1
        BY <1>1, <3>2
      <4>2. g[i] = IF i = 1 THEN ss[i] ELSE g[i - 1] \o ss[i]
        BY <2>2, <4>1 DEF IsFlat
      <4> QED BY <3>1, <3>2, <4>2
    <3>3. CASE ~(i < m)
      BY <3>1, <3>3
    <3> QED BY <3>2, <3>3
  <2>4. f = [i \in 1 .. m |-> f[i]]
    OBVIOUS
  <2> HIDE DEF f
  <2>5. IsFlat(f, m, ss)
    BY <2>3, <2>4 DEF IsFlat
  <2> QED BY <1>1, <2>5
<1> QED BY <1>2, <1>3

\* FlattenSeq is its last value.
LEMMA FlattenIs ==
  ASSUME NEW ss, IsSequence(ss), ss # <<>>
  PROVE  \E f : IsFlat(f, Len(ss), ss) /\ FlattenSeq(ss) = f[Len(ss)]
<1>1. Len(ss) \in Nat /\ Len(ss) # 0
  BY SequenceFacts, OnlyEmpty
<1> DEFINE f == CHOOSE f : IsFlat(f, Len(ss), ss)
<1>2. IsFlat(f, Len(ss), ss)
  BY <1>1, FlatExists
<1>3. FlattenSeq(ss) = f[Len(ss)]
  BY <1>1 DEF FlattenSeq, IsFlat
<1> QED BY <1>2, <1>3

\* Nothing is flattened to nothing.
LEMMA FlattenEmpty == FlattenSeq(<<>>) = <<>>
BY EmptyIsSequence DEF FlattenSeq

\* What two functions make of a common beginning.
LEMMA FlatAgree ==
  ASSUME NEW ss, NEW tt, NEW f, NEW g, NEW n \in Nat, NEW m \in Nat, NEW k \in Nat,
         IsFlat(f, n, ss), IsFlat(g, m, tt), k <= n, k <= m, \A i \in 1 .. k : ss[i] = tt[i]
  PROVE  \A i \in 1 .. k : f[i] = g[i]
<1> DEFINE T == {i \in 1 .. k : f[i] # g[i]}
<1> SUFFICES ASSUME T # {}
             PROVE  FALSE
  OBVIOUS
<1>1. T \in SUBSET Nat
  OBVIOUS
<1>2. PICK i \in T : \A j \in T : i <= j
  BY <1>1, LeastElement
<1>3. /\ f[i] = (IF i = 1 THEN ss[i] ELSE f[i - 1] \o ss[i])
      /\ g[i] = (IF i = 1 THEN tt[i] ELSE g[i - 1] \o tt[i])
  <2>1. i \in 1 .. n /\ i \in 1 .. m
    BY <1>2
  <2> QED BY <2>1 DEF IsFlat
<1>4. i # 1 => f[i - 1] = g[i - 1]
  <2> SUFFICES ASSUME i # 1
               PROVE  f[i - 1] = g[i - 1]
    OBVIOUS
  <2>1. i - 1 \in 1 .. k /\ ~(i <= i - 1)
    BY <1>2
  <2> QED BY <1>2, <2>1
<1> QED BY <1>2, <1>3, <1>4

\* One more sequence is added at the end.
LEMMA FlattenAppend ==
  ASSUME NEW ss, NEW s, IsSequence(ss), IsSequence(s)
  PROVE  FlattenSeq(ss \o <<s>>) = FlattenSeq(ss) \o s
<1> DEFINE n == Len(ss)
           tt == ss \o <<s>>
<1>1. /\ n \in Nat /\ IsSequence(tt) /\ Len(tt) = n + 1
      /\ \A i \in 1 .. n : tt[i] = ss[i]
      /\ tt[n + 1] = s
  <2>1. tt = Append(ss, s)
    BY AppendConcat
  <2> HIDE DEF tt
  <2> QED BY <2>1, SequenceFacts, AppendFacts
<1> HIDE DEF n, tt
<1>2. tt # <<>>
  BY <1>1, EmptyIsSequence
<1>3. PICK f : IsFlat(f, n + 1, tt) /\ FlattenSeq(tt) = f[n + 1]
  <2>1. \E f : IsFlat(f, Len(tt), tt) /\ FlattenSeq(tt) = f[Len(tt)]
    BY <1>1, <1>2, FlattenIs
  <2> QED BY <1>1, <2>1
<1>4. f[n + 1] = IF n + 1 = 1 THEN tt[n + 1] ELSE f[n] \o tt[n + 1]
  <2> DEFINE j == n + 1
  <2>1. j \in 1 .. n + 1 /\ j - 1 = n
    BY <1>1
  <2> HIDE DEF j
  <2>2. f[j] = IF j = 1 THEN tt[j] ELSE f[j - 1] \o tt[j]
    BY <1>3, <2>1 DEF IsFlat
  <2> QED BY <2>1, <2>2 DEF j
<1>5. CASE ss = <<>>
  <2>1. n = 0
    BY <1>5, EmptyIsSequence DEF n
  <2>2. FlattenSeq(ss) \o s = s
    BY <1>5, FlattenEmpty, ConcatEmpty
  <2> QED BY <1>1, <1>3, <1>4, <2>1, <2>2 DEF tt
<1>6. CASE ss # <<>>
  <2>1. n # 0
    BY <1>6, OnlyEmpty DEF n
  <2>2. PICK g : IsFlat(g, n, ss) /\ FlattenSeq(ss) = g[n]
    BY <1>6, FlattenIs DEF n
  <2>3. f[n] = g[n]
    <3>1. n + 1 \in Nat /\ n <= n + 1 /\ n <= n /\ n \in 1 .. n
      BY <1>1, <2>1
    <3>2. \A i \in 1 .. n : f[i] = g[i]
      BY SMTT(20), <1>1, <1>3, <2>2, <3>1, FlatAgree
    <3> QED BY <3>1, <3>2
  <2>4. f[n + 1] = f[n] \o s
    <3>1. n + 1 # 1
      BY <1>1, <2>1
    <3> QED BY <1>1, <1>4, <3>1
  <2> QED BY <1>3, <2>2, <2>3, <2>4 DEF tt
<1> QED BY <1>5, <1>6

\* A single sequence is what it is flattened to.
LEMMA FlattenSingle ==
  ASSUME NEW s, IsSequence(s)
  PROVE  FlattenSeq(<<s>>) = s
<1>1. <<>> \o <<s>> = <<s>> /\ <<>> \o s = s
  BY SingleFacts, ConcatEmpty
<1> QED BY <1>1, EmptyIsSequence, FlattenEmpty, FlattenAppend

\* Sequences are flattened to a sequence.
LEMMA FlattenIsSequence ==
  ASSUME NEW ss, IsSequence(ss), \A i \in DOMAIN ss : IsSequence(ss[i])
  PROVE  IsSequence(FlattenSeq(ss))
<1>1. CASE ss = <<>>
  BY <1>1, FlattenEmpty, EmptyIsSequence
<1>2. CASE ss # <<>>
  <2>1. Len(ss) \in Nat /\ DOMAIN ss = 1 .. Len(ss) /\ Len(ss) # 0
    BY <1>2, SequenceFacts, OnlyEmpty
  <2>2. PICK f : IsFlat(f, Len(ss), ss) /\ FlattenSeq(ss) = f[Len(ss)]
    BY <1>2, FlattenIs
  <2> DEFINE T == {i \in 1 .. Len(ss) : ~IsSequence(f[i])}
  <2>3. T = {}
    <3> SUFFICES ASSUME T # {}
                 PROVE  FALSE
      OBVIOUS
    <3>1. T \in SUBSET Nat
      OBVIOUS
    <3>2. PICK i \in T : \A j \in T : i <= j
      BY <3>1, LeastElement
    <3>3. f[i] = IF i = 1 THEN ss[i] ELSE f[i - 1] \o ss[i]
      BY <2>2, <3>2 DEF IsFlat
    <3>4. i # 1 => IsSequence(f[i - 1])
      <4> SUFFICES ASSUME i # 1
                   PROVE  IsSequence(f[i - 1])
        OBVIOUS
      <4>1. i - 1 \in 1 .. Len(ss) /\ ~(i <= i - 1)
        BY <2>1, <3>2
      <4> QED BY <3>2, <4>1
    <3>5. IsSequence(ss[i])
      BY <2>1, <3>2
    <3> QED BY <3>2, <3>3, <3>4, <3>5, ConcatFacts
  <2>4. Len(ss) \in 1 .. Len(ss)
    BY <2>1
  <2> QED BY <2>2, <2>3, <2>4
<1> QED BY <1>1, <1>2

\* s is r with x at its end.
EndsWith(s, r, x) ==
  /\ IsSequence(r) /\ s = r \o <<x>> /\ Len(r) \in Nat /\ Len(s) = Len(r) + 1 /\ x = s[Len(s)]
  /\ \A i \in 1 .. Len(r) : r[i] = s[i]

\* What is not empty has a last element.
LEMMA FrontAndLast ==
  ASSUME NEW s, IsSequence(s), s # <<>>
  PROVE  \E r, x : EndsWith(s, r, x)
<1>1. PICK n \in Nat : n = Len(s)
  BY SequenceFacts
<1>2. n # 0
  BY <1>1, OnlyEmpty
<1>3. PICK k \in Nat : k = n - 1 /\ k \in 0 .. n /\ n = k + 1
  BY <1>2
<1>4. PICK r, x : r = SubSeq(s, 1, k) /\ x = s[n]
  OBVIOUS
<1>5. IsSequence(r) /\ Len(r) = k /\ \A i \in 1 .. k : r[i] = s[i]
  BY <1>1, <1>3, <1>4, PrefixFacts
<1>6. PICK t : t = Append(r, x)
  OBVIOUS
<1>7. /\ IsSequence(t) /\ Len(t) = k + 1
      /\ \A i \in 1 .. k : t[i] = r[i]
      /\ t[k + 1] = x
  BY <1>5, <1>6, AppendFacts
<1>8. \A i \in 1 .. n : t[i] = s[i]
  <2>1. \A i \in 1 .. n : i \in 1 .. k \/ i = k + 1
    BY <1>3
  <2> QED BY <1>3, <1>4, <1>5, <1>7, <2>1
<1>9. t = s
  BY <1>1, <1>3, <1>7, <1>8, SameSequence
<1>10. r \o <<x>> = s
  BY <1>5, <1>6, <1>9, AppendConcat
<1> QED BY <1>1, <1>3, <1>4, <1>5, <1>10 DEF EndsWith

\* A concatenation is flattened part by part.
LEMMA FlattenConcat ==
  ASSUME NEW ss, NEW tt, IsSequence(ss), IsSequence(tt),
         \A i \in DOMAIN ss : IsSequence(ss[i]), \A i \in DOMAIN tt : IsSequence(tt[i])
  PROVE  FlattenSeq(ss \o tt) = FlattenSeq(ss) \o FlattenSeq(tt)
<1> DEFINE Bad(n) == \E r : /\ IsSequence(r) /\ Len(r) = n /\ (\A i \in DOMAIN r : IsSequence(r[i]))
                            /\ FlattenSeq(ss \o r) # FlattenSeq(ss) \o FlattenSeq(r)
           T == {n \in Nat : Bad(n)}
<1> SUFFICES T = {}
  <2>1. Len(tt) \in Nat
    BY SequenceFacts
  <2> QED BY <2>1
<1> SUFFICES ASSUME T # {}
             PROVE  FALSE
  OBVIOUS
<1>1. T \in SUBSET Nat
  OBVIOUS
<1>2. PICK m \in T : \A n \in T : m <= n
  BY <1>1, LeastElement
<1>3. PICK r : /\ IsSequence(r) /\ Len(r) = m /\ (\A i \in DOMAIN r : IsSequence(r[i]))
               /\ FlattenSeq(ss \o r) # FlattenSeq(ss) \o FlattenSeq(r)
  OBVIOUS
<1>4. PICK F : F = FlattenSeq(ss) /\ IsSequence(F)
  BY FlattenIsSequence
<1>5. r # <<>>
  BY ZenonT(40), <1>3, <1>4, FlattenEmpty, ConcatEmpty
<1>b. PICK q, x : EndsWith(r, q, x)
  <2>1. IsSequence(r) /\ r # <<>>
    BY <1>3, <1>5
  <2> HIDE DEF T, Bad
  <2> QED BY <2>1, FrontAndLast
<1>6. /\ IsSequence(q) /\ r = q \o <<x>> /\ Len(r) = Len(q) + 1 /\ Len(q) \in Nat
      /\ x = r[Len(r)] /\ \A i \in 1 .. Len(q) : q[i] = r[i]
  BY <1>b DEF EndsWith
<1>7. PICK k \in Nat : k = Len(q) /\ m = k + 1
  BY <1>3, <1>6
<1>8. DOMAIN r = 1 .. k + 1 /\ DOMAIN q = 1 .. k
  BY <1>3, <1>6, <1>7, SequenceFacts
<1>9. IsSequence(x) /\ \A i \in DOMAIN q : IsSequence(q[i])
  <2>1. k + 1 \in 1 .. k + 1 /\ \A i \in 1 .. k : i \in 1 .. k + 1
    OBVIOUS
  <2>2. x = r[k + 1] /\ \A i \in 1 .. k : q[i] = r[i]
    BY <1>3, <1>6, <1>7
  <2> QED BY <1>3, <1>8, <2>1, <2>2
<1>10. PICK G : G = FlattenSeq(q) /\ IsSequence(G)
  BY <1>6, <1>9, FlattenIsSequence
<1>11. FlattenSeq(ss \o q) = F \o G
  <2>1. k \notin T
    <3>1. ~(m <= k)
      BY <1>7
    <3> QED BY <1>2, <3>1
  <2>2. ~Bad(k)
    BY <2>1
  <2> HIDE DEF T
  <2> QED BY <1>4, <1>6, <1>7, <1>9, <1>10, <2>2
<1> HIDE DEF T, Bad
<1>12. FlattenSeq(r) = G \o x
  BY <1>6, <1>9, <1>10, FlattenAppend
<1>13. FlattenSeq(ss \o r) = (F \o G) \o x
  <2>1. PICK sq : sq = ss \o q
    OBVIOUS
  <2>2. IsSequence(sq)
    BY <1>6, <2>1, ConcatFacts
  <2>3. PICK h : h = <<x>> /\ IsSequence(h)
    BY SingleFacts
  <2>a. IsSequence(ss) /\ IsSequence(q) /\ IsSequence(h)
    BY <1>6, <2>3
  <2>4. (ss \o q) \o h = ss \o (q \o h)
    BY <2>a, ConcatAssociates
  <2>5. ss \o r = sq \o <<x>>
    BY <1>6, <2>1, <2>3, <2>4
  <2>6. FlattenSeq(sq \o <<x>>) = FlattenSeq(sq) \o x
    BY <1>9, <2>2, FlattenAppend
  <2> QED BY <1>11, <2>1, <2>5, <2>6
<1>a. IsSequence(F) /\ IsSequence(G) /\ IsSequence(x)
  BY <1>4, <1>9, <1>10
<1>14. (F \o G) \o x = F \o (G \o x)
  BY SMTT(20), <1>a, ConcatAssociates
<1>15. FlattenSeq(ss \o r) = F \o FlattenSeq(r)
  BY <1>12, <1>13, <1>14
<1> QED BY <1>3, <1>4, <1>15

\* F is ss flattened: its p-th element is the o[p]-th of the block b[p], blocks
\* follow one another, and all of each is there.
FlattenedBy(F, ss, b, o) ==
  /\ \A p \in 1 .. Len(F) : /\ b[p] \in 1 .. Len(ss) /\ o[p] \in 1 .. Len(ss[b[p]])
                            /\ F[p] = ss[b[p]][o[p]]
  /\ \A p, q \in 1 .. Len(F) : p < q => b[p] < b[q] \/ (b[p] = b[q] /\ o[p] < o[q])
  /\ \A i \in 1 .. Len(ss) : \A k \in 1 .. Len(ss[i]) : \E p \in 1 .. Len(F) : b[p] = i /\ o[p] = k

\* One more block.
LEMMA OneMoreBlock ==
  ASSUME NEW F, NEW ss, NEW b, NEW o, NEW s, NEW tt,
         IsSequence(F), IsSequence(s), FlattenedBy(F, ss, b, o), EndsWith(tt, ss, s)
  PROVE  \E c, d : FlattenedBy(F \o s, tt, c, d)
<1>a. /\ IsSequence(ss) /\ Len(tt) = Len(ss) + 1 /\ tt[Len(ss) + 1] = s
      /\ \A i \in 1 .. Len(ss) : tt[i] = ss[i]
  BY DEF EndsWith
<1>b. PICK G : G = F \o s
  OBVIOUS
<1>1. PICK n \in Nat, m \in Nat, l \in Nat : n = Len(ss) /\ m = Len(F) /\ l = Len(s)
  BY <1>a, SequenceFacts
<1>2. Len(G) = m + l /\ \A p \in 1 .. m + l : G[p] = IF p <= m THEN F[p] ELSE s[p - m]
  BY <1>1, <1>b, ConcatFacts
<1>3. PICK c, d : /\ c = [p \in 1 .. m + l |-> IF p <= m THEN b[p] ELSE n + 1]
                  /\ d = [p \in 1 .. m + l |-> IF p <= m THEN o[p] ELSE p - m]
  OBVIOUS
<1>4. /\ \A p \in 1 .. m : p \in 1 .. m + l /\ c[p] = b[p] /\ d[p] = o[p] /\ G[p] = F[p]
      /\ \A p \in 1 .. m + l : p \notin 1 .. m => c[p] = n + 1 /\ d[p] = p - m /\ d[p] \in 1 .. l /\ G[p] = s[p - m]
  BY <1>2, <1>3
<1>5. \A p \in 1 .. m : /\ b[p] \in 1 .. n /\ o[p] \in 1 .. Len(tt[b[p]]) /\ F[p] = tt[b[p]][o[p]]
  <2>1. \A p \in 1 .. m : /\ b[p] \in 1 .. n /\ o[p] \in 1 .. Len(ss[b[p]]) /\ F[p] = ss[b[p]][o[p]]
    BY <1>1 DEF FlattenedBy
  <2>2. \A i \in 1 .. n : tt[i] = ss[i]
    BY <1>1, <1>a
  <2> QED BY <2>1, <2>2
<1>6. tt[n + 1] = s /\ n + 1 \in 1 .. n + 1 /\ Len(tt) = n + 1 /\ 1 .. n \subseteq 1 .. n + 1
  BY <1>1, <1>a
<1>7. ASSUME NEW p \in 1 .. m + l
      PROVE  c[p] \in 1 .. n + 1 /\ d[p] \in 1 .. Len(tt[c[p]]) /\ G[p] = tt[c[p]][d[p]]
  <2>1. CASE p \in 1 .. m
    BY <1>4, <1>5, <1>6, <2>1
  <2>2. CASE p \notin 1 .. m
    BY <1>1, <1>4, <1>6, <2>2
  <2> QED BY <2>1, <2>2
<1>8. ASSUME NEW p \in 1 .. m + l, NEW q \in 1 .. m + l, p < q
      PROVE  c[p] < c[q] \/ (c[p] = c[q] /\ d[p] < d[q])
  <2>1. CASE q \in 1 .. m
    <3>1. p \in 1 .. m
      BY <1>8, <2>1
    <3>2. b[p] < b[q] \/ (b[p] = b[q] /\ o[p] < o[q])
      BY <1>1, <1>8, <2>1, <3>1 DEF FlattenedBy
    <3> QED BY <1>4, <2>1, <3>1, <3>2
  <2>2. CASE q \notin 1 .. m /\ p \in 1 .. m
    <3>1. c[q] = n + 1 /\ c[p] = b[p] /\ b[p] \in 1 .. n
      BY <1>4, <1>5, <2>2
    <3>2. \A x \in 1 .. n : x < n + 1
      OBVIOUS
    <3>3. c[p] < c[q]
      BY <3>1, <3>2
    <3> QED BY <3>3
  <2>3. CASE q \notin 1 .. m /\ p \notin 1 .. m
    <3>1. c[q] = n + 1 /\ c[p] = n + 1 /\ d[p] = p - m /\ d[q] = q - m
      BY <1>4, <2>3
    <3> QED BY <1>8, <3>1
  <2> QED BY <2>1, <2>2, <2>3
<1>9. ASSUME NEW i \in 1 .. Len(tt), NEW k \in 1 .. Len(tt[i])
      PROVE  \E p \in 1 .. m + l : c[p] = i /\ d[p] = k
  <2>1. CASE i \in 1 .. n
    <3>1. k \in 1 .. Len(ss[i])
      BY <1>1, <1>a, <2>1
    <3>2. PICK p \in 1 .. m : b[p] = i /\ o[p] = k
      BY <1>1, <2>1, <3>1 DEF FlattenedBy
    <3> QED BY <1>4, <3>2
  <2>2. CASE i = n + 1
    <3>1. k \in 1 .. l
      BY <1>1, <1>6, <2>2
    <3>2. m + k \in 1 .. m + l /\ m + k \notin 1 .. m /\ (m + k) - m = k
      BY <3>1
    <3> QED BY <1>4, <2>2, <3>2
  <2>3. i \in 1 .. n + 1
    BY <1>6
  <2> QED BY <2>1, <2>2, <2>3
<1>10. FlattenedBy(G, tt, c, d)
  <2>1. Len(G) = m + l /\ Len(tt) = n + 1
    BY <1>2, <1>6
  <2>2. /\ \A p \in 1 .. Len(G) : c[p] \in 1 .. Len(tt) /\ d[p] \in 1 .. Len(tt[c[p]]) /\ G[p] = tt[c[p]][d[p]]
        /\ \A p, q \in 1 .. Len(G) : p < q => c[p] < c[q] \/ (c[p] = c[q] /\ d[p] < d[q])
        /\ \A i \in 1 .. Len(tt) : \A k \in 1 .. Len(tt[i]) : \E p \in 1 .. Len(G) : c[p] = i /\ d[p] = k
    <3>1. \A p \in 1 .. Len(G) : c[p] \in 1 .. Len(tt) /\ d[p] \in 1 .. Len(tt[c[p]]) /\ G[p] = tt[c[p]][d[p]]
      BY <1>7, <2>1
    <3>2. \A p, q \in 1 .. Len(G) : p < q => c[p] < c[q] \/ (c[p] = c[q] /\ d[p] < d[q])
      BY <1>8, <2>1
    <3>3. \A i \in 1 .. Len(tt) : \A k \in 1 .. Len(tt[i]) : \E p \in 1 .. Len(G) : c[p] = i /\ d[p] = k
      BY <1>9, <2>1
    <3> QED BY <3>1, <3>2, <3>3
  <2> QED BY <2>2 DEF FlattenedBy
<1> QED BY <1>10, <1>b

\* Sequences of sequences are flattened block by block.
LEMMA FlattenBlocks ==
  ASSUME NEW ss, IsSequence(ss), \A i \in DOMAIN ss : IsSequence(ss[i])
  PROVE  \E b, o : FlattenedBy(FlattenSeq(ss), ss, b, o)
<1> DEFINE Bad(n) == \E r : /\ IsSequence(r) /\ Len(r) = n /\ (\A i \in DOMAIN r : IsSequence(r[i]))
                            /\ ~\E b, o : FlattenedBy(FlattenSeq(r), r, b, o)
           T == {n \in Nat : Bad(n)}
<1> SUFFICES T = {}
  <2>1. Len(ss) \in Nat
    BY SequenceFacts
  <2> QED BY <2>1
<1> SUFFICES ASSUME T # {}
             PROVE  FALSE
  OBVIOUS
<1>1. T \in SUBSET Nat
  OBVIOUS
<1>2. PICK m \in T : \A n \in T : m <= n
  BY <1>1, LeastElement
<1>3. PICK r : /\ IsSequence(r) /\ Len(r) = m /\ (\A i \in DOMAIN r : IsSequence(r[i]))
               /\ ~\E b, o : FlattenedBy(FlattenSeq(r), r, b, o)
  OBVIOUS
<1>4. r # <<>>
  <2>1. SUFFICES ASSUME r = <<>>
                 PROVE  FALSE
    OBVIOUS
  <2>2. FlattenSeq(r) = <<>> /\ Len(r) = 0 /\ Len(<<>>) = 0
    BY <2>1, FlattenEmpty, EmptyIsSequence
  <2>3. FlattenedBy(<<>>, r, <<>>, <<>>)
    BY <2>2 DEF FlattenedBy
  <2> QED BY <1>3, <2>2, <2>3
<1>b. PICK q, x : EndsWith(r, q, x)
  <2>1. IsSequence(r) /\ r # <<>>
    BY <1>3, <1>4
  <2> HIDE DEF T, Bad
  <2> QED BY <2>1, FrontAndLast
<1>6. /\ IsSequence(q) /\ r = q \o <<x>> /\ Len(r) = Len(q) + 1 /\ Len(q) \in Nat
      /\ x = r[Len(r)] /\ \A i \in 1 .. Len(q) : q[i] = r[i]
  BY <1>b DEF EndsWith
<1>7. PICK k \in Nat : k = Len(q) /\ m = k + 1
  BY <1>3, <1>6
<1>8. DOMAIN r = 1 .. k + 1 /\ DOMAIN q = 1 .. k
  BY <1>3, <1>6, <1>7, SequenceFacts
<1>9. IsSequence(x) /\ \A i \in DOMAIN q : IsSequence(q[i])
  <2>1. k + 1 \in 1 .. k + 1 /\ \A i \in 1 .. k : i \in 1 .. k + 1
    OBVIOUS
  <2>2. x = r[k + 1] /\ \A i \in 1 .. k : q[i] = r[i]
    BY <1>3, <1>6, <1>7
  <2> QED BY <1>3, <1>8, <2>1, <2>2
<1>10. PICK F : F = FlattenSeq(q) /\ IsSequence(F)
  BY <1>6, <1>9, FlattenIsSequence
<1>11. PICK b, o : FlattenedBy(F, q, b, o)
  <2>1. k \notin T
    <3>1. ~(m <= k)
      BY <1>7
    <3> QED BY <1>2, <3>1
  <2>2. ~Bad(k)
    BY <2>1
  <2> HIDE DEF T
  <2> QED BY <1>6, <1>7, <1>9, <1>10, <2>2
<1> HIDE DEF T, Bad
<1>12. FlattenSeq(r) = F \o x
  BY <1>6, <1>9, <1>10, FlattenAppend
<1>13. \E c, d : FlattenedBy(F \o x, r, c, d)
  BY <1>9, <1>10, <1>11, <1>b, OneMoreBlock
<1> QED BY <1>3, <1>12, <1>13

\* Where blocks are flattened to, and what is where.
LEMMA FlattenOrder ==
  ASSUME NEW F, NEW ss, NEW b, NEW o, FlattenedBy(F, ss, b, o), Len(F) \in Nat, IsSequence(ss),
         \A i \in DOMAIN ss : IsSequence(ss[i]),
         NEW p \in 1 .. Len(F), NEW q \in 1 .. Len(F)
  PROVE  /\ b[p] < b[q] => p < q
         /\ b[p] = b[q] /\ o[p] < o[q] => p < q
         /\ b[p] = b[q] /\ o[p] = o[q] => p = q
<1>1. Len(ss) \in Nat /\ DOMAIN ss = 1 .. Len(ss)
  BY SequenceFacts
<1>2. b[p] \in 1 .. Len(ss) /\ b[q] \in 1 .. Len(ss)
  BY DEF FlattenedBy
<1>3. o[p] \in 1 .. Len(ss[b[p]]) /\ o[q] \in 1 .. Len(ss[b[q]])
  BY DEF FlattenedBy
<1>4. Len(ss[b[p]]) \in Nat /\ Len(ss[b[q]]) \in Nat
  BY <1>1, <1>2, SequenceFacts
<1>5. b[p] \in Int /\ b[q] \in Int /\ o[p] \in Int /\ o[q] \in Int
  BY <1>1, <1>2, <1>3, <1>4
<1>6. p < q => b[p] < b[q] \/ (b[p] = b[q] /\ o[p] < o[q])
  BY DEF FlattenedBy
<1>7. q < p => b[q] < b[p] \/ (b[p] = b[q] /\ o[q] < o[p])
  BY DEF FlattenedBy
<1>8. p < q \/ q < p \/ p = q
  OBVIOUS
<1> QED BY <1>5, <1>6, <1>7, <1>8

-----------------------------------------------------------------------------
(***************************************************************************)
(* What is in a sequence.                                                  *)
(***************************************************************************)
\* What is in a concatenation.
LEMMA ConcatRange ==
  ASSUME NEW s, NEW t, IsSequence(s), IsSequence(t)
  PROVE  IsSequence(s \o t) /\ ToSet(s \o t) = ToSet(s) \cup ToSet(t)
<1>1. PICK u : u = s \o t
  OBVIOUS
<1>2. PICK n \in Nat, m \in Nat : n = Len(s) /\ m = Len(t) /\ DOMAIN s = 1 .. n /\ DOMAIN t = 1 .. m
  BY SequenceFacts
<1>3. /\ IsSequence(u) /\ Len(u) = n + m
      /\ \A i \in 1 .. n + m : u[i] = IF i <= n THEN s[i] ELSE t[i - n]
  BY <1>1, <1>2, ConcatFacts
<1>4. DOMAIN u = 1 .. n + m
  BY <1>3, SequenceFacts
<1>5. ASSUME NEW i \in 1 .. n
      PROVE  i \in 1 .. n + m /\ u[i] = s[i]
  BY <1>3
<1>6. ASSUME NEW i \in 1 .. m
      PROVE  n + i \in 1 .. n + m /\ u[n + i] = t[i]
  <2>1. n + i \in 1 .. n + m /\ ~(n + i <= n) /\ (n + i) - n = i
    OBVIOUS
  <2> QED BY <1>3, <2>1
<1>7. ASSUME NEW i \in 1 .. n + m
      PROVE  (i \in 1 .. n /\ u[i] = s[i]) \/ (i - n \in 1 .. m /\ u[i] = t[i - n])
  BY <1>3
<1>8. ToSet(s) \subseteq ToSet(u)
  BY <1>2, <1>4, <1>5 DEF ToSet
<1>9. ToSet(t) \subseteq ToSet(u)
  <2>1. \A i \in DOMAIN t : t[i] \in ToSet(u)
    BY <1>2, <1>4, <1>6 DEF ToSet
  <2> QED BY <2>1 DEF ToSet
<1>10. ToSet(u) \subseteq ToSet(s) \cup ToSet(t)
  <2>1. \A i \in DOMAIN u : u[i] \in ToSet(s) \cup ToSet(t)
    BY <1>2, <1>4, <1>7 DEF ToSet
  <2> QED BY <2>1 DEF ToSet
<1> QED BY <1>1, <1>3, <1>8, <1>9, <1>10

\* What is in nothing, and in one element.
LEMMA SmallRanges ==
  ASSUME NEW x
  PROVE  ToSet(<<>>) = {} /\ ToSet(<<x>>) = {x}
BY EmptyIsSequence, SingleFacts DEF ToSet

\* What is in a flattened sequence.
LEMMA FlattenRange ==
  ASSUME NEW ss, IsSequence(ss), \A i \in DOMAIN ss : IsSequence(ss[i])
  PROVE  /\ IsSequence(FlattenSeq(ss))
         /\ ToSet(FlattenSeq(ss)) = UNION {ToSet(ss[i]) : i \in DOMAIN ss}
<1>1. PICK F : F = FlattenSeq(ss) /\ IsSequence(F)
  BY FlattenIsSequence
<1>2. PICK b, o : FlattenedBy(F, ss, b, o)
  BY <1>1, FlattenBlocks
<1>3. DOMAIN F = 1 .. Len(F) /\ DOMAIN ss = 1 .. Len(ss)
  BY <1>1, SequenceFacts
<1>4. \A i \in DOMAIN ss : DOMAIN ss[i] = 1 .. Len(ss[i])
  BY SequenceFacts
<1>5. ASSUME NEW p \in DOMAIN F
      PROVE  \E i \in DOMAIN ss : F[p] \in ToSet(ss[i])
  <2>1. b[p] \in DOMAIN ss /\ o[p] \in DOMAIN ss[b[p]] /\ F[p] = ss[b[p]][o[p]]
    BY <1>2, <1>3, <1>4 DEF FlattenedBy
  <2> QED BY <2>1 DEF ToSet
<1>6. ASSUME NEW i \in DOMAIN ss, NEW k \in DOMAIN ss[i]
      PROVE  ss[i][k] \in ToSet(F)
  <2>a. i \in 1 .. Len(ss) /\ k \in 1 .. Len(ss[i])
    BY <1>3, <1>4
  <2>1. PICK p \in 1 .. Len(F) : b[p] = i /\ o[p] = k
    BY <1>2, <2>a DEF FlattenedBy
  <2>2. F[p] = ss[i][k]
    BY <1>2, <2>1 DEF FlattenedBy
  <2> QED BY <1>3, <2>1, <2>2 DEF ToSet
<1>7. ToSet(F) \subseteq UNION {ToSet(ss[i]) : i \in DOMAIN ss}
  BY <1>5 DEF ToSet
<1>8. UNION {ToSet(ss[i]) : i \in DOMAIN ss} \subseteq ToSet(F)
  BY <1>6 DEF ToSet
<1> QED BY <1>1, <1>7, <1>8

\* What is left of a sequence.
LEMMA OnlyIs ==
  ASSUME NEW s, NEW S
  PROVE  Only(s, S) = FlattenSeq([i \in DOMAIN s |-> IF s[i] \in S THEN <<s[i]>> ELSE <<>>])
<1>1. PICK flat : flat = FlattenSeq([i \in DOMAIN s |-> IF s[i] \in S THEN <<s[i]>> ELSE <<>>])
  OBVIOUS
<1>2. {FlattenSeq([i \in DOMAIN t |-> IF t[i] \in T THEN <<t[i]>> ELSE <<>>]) : t \in {s}, T \in {S}} = {flat}
  BY <1>1
<1> QED BY <1>1, <1>2 DEF Only

LEMMA OnlyFacts ==
  ASSUME NEW s, NEW S, IsSequence(s)
  PROVE  IsSequence(Only(s, S)) /\ ToSet(Only(s, S)) = ToSet(s) \cap S
<1>1. PICK ss : ss = [i \in DOMAIN s |-> IF s[i] \in S THEN <<s[i]>> ELSE <<>>]
  OBVIOUS
<1>2. DOMAIN s = 1 .. Len(s) /\ Len(s) \in Nat
  BY SequenceFacts
<1>3. IsSequence(ss) /\ DOMAIN ss = DOMAIN s
  <2>1. ss = [i \in 1 .. Len(s) |-> ss[i]]
    BY <1>1, <1>2
  <2> QED BY <1>1, <1>2, <2>1, SequenceOf
<1>4. \A i \in DOMAIN ss : IsSequence(ss[i]) /\ ToSet(ss[i]) = IF s[i] \in S THEN {s[i]} ELSE {}
  <2>1. \A i \in DOMAIN ss : ss[i] = IF s[i] \in S THEN <<s[i]>> ELSE <<>>
    BY <1>1, <1>3
  <2> QED BY <2>1, SmallRanges, SingleFacts, EmptyIsSequence
<1>5. IsSequence(FlattenSeq(ss)) /\ ToSet(FlattenSeq(ss)) = UNION {ToSet(ss[i]) : i \in DOMAIN ss}
  BY <1>3, <1>4, FlattenRange
<1>6. UNION {ToSet(ss[i]) : i \in DOMAIN ss} = ToSet(s) \cap S
  BY <1>3, <1>4 DEF ToSet
<1> QED BY <1>1, <1>5, <1>6, OnlyIs

\* What is a sequence of what another has.
LEMMA MappedFacts ==
  ASSUME NEW s, NEW t, IsSequence(s), t = [i \in DOMAIN s |-> t[i]]
  PROVE  IsSequence(t) /\ Len(t) = Len(s) /\ DOMAIN t = DOMAIN s
<1>1. DOMAIN s = 1 .. Len(s) /\ Len(s) \in Nat
  BY SequenceFacts
<1>2. t = [i \in 1 .. Len(s) |-> t[i]]
  BY <1>1
<1> QED BY <1>1, <1>2, SequenceOf

(***************************************************************************)
(* Arranged.  IsOrder says what its recursive function is.                 *)
(***************************************************************************)
NextOrder(prior, n, before) == CHOOSE more \in {Inserted(p, n, before) : p \in {prior}} : TRUE

LEMMA NextOrderIs ==
  ASSUME NEW prior, NEW n, NEW before
  PROVE  NextOrder(prior, n, before) = Inserted(prior, n, before)
BY DEF NextOrder

IsOrder(f, n, before) ==
  f = [k \in 0 .. n |-> IF k = 0 THEN <<>> ELSE NextOrder(f[k - 1], k, before)]

\* The recursive function exists, whatever the length.
LEMMA OrderExists ==
  ASSUME NEW before
  PROVE  \A n \in Nat : \E f : IsOrder(f, n, before)
<1> DEFINE T == {n \in Nat : ~\E f : IsOrder(f, n, before)}
<1> SUFFICES ASSUME T # {}
             PROVE  FALSE
  OBVIOUS
<1>1. PICK m \in T : \A n \in T : m <= n
  BY LeastElement
<1>2. CASE m = 0
  <2> DEFINE f == [k \in 0 .. 0 |-> <<>>]
  <2>1. IsOrder(f, 0, before)
    BY DEF IsOrder
  <2> QED BY <1>1, <1>2, <2>1
<1>3. CASE m # 0
  <2>1. m - 1 \in Nat /\ m - 1 \notin T
    BY <1>1, <1>3
  <2>2. PICK g : IsOrder(g, m - 1, before)
    BY <2>1
  <2> DEFINE f == [k \in 0 .. m |-> IF k < m THEN g[k] ELSE NextOrder(g[k - 1], k, before)]
  <2>3. \A k \in 0 .. m : f[k] = IF k = 0 THEN <<>> ELSE NextOrder(f[k - 1], k, before)
    <3> SUFFICES ASSUME NEW k \in 0 .. m
                 PROVE  f[k] = IF k = 0 THEN <<>> ELSE NextOrder(f[k - 1], k, before)
      OBVIOUS
    <3>1. k # 0 => k - 1 \in 0 .. m /\ k - 1 < m /\ f[k - 1] = g[k - 1]
      BY <1>1
    <3>2. CASE k < m
      <4>1. k \in 0 .. m - 1
        BY <1>1, <3>2
      <4>2. g[k] = IF k = 0 THEN <<>> ELSE NextOrder(g[k - 1], k, before)
        BY <2>2, <4>1 DEF IsOrder
      <4> QED BY <3>1, <3>2, <4>2
    <3>3. CASE ~(k < m)
      BY <1>3, <3>1, <3>3
    <3> QED BY <3>2, <3>3
  <2>4. f = [k \in 0 .. m |-> f[k]]
    OBVIOUS
  <2> HIDE DEF f
  <2>5. IsOrder(f, m, before)
    BY <2>3, <2>4 DEF IsOrder
  <2> QED BY <1>1, <2>5
<1> QED BY <1>2, <1>3

\* A position is put somewhere among others.
LEMMA InsertedFacts ==
  ASSUME NEW s, NEW n, NEW before, IsSequence(s)
  PROVE  /\ IsSequence(Inserted(s, n, before)) /\ Len(Inserted(s, n, before)) = Len(s) + 1
         /\ ToSet(Inserted(s, n, before)) = ToSet(s) \cup {n}
<1>1. PICK l \in Nat : l = Len(s) /\ DOMAIN s = 1 .. l
  BY SequenceFacts
<1>2. PICK S : S = {k \in DOMAIN s : <<n, s[k]>> \notin before}
  OBVIOUS
<1>3. PICK p \in 0 .. l : p = Cardinality(S)
  <2>1. IsFiniteSet(1 .. l) /\ Cardinality(1 .. l) = l
    BY FS_Interval
  <2>2. S \subseteq 1 .. l
    BY <1>1, <1>2
  <2>3. Cardinality(S) <= l /\ Cardinality(S) \in Nat
    BY <2>1, <2>2, FS_Subset, FS_CardinalityType
  <2> QED BY <2>3
<1>4. PICK a, b, x : a = SubSeq(s, 1, p) /\ b = SubSeq(s, p + 1, l) /\ x = <<n>>
  OBVIOUS
<1>5. IsSequence(a) /\ Len(a) = p /\ \A i \in 1 .. p : a[i] = s[i]
  BY <1>1, <1>4, PrefixFacts
<1>6. /\ IsSequence(b) /\ Len(b) = l - p
      /\ \A i \in 1 .. l - p : b[i] = s[p + i]
  <2>1. p + 1 \in 1 .. l + 1 /\ l \in (p + 1) - 1 .. l /\ l - (p + 1) + 1 = l - p
    OBVIOUS
  <2>2. /\ IsSequence(b) /\ Len(b) = l - (p + 1) + 1
        /\ \A i \in 1 .. l - (p + 1) + 1 : b[i] = s[(p + 1) + i - 1]
    BY <1>1, <1>4, <2>1, SubSeqFacts
  <2>3. \A i \in 1 .. l - p : (p + 1) + i - 1 = p + i
    OBVIOUS
  <2> QED BY <2>1, <2>2, <2>3
<1>7. IsSequence(x) /\ Len(x) = 1 /\ ToSet(x) = {n}
  BY <1>4, SingleFacts, SmallRanges
<1>8. PICK ax, u : ax = a \o x /\ u = ax \o b
  OBVIOUS
<1>a. IsSequence(ax) /\ Len(ax) = p + 1
  <2>1. IsSequence(a) /\ Len(a) = p /\ IsSequence(x) /\ Len(x) = 1 /\ ax = a \o x
    BY <1>5, <1>7, <1>8
  <2> QED BY <2>1, ConcatFacts
<1>b. ToSet(ax) = ToSet(a) \cup {n}
  BY <1>5, <1>7, <1>8, ConcatRange
<1>c. IsSequence(u) /\ Len(u) = (p + 1) + (l - p)
  <2>1. IsSequence(b) /\ Len(b) = l - p
    BY <1>6
  <2>2. IsSequence(u) /\ Len(u) = Len(ax) + Len(b)
    BY <1>8, <1>a, <2>1, ConcatFacts
  <2> QED BY <1>a, <2>1, <2>2
<1>9. ToSet(u) = ToSet(ax) \cup ToSet(b)
  BY <1>6, <1>8, <1>a, ConcatRange
<1>10. ToSet(a) \cup ToSet(b) = ToSet(s)
  <2>1. DOMAIN a = 1 .. p /\ DOMAIN b = 1 .. l - p
    BY <1>5, <1>6, SequenceFacts
  <2>2. \A i \in 1 .. p : i \in 1 .. l
    OBVIOUS
  <2>3. \A i \in 1 .. l - p : p + i \in 1 .. l
    OBVIOUS
  <2>4. ToSet(a) \subseteq ToSet(s)
    BY <1>1, <1>5, <2>1, <2>2 DEF ToSet
  <2>5. ToSet(b) \subseteq ToSet(s)
    BY <1>1, <1>6, <2>1, <2>3 DEF ToSet
  <2>6. ASSUME NEW i \in 1 .. l
        PROVE  s[i] \in ToSet(a) \cup ToSet(b)
    <3>1. CASE i <= p
      <4>1. i \in 1 .. p
        BY <3>1
      <4> QED BY <1>5, <2>1, <4>1 DEF ToSet
    <3>2. CASE ~(i <= p)
      <4>1. i - p \in 1 .. l - p /\ p + (i - p) = i
        BY <3>2
      <4>2. b[i - p] = s[i]
        BY <1>6, <4>1
      <4> QED BY <2>1, <4>1, <4>2 DEF ToSet
    <3> QED BY <3>1, <3>2
  <2>7. ToSet(s) \subseteq ToSet(a) \cup ToSet(b)
    BY <1>1, <2>6 DEF ToSet
  <2> QED BY <2>4, <2>5, <2>7
<1>11. Inserted(s, n, before) = u
  BY <1>1, <1>2, <1>3, <1>4, <1>8 DEF Inserted
<1>12. (p + 1) + (l - p) = l + 1
  OBVIOUS
<1> QED BY <1>1, <1>9, <1>10, <1>11, <1>12, <1>b, <1>c

\* The order has each position.
LEMMA OrderFacts ==
  ASSUME NEW f, NEW n \in Nat, NEW before, IsOrder(f, n, before)
  PROVE  \A k \in 0 .. n : IsSequence(f[k]) /\ Len(f[k]) = k /\ ToSet(f[k]) = 1 .. k
<1> DEFINE T == {k \in 0 .. n : ~(IsSequence(f[k]) /\ Len(f[k]) = k /\ ToSet(f[k]) = 1 .. k)}
<1> SUFFICES ASSUME T # {}
             PROVE  FALSE
  OBVIOUS
<1>1. T \in SUBSET Nat
  OBVIOUS
<1>2. PICK k \in T : \A j \in T : k <= j
  BY <1>1, LeastElement
<1>3. f[k] = IF k = 0 THEN <<>> ELSE NextOrder(f[k - 1], k, before)
  <2>1. k \in 0 .. n
    BY <1>2
  <2> HIDE DEF T
  <2> QED BY <2>1 DEF IsOrder
<1>4. CASE k = 0
  <2>1. f[k] = <<>> /\ 1 .. 0 = {}
    BY <1>3, <1>4
  <2>2. ToSet(<<>>) = {}
    BY SmallRanges
  <2> QED BY <1>2, <1>4, <2>1, <2>2, EmptyIsSequence
<1>5. CASE k # 0
  <2>1. k - 1 \in 0 .. n /\ ~(k <= k - 1)
    BY <1>2, <1>5
  <2>2. k - 1 \notin T
    BY <1>2, <2>1
  <2>3. PICK s : s = f[k - 1] /\ IsSequence(s) /\ Len(s) = k - 1 /\ ToSet(s) = 1 .. k - 1
    BY <2>1, <2>2
  <2>4. f[k] = Inserted(s, k, before)
    BY <1>3, <1>5, <2>3, NextOrderIs
  <2>5. IsSequence(f[k]) /\ Len(f[k]) = k - 1 + 1 /\ ToSet(f[k]) = 1 .. k - 1 \cup {k}
    BY <2>3, <2>4, InsertedFacts
  <2>6. k - 1 + 1 = k /\ (1 .. k - 1) \cup {k} = 1 .. k
    BY <1>2, <1>5
  <2> QED BY <1>2, <2>5, <2>6
<1> QED BY <1>4, <1>5

\* Sorting keeps what there is.
LEMMA ArrangedFacts ==
  ASSUME NEW s, NEW before, IsSequence(s)
  PROVE  /\ IsSequence(Arranged(s, before)) /\ Len(Arranged(s, before)) = Len(s)
         /\ ToSet(Arranged(s, before)) = ToSet(s)
<1>1. PICK n \in Nat : n = Len(s) /\ DOMAIN s = 1 .. n
  BY SequenceFacts
<1> DEFINE f == CHOOSE f : IsOrder(f, n, before)
<1>2. IsOrder(f, n, before)
  BY <1>1, OrderExists
<1>3. PICK a : a = [i \in DOMAIN s |-> s[f[n][i]]]
  OBVIOUS
<1>4. Arranged(s, before) = a
  <2>1. Arranged(s, before) = CHOOSE arranged \in {[i \in DOMAIN s |-> s[last[i]]] : last \in {f[n]}} : TRUE
    BY <1>1 DEF Arranged, IsOrder, NextOrder
  <2> HIDE DEF f
  <2> QED BY <1>3, <2>1
<1> HIDE DEF f
<1>5. n \in 0 .. n
  OBVIOUS
<1>6. PICK o : o = f[n] /\ IsSequence(o) /\ Len(o) = n /\ ToSet(o) = 1 .. n
  BY <1>2, <1>5, OrderFacts
<1>7. DOMAIN o = 1 .. n
  BY <1>6, SequenceFacts
<1>8. a = [i \in DOMAIN s |-> a[i]] /\ DOMAIN a = 1 .. n /\ \A i \in 1 .. n : a[i] = s[o[i]]
  BY <1>1, <1>3, <1>6
<1>9. IsSequence(a) /\ Len(a) = Len(s)
  BY <1>8, MappedFacts
<1>10. \A i \in 1 .. n : o[i] \in 1 .. n
  BY <1>6, <1>7 DEF ToSet
<1>11. \A j \in 1 .. n : \E i \in 1 .. n : o[i] = j
  BY <1>6, <1>7 DEF ToSet
<1>12. ToSet(a) = ToSet(s)
  <2>1. ToSet(a) \subseteq ToSet(s)
    BY <1>1, <1>8, <1>10 DEF ToSet
  <2>2. \A j \in 1 .. n : s[j] \in ToSet(a)
    <3> SUFFICES ASSUME NEW j \in 1 .. n
                 PROVE  s[j] \in ToSet(a)
      OBVIOUS
    <3>1. PICK i \in 1 .. n : o[i] = j
      BY <1>11
    <3>2. a[i] = s[j]
      BY <1>8, <3>1
    <3> QED BY <1>8, <3>2 DEF ToSet
  <2>3. ToSet(s) \subseteq ToSet(a)
    BY <1>1, <2>2 DEF ToSet
  <2> QED BY <2>1, <2>3
<1> QED BY <1>4, <1>9, <1>12

\* What is in two elements.
LEMMA PairFacts ==
  ASSUME NEW a, NEW b
  PROVE  IsSequence(<<a, b>>) /\ ToSet(<<a, b>>) = {a, b}
<1>1. PICK s, t : s = <<a>> /\ t = <<b>>
  OBVIOUS
<1>2. IsSequence(s) /\ IsSequence(t) /\ ToSet(s) = {a} /\ ToSet(t) = {b}
  BY <1>1, SingleFacts, SmallRanges
<1>3. IsSequence(s \o t) /\ ToSet(s \o t) = {a, b}
  BY <1>2, ConcatRange
<1> QED BY <1>1, <1>3, PairIs

\* What is in a sequence that is made of another.
LEMMA MadeFacts ==
  ASSUME NEW s, NEW t, IsSequence(s), t = [i \in DOMAIN s |-> t[i]]
  PROVE  IsSequence(t) /\ ToSet(t) = {t[i] : i \in DOMAIN s}
BY MappedFacts DEF ToSet

\* What is in sequences that are made of another, one after the other.
LEMMA FlatMadeFacts ==
  ASSUME NEW s, NEW t, IsSequence(s), t = [i \in DOMAIN s |-> t[i]], \A i \in DOMAIN s : IsSequence(t[i])
  PROVE  /\ IsSequence(FlattenSeq(t))
         /\ \A x : x \in ToSet(FlattenSeq(t)) <=> \E i \in DOMAIN s : x \in ToSet(t[i])
<1>1. IsSequence(t) /\ DOMAIN t = DOMAIN s
  BY MappedFacts
<1>2. IsSequence(FlattenSeq(t)) /\ ToSet(FlattenSeq(t)) = UNION {ToSet(t[i]) : i \in DOMAIN t}
  BY <1>1, FlattenRange
<1> QED BY <1>1, <1>2

\* What is in five sequences, one after the other.
LEMMA FiveConcatenated ==
  ASSUME NEW p1, NEW p2, NEW p3, NEW p4, NEW p5,
         IsSequence(p1), IsSequence(p2), IsSequence(p3), IsSequence(p4), IsSequence(p5)
  PROVE  /\ IsSequence(p1 \o p2 \o p3 \o p4 \o p5)
         /\ ToSet(p1 \o p2 \o p3 \o p4 \o p5)
              = (((ToSet(p1) \cup ToSet(p2)) \cup ToSet(p3)) \cup ToSet(p4)) \cup ToSet(p5)
<1>1. PICK a : a = p1 \o p2
  OBVIOUS
<1>2. PICK b : b = a \o p3
  OBVIOUS
<1>3. PICK d : d = b \o p4
  OBVIOUS
<1>4. IsSequence(a) /\ ToSet(a) = ToSet(p1) \cup ToSet(p2)
  BY <1>1, ConcatRange
<1>5. IsSequence(b) /\ ToSet(b) = ToSet(a) \cup ToSet(p3)
  BY <1>2, <1>4, ConcatRange
<1>6. IsSequence(d) /\ ToSet(d) = ToSet(b) \cup ToSet(p4)
  BY <1>3, <1>5, ConcatRange
<1>7. IsSequence(d \o p5) /\ ToSet(d \o p5) = ToSet(d) \cup ToSet(p5)
  BY <1>6, ConcatRange
<1> QED BY <1>1, <1>2, <1>3, <1>4, <1>5, <1>6, <1>7

\* The last element.
LEMMA LastIn ==
  ASSUME NEW s, IsSequence(s), s # <<>>
  PROVE  Last(s) \in ToSet(s)
<1>1. Len(s) \in Nat /\ DOMAIN s = 1 .. Len(s) /\ Len(s) # 0
  BY SequenceFacts, EmptyIsSequence
<1>2. Len(s) \in DOMAIN s
  BY <1>1
<1> QED BY <1>2 DEF Last, ToSet

\* Where what is left of a sequence has stood.
LEMMA OnlyEmbeds ==
  ASSUME NEW s, NEW S, IsSequence(s)
  PROVE  \E e : /\ \A p \in DOMAIN Only(s, S) : e[p] \in DOMAIN s /\ Only(s, S)[p] = s[e[p]] /\ s[e[p]] \in S
                /\ \A p, q \in DOMAIN Only(s, S) : e[p] = e[q] => p = q
<1>1. PICK ss : ss = [i \in DOMAIN s |-> IF s[i] \in S THEN <<s[i]>> ELSE <<>>]
  OBVIOUS
<1>2. Only(s, S) = FlattenSeq(ss)
  BY <1>1, OnlyIs
<1>3. IsSequence(ss) /\ DOMAIN ss = DOMAIN s /\ DOMAIN s = 1 .. Len(ss)
  <2>1. ss = [i \in DOMAIN s |-> ss[i]]
    BY <1>1
  <2> QED BY <2>1, MappedFacts, SequenceFacts
<1>4. \A i \in DOMAIN s : IF s[i] \in S THEN ss[i] = <<s[i]>> ELSE ss[i] = <<>>
  BY <1>1
<1>5. ASSUME NEW i \in DOMAIN s
      PROVE  IsSequence(ss[i]) /\ \A k \in 1 .. Len(ss[i]) : k = 1 /\ s[i] \in S /\ ss[i][k] = s[i]
  <2>1. CASE s[i] \in S
    <3>1. PICK t : t = <<s[i]>> /\ IsSequence(t) /\ Len(t) = 1 /\ t[1] = s[i]
      BY SingleFacts
    <3>2. ss[i] = t
      BY <1>4, <2>1, <3>1
    <3>3. \A k \in 1 .. 1 : k = 1
      OBVIOUS
    <3> QED BY <2>1, <3>1, <3>2, <3>3
  <2>2. CASE s[i] \notin S
    <3>1. ss[i] = <<>>
      BY <1>4, <2>2
    <3>2. 1 .. 0 = {}
      OBVIOUS
    <3> QED BY <3>1, <3>2, EmptyIsSequence
  <2> QED BY <2>1, <2>2
<1>6. PICK F : F = FlattenSeq(ss)
  OBVIOUS
<1>7. PICK b, o : FlattenedBy(F, ss, b, o)
  BY <1>3, <1>5, <1>6, FlattenBlocks
<1>8. IsSequence(F) /\ Len(F) \in Nat /\ DOMAIN F = 1 .. Len(F)
  BY <1>3, <1>5, <1>6, FlattenIsSequence, SequenceFacts
<1>9. \A p \in DOMAIN F : b[p] \in DOMAIN s /\ o[p] = 1 /\ F[p] = s[b[p]] /\ s[b[p]] \in S
  <2>1. TAKE p \in DOMAIN F
  <2>2. b[p] \in 1 .. Len(ss) /\ o[p] \in 1 .. Len(ss[b[p]]) /\ F[p] = ss[b[p]][o[p]]
    BY <1>7, <1>8 DEF FlattenedBy
  <2> QED BY <1>3, <1>5, <2>2
<1>10. ASSUME NEW p \in DOMAIN F, NEW q \in DOMAIN F, b[p] = b[q]
       PROVE  p = q
  <2>1. o[p] = o[q]
    BY <1>9
  <2> QED BY <1>3, <1>5, <1>7, <1>8, <1>10, <2>1, FlattenOrder
<1> QED BY <1>2, <1>6, <1>9, <1>10

\* Where what is arranged has stood: everywhere, once.
LEMMA ArrangedEmbeds ==
  ASSUME NEW s, NEW before, IsSequence(s)
  PROVE  \E e : /\ \A p \in DOMAIN s : e[p] \in DOMAIN s /\ Arranged(s, before)[p] = s[e[p]]
                /\ \A p, q \in DOMAIN s : e[p] = e[q] => p = q
<1>1. PICK n \in Nat : n = Len(s) /\ DOMAIN s = 1 .. n
  BY SequenceFacts
<1> DEFINE f == CHOOSE f : IsOrder(f, n, before)
<1>2. IsOrder(f, n, before)
  BY <1>1, OrderExists
<1>3. PICK a : a = [i \in DOMAIN s |-> s[f[n][i]]]
  OBVIOUS
<1>4. Arranged(s, before) = a
  <2>1. Arranged(s, before) = CHOOSE arranged \in {[i \in DOMAIN s |-> s[last[i]]] : last \in {f[n]}} : TRUE
    BY <1>1 DEF Arranged, IsOrder, NextOrder
  <2> HIDE DEF f
  <2> QED BY <1>3, <2>1
<1> HIDE DEF f
<1>5. n \in 0 .. n
  OBVIOUS
<1>6. PICK o : o = f[n] /\ IsSequence(o) /\ Len(o) = n /\ ToSet(o) = 1 .. n
  BY <1>2, <1>5, OrderFacts
<1>7. o = [i \in 1 .. n |-> o[i]] /\ \A i \in 1 .. n : o[i] \in 1 .. n
  BY <1>6, SequenceFacts DEF ToSet
<1>8. o \in Surjection(1 .. n, 1 .. n)
  <2>1. \A j \in 1 .. n : \E i \in 1 .. n : o[i] = j
    BY <1>6, <1>7 DEF ToSet
  <2>2. o \in [1 .. n -> 1 .. n]
    BY <1>7
  <2> QED BY <2>1, <2>2 DEF Surjection
<1>9. IsFiniteSet(1 .. n)
  BY FS_Interval
<1>10. o \in Injection(1 .. n, 1 .. n)
  BY <1>8, <1>9, FS_SurjSameCardinalityImpliesInj
<1>11. \A p, q \in 1 .. n : o[p] = o[q] => p = q
  BY <1>10 DEF Injection, IsInjective
<1>12. \A p \in DOMAIN s : o[p] \in DOMAIN s /\ a[p] = s[o[p]]
  BY <1>1, <1>3, <1>6, <1>7
<1> QED BY <1>1, <1>4, <1>11, <1>12
-----------------------------------------------------------------------------

\* What is one longer.
LEMMA OneLonger ==
  ASSUME NEW ss, NEW tt, IsSequence(ss), IsSequence(tt), NEW n \in Nat, Len(ss) = n, Len(tt) = n + 1,
         \A i \in 1 .. n : tt[i] = ss[i]
  PROVE  tt = ss \o <<tt[n + 1]>>
<1>1. PICK u : u = Append(ss, tt[n + 1])
  OBVIOUS
<1>2. /\ IsSequence(u) /\ Len(u) = n + 1
      /\ \A i \in 1 .. n : u[i] = ss[i]
      /\ u[n + 1] = tt[n + 1]
  BY <1>1, AppendFacts
<1>3. \A i \in 1 .. n + 1 : i \in 1 .. n \/ i = n + 1
  OBVIOUS
<1>4. tt = u
  BY <1>2, <1>3, SameSequence
<1> QED BY <1>1, <1>4, AppendConcat

\* What is left of a sequence that ends with x.
LEMMA OnlyAppend ==
  ASSUME NEW s, NEW x, NEW S, IsSequence(s)
  PROVE  Only(s \o <<x>>, S) = IF x \in S THEN Only(s, S) \o <<x>> ELSE Only(s, S)
<1>1. PICK t : t = s \o <<x>>
  OBVIOUS
<1>2. PICK ss : ss = [i \in DOMAIN s |-> IF s[i] \in S THEN <<s[i]>> ELSE <<>>]
  OBVIOUS
<1>3. PICK tt : tt = [i \in DOMAIN t |-> IF t[i] \in S THEN <<t[i]>> ELSE <<>>]
  OBVIOUS
<1>4. PICK n \in Nat : n = Len(s) /\ DOMAIN s = 1 .. n /\ DOMAIN t = 1 .. n + 1
                       /\ (\A i \in 1 .. n : t[i] = s[i]) /\ t[n + 1] = x
  <2>1. t = Append(s, x)
    BY <1>1, AppendConcat
  <2> QED BY <2>1, AppendFacts, SequenceFacts
<1>5. \A i \in DOMAIN s : i \in DOMAIN t /\ tt[i] = ss[i]
  BY <1>2, <1>3, <1>4
<1>6. ss = [i \in DOMAIN s |-> ss[i]] /\ tt = [i \in DOMAIN t |-> tt[i]]
  BY <1>2, <1>3
<1>7. IsSequence(ss) /\ tt = ss \o <<tt[n + 1]>>
  <2>5. t = Append(s, x)
    BY <1>1, AppendConcat
  <2>1. IsSequence(t) /\ Len(t) = n + 1
    BY <1>4, <2>5, AppendFacts
  <2>2. IsSequence(ss) /\ Len(ss) = n
    BY <1>4, <1>6, MappedFacts
  <2>3. IsSequence(tt) /\ Len(tt) = n + 1
    BY <1>6, <2>1, MappedFacts
  <2>4. \A i \in 1 .. n : tt[i] = ss[i]
    BY <1>4, <1>5
  <2> QED BY <2>2, <2>3, <2>4, OneLonger
<1>8. tt[n + 1] = IF x \in S THEN <<x>> ELSE <<>>
  BY <1>3, <1>4
<1>9. PICK piece : piece = tt[n + 1] /\ IsSequence(piece)
  BY <1>8, SingleFacts, EmptyIsSequence
<1>10. FlattenSeq(tt) = FlattenSeq(ss) \o piece
  BY <1>7, <1>9, FlattenAppend
<1>11. FlattenSeq(ss) = Only(s, S) /\ FlattenSeq(tt) = Only(t, S)
  BY <1>2, <1>3, OnlyIs
<1>12. IsSequence(Only(s, S))
  BY OnlyFacts
<1> QED BY <1>1, <1>8, <1>9, <1>10, <1>11, <1>12, ConcatEmpty

\* Something after two sequences.
LEMMA AppendAssociates ==
  ASSUME NEW a, NEW b, NEW x, IsSequence(a), IsSequence(b)
  PROVE  (a \o b) \o <<x>> = a \o (b \o <<x>>)
<1>1. PICK e : e = <<x>> /\ IsSequence(e)
  BY SingleFacts
<1>2. (a \o b) \o e = a \o (b \o e)
  BY SMTT(30), <1>1, ConcatAssociates
<1> QED BY <1>1, <1>2

LEMMA OnlyOfNothing == \A S : Only(<<>>, S) = <<>>
<1> TAKE S
<1>1. PICK nothing : nothing = <<>>
  OBVIOUS
<1>2. [i \in DOMAIN nothing |-> IF nothing[i] \in S THEN <<nothing[i]>> ELSE <<>>] = <<>>
  BY <1>1, EmptyIsSequence, OnlyEmpty
<1>3. Only(nothing, S) = <<>>
  BY <1>2, FlattenEmpty, OnlyIs
<1> QED BY <1>1, <1>3

\* All of it is left.
LEMMA OnlyAll ==
  ASSUME NEW s, NEW S, IsSequence(s), ToSet(s) \subseteq S
  PROVE  Only(s, S) = s
<1> DEFINE Bad(n) == \E r : IsSequence(r) /\ Len(r) = n /\ (\A i \in 1 .. n : r[i] \in S) /\ Only(r, S) # r
           T == {n \in Nat : Bad(n)}
<1> SUFFICES T = {}
  <2>1. Len(s) \in Nat /\ \A i \in 1 .. Len(s) : s[i] \in S
    BY SequenceFacts DEF ToSet
  <2> QED BY <2>1
<1> SUFFICES ASSUME T # {}
             PROVE  FALSE
  OBVIOUS
<1>1. T \in SUBSET Nat
  OBVIOUS
<1>2. PICK m \in T : \A n \in T : m <= n
  BY <1>1, LeastElement
<1>3. PICK r : IsSequence(r) /\ Len(r) = m /\ (\A i \in 1 .. m : r[i] \in S) /\ Only(r, S) # r
  BY <1>2
<1>4. r # <<>>
  BY <1>3, OnlyOfNothing
<1>5. PICK q, x : EndsWith(r, q, x)
  BY <1>3, <1>4, FrontAndLast
<1>6. IsSequence(q) /\ r = q \o <<x>> /\ Len(q) \in Nat /\ m = Len(q) + 1 /\ x = r[m] /\ \A i \in 1 .. Len(q) : q[i] = r[i]
  BY <1>3, <1>5 DEF EndsWith
<1>7. x \in S /\ ~(m <= Len(q)) /\ \A i \in 1 .. Len(q) : q[i] \in S
  BY <1>3, <1>6
<1>8. Only(q, S) = q
  BY <1>2, <1>6, <1>7
<1> HIDE DEF T
<1>9. Only(r, S) = IF x \in S THEN Only(q, S) \o <<x>> ELSE Only(q, S)
  BY <1>6, OnlyAppend
<1> QED BY <1>3, <1>6, <1>7, <1>8, <1>9

\* And of one sequence after another.
LEMMA OnlyConcat ==
  ASSUME NEW s, NEW t, NEW S, IsSequence(s), IsSequence(t)
  PROVE  Only(s \o t, S) = Only(s, S) \o Only(t, S)
<1> DEFINE Bad(n) == \E r : IsSequence(r) /\ Len(r) = n /\ Only(s \o r, S) # Only(s, S) \o Only(r, S)
           T == {n \in Nat : Bad(n)}
<1> SUFFICES T = {}
  <2>1. Len(t) \in Nat
    BY SequenceFacts
  <2> QED BY <2>1
<1> SUFFICES ASSUME T # {}
             PROVE  FALSE
  OBVIOUS
<1>1. T \in SUBSET Nat
  OBVIOUS
<1>2. PICK m \in T : \A n \in T : m <= n
  BY <1>1, LeastElement
<1>3. PICK r : IsSequence(r) /\ Len(r) = m /\ Only(s \o r, S) # Only(s, S) \o Only(r, S)
  BY <1>2
<1>4. r # <<>>
  <2>1. s \o <<>> = s /\ Only(s, S) \o <<>> = Only(s, S)
    BY ConcatEmpty, OnlyFacts
  <2> QED BY <1>3, <2>1, OnlyOfNothing
<1>5. PICK q, x : EndsWith(r, q, x)
  BY <1>3, <1>4, FrontAndLast
<1>6. Len(q) \in Nat /\ ~(m <= Len(q)) /\ IsSequence(q) /\ r = q \o <<x>>
  BY <1>2, <1>3, <1>5 DEF EndsWith
<1>7. Only(s \o q, S) = Only(s, S) \o Only(q, S)
  BY <1>2, <1>6
<1> HIDE DEF T
<1>8. s \o r = (s \o q) \o <<x>>
  BY <1>6, AppendAssociates
<1>9. PICK v : v = s \o q /\ IsSequence(v)
  BY <1>6, ConcatFacts
<1>10. Only(s \o r, S) = IF x \in S THEN Only(v, S) \o <<x>> ELSE Only(v, S)
  BY <1>8, <1>9, OnlyAppend
<1>11. Only(r, S) = IF x \in S THEN Only(q, S) \o <<x>> ELSE Only(q, S)
  BY <1>6, OnlyAppend
<1>12. PICK a, b : a = Only(s, S) /\ b = Only(q, S) /\ IsSequence(a) /\ IsSequence(b)
  BY <1>6, OnlyFacts
<1>13. (a \o b) \o <<x>> = a \o (b \o <<x>>)
  BY <1>12, AppendAssociates
<1> QED BY <1>3, <1>7, <1>9, <1>10, <1>11, <1>12, <1>13

\* What is left of what is left.
LEMMA OnlyOnly ==
  ASSUME NEW s, NEW A, NEW B, IsSequence(s)
  PROVE  Only(Only(s, A), B) = Only(s, A \cap B)
<1> DEFINE Bad(n) == \E r : IsSequence(r) /\ Len(r) = n /\ Only(Only(r, A), B) # Only(r, A \cap B)
           T == {n \in Nat : Bad(n)}
<1> SUFFICES T = {}
  <2>1. Len(s) \in Nat
    BY SequenceFacts
  <2> QED BY <2>1
<1> SUFFICES ASSUME T # {}
             PROVE  FALSE
  OBVIOUS
<1>1. T \in SUBSET Nat
  OBVIOUS
<1>2. PICK m \in T : \A n \in T : m <= n
  BY <1>1, LeastElement
<1>3. PICK r : IsSequence(r) /\ Len(r) = m /\ Only(Only(r, A), B) # Only(r, A \cap B)
  BY <1>2
<1>4. r # <<>>
  BY <1>3, OnlyOfNothing
<1>5. PICK q, x : EndsWith(r, q, x)
  BY <1>3, <1>4, FrontAndLast
<1>6. Len(q) \in Nat /\ ~(m <= Len(q)) /\ IsSequence(q) /\ r = q \o <<x>>
  BY <1>2, <1>3, <1>5 DEF EndsWith
<1>7. Only(Only(q, A), B) = Only(q, A \cap B)
  BY <1>2, <1>6
<1> HIDE DEF T
<1>8. Only(r, A) = IF x \in A THEN Only(q, A) \o <<x>> ELSE Only(q, A)
  BY <1>6, OnlyAppend
<1>9. Only(r, A \cap B) = IF x \in A \cap B THEN Only(q, A \cap B) \o <<x>> ELSE Only(q, A \cap B)
  BY <1>6, OnlyAppend
<1>10. PICK a : a = Only(q, A) /\ IsSequence(a)
  BY <1>6, OnlyFacts
<1>11. Only(a \o <<x>>, B) = IF x \in B THEN Only(a, B) \o <<x>> ELSE Only(a, B)
  BY <1>10, OnlyAppend
<1> QED BY <1>3, <1>7, <1>8, <1>9, <1>10, <1>11

\* Only what is there matters.
LEMMA OnlySame ==
  ASSUME NEW s, NEW A, NEW B, ToSet(s) \cap A = ToSet(s) \cap B
  PROVE  Only(s, A) = Only(s, B)
<1>1. \A i \in DOMAIN s : s[i] \in A <=> s[i] \in B
  BY DEF ToSet
<1>2. [i \in DOMAIN s |-> IF s[i] \in A THEN <<s[i]>> ELSE <<>>] = [i \in DOMAIN s |-> IF s[i] \in B THEN <<s[i]>> ELSE <<>>]
  BY <1>1
<1> QED BY <1>2, OnlyIs

\* What is left of flattened sequences is what is left of each.
LEMMA OnlyFlatten ==
  ASSUME NEW ss, NEW S, IsSequence(ss), \A i \in DOMAIN ss : IsSequence(ss[i])
  PROVE  Only(FlattenSeq(ss), S) = FlattenSeq([i \in DOMAIN ss |-> Only(ss[i], S)])
<1> DEFINE Left(r) == [i \in DOMAIN r |-> Only(r[i], S)]
           Bad(n) == \E r : /\ IsSequence(r) /\ Len(r) = n /\ (\A i \in DOMAIN r : IsSequence(r[i]))
                            /\ Only(FlattenSeq(r), S) # FlattenSeq(Left(r))
           T == {n \in Nat : Bad(n)}
<1> SUFFICES T = {}
  <2>1. Len(ss) \in Nat
    BY SequenceFacts
  <2> QED BY <2>1
<1> SUFFICES ASSUME T # {}
             PROVE  FALSE
  OBVIOUS
<1>1. T \in SUBSET Nat
  OBVIOUS
<1>2. PICK m \in T : \A n \in T : m <= n
  BY <1>1, LeastElement
<1>3. PICK r : /\ IsSequence(r) /\ Len(r) = m /\ (\A i \in DOMAIN r : IsSequence(r[i]))
               /\ Only(FlattenSeq(r), S) # FlattenSeq(Left(r))
  BY <1>2
<1>4. r # <<>>
  <2>1. DOMAIN Left(<<>>) = {} /\ Left(<<>>) = <<>>
    BY EmptyIsSequence
  <2> QED BY <1>3, <2>1, FlattenEmpty, OnlyOfNothing
<1>5. PICK q, x : EndsWith(r, q, x)
  BY <1>3, <1>4, FrontAndLast
<1>6. /\ Len(q) \in Nat /\ IsSequence(q) /\ r = q \o <<x>>
      /\ \A i \in 1 .. Len(q) : q[i] = r[i]
      /\ Len(r) = Len(q) + 1 /\ x = r[Len(r)]
  BY <1>5 DEF EndsWith
<1>18. ~(m <= Len(q))
  BY <1>3, <1>6
<1>7. /\ DOMAIN q = 1 .. Len(q) /\ DOMAIN r = 1 .. Len(q) + 1
      /\ \A i \in DOMAIN q : i \in DOMAIN r /\ q[i] = r[i] /\ IsSequence(q[i])
      /\ IsSequence(x)
  <2>1. DOMAIN q = 1 .. Len(q) /\ DOMAIN r = 1 .. Len(q) + 1
    BY <1>3, <1>6, SequenceFacts
  <2>2. Len(q) + 1 \in 1 .. Len(q) + 1 /\ \A i \in 1 .. Len(q) : i \in 1 .. Len(q) + 1
    BY <1>6
  <2> QED BY <1>3, <1>6, <2>1, <2>2
<1>8. Only(FlattenSeq(q), S) = FlattenSeq(Left(q))
  BY <1>2, <1>6, <1>7, <1>18
<1> HIDE DEF T
<1>9. PICK u, v : u = Left(q) /\ v = Left(r)
  OBVIOUS
<1>10. /\ u = [i \in DOMAIN q |-> u[i]] /\ v = [i \in DOMAIN r |-> v[i]]
       /\ \A i \in DOMAIN q : v[i] = u[i]
  BY <1>7, <1>9
<1>11. IsSequence(u) /\ v = u \o <<v[Len(q) + 1]>>
  <2>1. PICK n \in Nat : n = Len(q) /\ DOMAIN q = 1 .. n /\ Len(r) = n + 1
    BY <1>6, <1>7
  <2>2. IsSequence(u) /\ Len(u) = n
    BY <1>6, <1>10, <2>1, MappedFacts
  <2>3. IsSequence(v) /\ Len(v) = n + 1
    BY <1>3, <1>10, <2>1, MappedFacts
  <2>4. \A i \in 1 .. n : v[i] = u[i]
    BY <1>10, <2>1
  <2>5. v = u \o <<v[n + 1]>>
    BY <2>2, <2>3, <2>4, OneLonger
  <2> QED BY <2>1, <2>2, <2>5
<1>12. v[Len(q) + 1] = Only(x, S)
  <2>1. Len(q) + 1 \in DOMAIN r /\ r[Len(q) + 1] = x
    BY <1>6, <1>7
  <2> QED BY <1>9, <2>1
<1>13. PICK y : y = Only(x, S) /\ IsSequence(y)
  BY <1>7, OnlyFacts
<1>14. FlattenSeq(v) = FlattenSeq(u) \o y
  BY <1>11, <1>12, <1>13, FlattenAppend
<1>15. FlattenSeq(r) = FlattenSeq(q) \o x
  BY <1>6, <1>7, FlattenAppend
<1>16. IsSequence(FlattenSeq(q))
  BY <1>6, <1>7, FlattenIsSequence
<1>17. Only(FlattenSeq(r), S) = Only(FlattenSeq(q), S) \o y
  <2>1. PICK p : p = FlattenSeq(q) /\ IsSequence(p)
    BY <1>16
  <2>3. IsSequence(x)
    BY <1>7
  <2>2. Only(p \o x, S) = Only(p, S) \o Only(x, S)
    BY <2>1, <2>3, OnlyConcat
  <2> QED BY <1>13, <1>15, <2>1, <2>2
<1> HIDE DEF Left
<1>19. Only(FlattenSeq(q), S) = FlattenSeq(u)
  BY <1>8, <1>9
<1>20. Only(FlattenSeq(r), S) = FlattenSeq(v)
  BY <1>14, <1>17, <1>19
<1> QED BY <1>3, <1>9, <1>20
==============================================================================
